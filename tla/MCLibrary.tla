------------------------------ MODULE MCLibrary ------------------------------
(***************************************************************************)
(* The parts of the repository that one thread uses, each checked by       *)
(* itself: subject is the part whose operations a behaviour calls.  The    *)
(* others stay as they are at first.                                       *)
(***************************************************************************)
EXTENDS Any, Variant, SharedPtr, CompileTime, List, LinkedList, UnorderedMap

VARIABLE subject

\* The numbers to print have up to four digits.
MCNumber == (-120..120) \cup {-1001, -1000, 999, 1000, 1234}

ownVars == <<own, adopted>>
templateVars == <<number, vector>>

Init ==
  /\ subject \in {"list", "linked list", "map", "shared_ptr", "variant", "any",
                  "template"}
  /\ ListInit
  /\ ChainInit
  /\ MapInit
  /\ OwnInit
  /\ VariantInit
  /\ AnyInit
  /\ IF subject = "template" THEN CompileInit ELSE number = 1 /\ vector = <<>>

Next ==
  /\ UNCHANGED <<subject, templateVars>>
  /\ \/ /\ subject = "list" /\ ListNext
        /\ UNCHANGED <<chainVars, mapVars, ownVars, variantVars, anyVars>>
     \/ /\ subject = "linked list" /\ ChainNext
        /\ UNCHANGED <<listVars, mapVars, ownVars, variantVars, anyVars>>
     \/ /\ subject = "map" /\ MapNext
        /\ UNCHANGED <<listVars, chainVars, ownVars, variantVars, anyVars>>
     \/ /\ subject = "shared_ptr" /\ OwnNext
        /\ UNCHANGED <<listVars, chainVars, mapVars, variantVars, anyVars>>
     \/ /\ subject = "variant" /\ VariantNext
        /\ UNCHANGED <<listVars, chainVars, mapVars, ownVars, anyVars>>
     \/ /\ subject = "any" /\ AnyNext
        /\ UNCHANGED <<listVars, chainVars, mapVars, ownVars, variantVars>>

vars == <<subject, listVars, chainVars, mapVars, ownVars, variantVars, anyVars,
          templateVars>>
Spec == Init /\ [][Next]_vars
=============================================================================
