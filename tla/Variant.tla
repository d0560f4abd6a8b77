------------------------------- MODULE Variant -------------------------------
(***************************************************************************)
(* variant.h: variant, one object of one of several types and the code of  *)
(* its type; variants that one thread builds, assigns and destroys.        *)
(*                                                                         *)
(* The operators that look up how to copy an object do so by the code of   *)
(* the variant that is written, not of the one that is read (113, 121,     *)
(* 138, 147).  A value is given as an rvalue, a variant to copy as const:  *)
(* nothing else compiles.  Stored objects may throw when they are built.   *)
(* What follows a step that is undefined, or that ends the program, is     *)
(* left out; the missing returns of the assignments (130-159) are not      *)
(* followed, as in a build without optimization.                           *)
(***************************************************************************)
CONSTANTS Variants,
          Type,     \* the types a variant may hold
          Void,     \* the code of no type, and storage without an object
          Mixed,    \* an object built from the bytes of another type
          Dead      \* the code of a variant that is not alive

ASSUME VariantAssumption == /\ {Void, Mixed, Dead} \cap Type = {}
                            /\ Void # Mixed /\ Void # Dead

VARIABLES code,     \* current_stored_value_type_code_
          stored,   \* memory_: the type of the object in it
          outcome   \* what the last call did

variantVars == <<code, stored, outcome>>

VariantInit == /\ code = [v \in Variants |-> Dead]
               /\ stored = [v \in Variants |-> Void]
               /\ outcome = "returns"

AliveVariants == {v \in Variants : code[v] # Dead}

\* variant_helper::destroy() for an object of another type or for none.
DestroysWrongly(v) == code[v] # Void /\ stored[v] # code[v]

Sets(v, c, object, how) ==
  /\ code' = [code EXCEPT ![v] = c]
  /\ stored' = [stored EXCEPT ![v] = object]
  /\ outcome' = how

\* The old object is destroyed; what becomes of the new one is in Then.
Destroying(v, Then) ==
  IF DestroysWrongly(v) THEN Sets(v, code[v], stored[v], "undefined") ELSE Then

\* Mutation: the code is written before the object is built.
EmplacedEarly(v, type) ==
  \/ Sets(v, type, type, "returns")
  \/ Sets(v, type, Void, "throws")

\* The code is written when the object is built; when that throws, it stays.
Emplaced(v, type) ==
  \/ Sets(v, type, type, "returns")
  \/ Sets(v, code[v], Void, "throws")
-----------------------------------------------------------------------------
VariantConstruct(v) ==
  v \notin AliveVariants /\ Sets(v, Void, Void, "returns")
VariantConstructFromValue(v, type) ==
  v \notin AliveVariants /\ Sets(v, type, type, "returns")

\* The code a copy or a move is looked up under: an own code, void at first.
LookedUp(v, from) == IF v \in AliveVariants THEN code[v] ELSE Void

\* The object that is built from the memory of another variant.
Built(type, memory) == IF memory = type THEN type ELSE Mixed

\* The copy and the move constructor.
ConstructFrom(v, from) ==
  /\ v \notin AliveVariants
  /\ LET type == LookedUp(v, from)
     IN  IF type = Void THEN Sets(v, Dead, Void, "throws")
         ELSE Sets(v, code[from], Built(type, stored[from]), "returns")

VariantCopyAssign(v, from) ==
  /\ v # from
  /\ LET type == LookedUp(v, from)
     IN  IF type = Void
         THEN Destroying(v, Sets(v, code[v], Void, "throws"))
         ELSE Destroying(v,
                \/ Sets(v, code[from], Built(type, stored[from]), "returns")
                \/ Sets(v, code[v], Void, "throws"))

\* The move assignment is noexcept: an exception ends the program.  A variant
\* moved to itself is read after its object was destroyed.
VariantMoveAssign(v, from) ==
  LET type == LookedUp(v, from)
      memory == IF v = from THEN Void ELSE stored[from]
  IN  Destroying(v,
        \/ type # Void /\ Sets(v, code[from], Built(type, memory), "returns")
        \/ Sets(v, code[v], Void, "terminates"))

\* The assignment of a value, noexcept, too.
ValueAssign(v, type) ==
  Destroying(v, \/ Sets(v, type, type, "returns")
                \/ Sets(v, code[v], Void, "terminates"))

VariantEmplace(v, type) == Destroying(v, Emplaced(v, type))

VariantDestroy(v) == Destroying(v, Sets(v, Dead, Void, "returns"))

\* as<T>(), and the conversion to T.
As(v, type) ==
  /\ outcome' = IF type # code[v] THEN "bad_cast"
                ELSE IF stored[v] = type THEN "returns" ELSE "undefined"
  /\ UNCHANGED <<code, stored>>

VariantNext ==
  /\ outcome \notin {"undefined", "terminates"}
  /\ \/ \E v \in Variants, type \in Type :
          VariantConstruct(v) \/ VariantConstructFromValue(v, type)
     \/ \E v \in Variants, from \in AliveVariants : ConstructFrom(v, from)
     \/ \E v, from \in AliveVariants :
          VariantCopyAssign(v, from) \/ VariantMoveAssign(v, from)
     \/ \E v \in AliveVariants, type \in Type :
          ValueAssign(v, type) \/ VariantEmplace(v, type) \/ As(v, type)
     \/ \E v \in AliveVariants : VariantDestroy(v)
-----------------------------------------------------------------------------
TellsTheType(v) == code[v] \in Type => stored[v] = code[v]

\* What as() and the destructor take for granted, that the code names the
\* object in the memory, is lost only by an assignment between variants of two
\* types (138, 147) or from one that has lost it, a move of a variant to itself
\* (146), or an object that throws when it is built over the old one (138, 157,
\* 167).
MixedUp(v) ==
  TellsTheType(v) /\ ~ TellsTheType(v)' =>
    \/ /\ code'[v] = code[v] /\ stored'[v] = Void
       /\ outcome' \in {"throws", "terminates"}
    \/ \E from \in AliveVariants :
         /\ v = from \/ code[from] # code[v] \/ ~ TellsTheType(from)
         /\ VariantCopyAssign(v, from) \/ VariantMoveAssign(v, from)

\* An empty variant gets an object only from a value: no variant is ever built
\* from another one, and none is assigned to an empty one (113, 121, 138, 147).
GivenAValue(v) ==
  code[v] \in {Void, Dead} /\ code'[v] \in Type =>
    \E type \in Type :
      \/ VariantConstructFromValue(v, type) \/ ValueAssign(v, type)
      \/ VariantEmplace(v, type)

\* The two ways in which the code of a variant is wrong about its object: lost
\* in the cases above, and never found by a copy (113).
TellsTheTypeUntilMixed ==
  [][\A v \in Variants : MixedUp(v) /\ GivenAValue(v)]_variantVars
=============================================================================
