----------------------------- MODULE SPSCDriver -----------------------------
(***************************************************************************)
(* The program of lock_free_circular_queue.cpp: the thread functions       *)
(* push() and pop() on one CircularQueue, and main() that joins both.      *)
(* push() ignores what queue.push() returns; pop() asks is_empty() and     *)
(* repeats the round while it is, then pops and ignores the result.        *)
(***************************************************************************)
EXTENDS SPSCQueue

CONSTANT Items   \* the rounds of both loops

ASSUME ItemsAssumption == Items \in Nat /\ 1..Items \subseteq Value

VARIABLES pushing,   \* i of push()
          popping,   \* i of pop()
          shown,     \* what pop() has displayed
          failed     \* history: how many pushes returned false

driverVars == <<vars, pushing, popping, shown, failed>>

DriverInit == /\ Init
              /\ pushing = 1
              /\ popping = 1
              /\ shown = <<>>
              /\ failed = 0

\* Mutation: the loop ends at the first push that fails.
PushRoundStops ==
  /\ pushing <= Items
  /\ \/ PushCall(pushing) /\ UNCHANGED <<pushing, failed>>
     \/ (PushHasRoom \/ PushWrite) /\ UNCHANGED <<pushing, failed>>
     \/ PushFull /\ pushing' = Items + 1 /\ failed' = failed + 1
     \/ PushStore /\ pushing' = pushing + 1 /\ UNCHANGED failed
  /\ UNCHANGED <<popping, shown>>

PushRound ==
  /\ pushing <= Items
  /\ \/ PushCall(pushing) /\ UNCHANGED <<pushing, failed>>
     \/ (PushHasRoom \/ PushWrite) /\ UNCHANGED <<pushing, failed>>
     \/ PushFull /\ pushing' = pushing + 1 /\ failed' = failed + 1
     \/ PushStore /\ pushing' = pushing + 1 /\ UNCHANGED failed
  /\ UNCHANGED <<popping, shown>>

\* Until it is told otherwise the loop asks is_empty(): --i undoes ++i.
TestEmpty ==
  /\ told[Consumer] # "not_empty"
  /\ IsEmptyCall(Consumer) \/ IsEmptyAnswer(Consumer)
  /\ UNCHANGED <<popping, shown>>

\* The pop returns, and an int that was 0 before it is displayed.
Display ==
  /\ PopEmpty \/ PopStore
  /\ shown' = Append(shown, IF pc[Consumer] = "pop_store" THEN out ELSE 0)
  /\ popping' = popping + 1

\* Mutation: the answer is not waited for.
PopOneBlindly ==
  \/ PopCall /\ UNCHANGED <<popping, shown>>
  \/ (PopHasItem \/ PopRead) /\ UNCHANGED <<popping, shown>>
  \/ Display

PopOne ==
  \/ told[Consumer] = "not_empty" /\ PopCall /\ UNCHANGED <<popping, shown>>
  \/ (PopHasItem \/ PopRead) /\ UNCHANGED <<popping, shown>>
  \/ Display

PopRound == /\ popping <= Items
            /\ TestEmpty \/ PopOne
            /\ UNCHANGED <<pushing, failed>>

DriverNext == PushRound \/ PopRound

\* The two threads are scheduled: nothing in them blocks.
DriverSpec == /\ DriverInit /\ [][DriverNext]_driverVars
              /\ WF_driverVars(PushRound)
              /\ WF_driverVars(PopRound)
-----------------------------------------------------------------------------
\* The consumer displays pushed numbers only, each once and in the order of the
\* pushes, and never the 0 of a pop that failed, although both loops ignore what
\* push() and pop() return (92, 106).
ShownInOrder == /\ \A i \in DOMAIN shown : shown[i] \in 1..(pushing - 1)
                /\ \A i, j \in DOMAIN shown : i < j => shown[i] < shown[j]

\* main() comes to its joins with every number displayed that was pushed: all
\* of them, and then the program ends, when no push has failed.
EverythingShown == <>[](pushing > Items /\ Len(shown) = Items - failed)
=============================================================================
