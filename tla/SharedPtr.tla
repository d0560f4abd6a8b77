------------------------------ MODULE SharedPtr ------------------------------
(***************************************************************************)
(* shared_ptr.h: shared_ptr, the owners of objects and their counts.  An   *)
(* object may have a shared_ptr as a member, as a node of a list does, so  *)
(* that freeing one object releases the next.                              *)
(*                                                                         *)
(* A holder is a shared_ptr: a variable of the program, or the member of   *)
(* an object, named by the object.  The state is a record s: which holders *)
(* live, their ptr_ and refCount_, the counts, and whether something was   *)
(* freed twice or used after it was freed.  A count is named by the object *)
(* it was allocated for; Second is the count of an object that is taken by *)
(* a second owner who does not know of the first, after which holders are  *)
(* only destroyed.                                                         *)
(***************************************************************************)
EXTENDS Integers, FiniteSets

CONSTANTS Root,     \* the variables
          Obj,      \* bound: the objects that may be allocated
          Second,   \* the second count of one object
          Nullptr

\* A program has finitely many of them, all of which differ.
ASSUME OwnerAssumption ==
  /\ IsFiniteSet(Root) /\ IsFiniteSet(Obj)
  /\ Root \cap Obj = {} /\ Second \notin Obj
  /\ Nullptr \notin Root \cup Obj \cup {Second}

VARIABLES own,      \* the record s
          adopted   \* history: a pointer was taken that was owned already

Owner == Root \cup Obj
Counter == Obj \cup {Second}

Unset == [h \in Owner |-> Nullptr]
OwnInit == /\ own = [alive |-> {}, ptr |-> Unset, ref |-> Unset,
                     count |-> [c \in Counter |-> 0], broken |-> FALSE]
           /\ adopted = FALSE

\* The holders the program can name: its variables and, through them, members;
\* those in every set that has the variables and what its elements point to.
Named(s) ==
  {h \in Owner :
     \A S \in SUBSET Owner :
       /\ Root \cap s.alive \subseteq S
       /\ \A k \in S : s.ptr[k] # Nullptr => s.ptr[k] \in S
       => h \in S}
-----------------------------------------------------------------------------
Invalidated(s, h) == [s EXCEPT !.ptr[h] = Nullptr, !.ref[h] = Nullptr]

\* Mutation: the object is freed when one owner is left.
LastOwnerOfTwo(s, h) == s.count[s.ref[h]] <= 2

\* The count, before it is decremented, that frees the object.
LastOwner(s, h) == s.count[s.ref[h]] = 1

\* releaseCurrent() for one holder: what it leaves, and the object it frees,
\* whose member is released in its turn.  A member that is not alive is the one
\* of an object that was freed, and goes with it.
ReleasedOne(s, h) ==
  LET o == s.ptr[h]
      c == s.ref[h]
      less == [s EXCEPT !.count[c] = @ - 1]
      without == [s EXCEPT !.alive = @ \ {o}, !.count[c] = 0]
      Leaves(t) == [state |-> t, freed |-> Nullptr]
  IN  IF c = Nullptr THEN Leaves(s)
      ELSE IF s.count[c] = 0 \/ s.broken THEN Leaves([s EXCEPT !.broken = TRUE])
      ELSE IF ~ LastOwner(s, h)
        THEN Leaves(IF h \in s.alive THEN less ELSE Invalidated(less, h))
      ELSE IF o \notin s.alive THEN Leaves([s EXCEPT !.broken = TRUE])
      ELSE [state |-> Invalidated(without, h), freed |-> o]

\* releaseCurrent() with all that follows: what n releases leave; as many
\* objects are freed as there are at most.
Releases(s, h) ==
  LET after[n \in 0..(Cardinality(Obj) + 1)] ==
        IF n = 0 THEN [state |-> s, freed |-> h]
        ELSE IF after[n - 1].freed = Nullptr THEN after[n - 1]
        ELSE ReleasedOne(after[n - 1].state, after[n - 1].freed)
  IN  after

\* A member that is released invalidates itself in the end, when it may be gone
\* with its object.
Released(s, h) ==
  LET last == Releases(s, h)[Cardinality(Obj) + 1].state
  IN  IF h \in s.alive \ last.alive THEN [last EXCEPT !.broken = TRUE] ELSE last

\* takeOwnerShip(): a count of 1, kept beside the object.
Taken(s, h, o) ==
  IF o = Nullptr THEN Invalidated(s, h)
  ELSE LET c == IF s.count[o] = 0 THEN o ELSE Second
       IN  [s EXCEPT !.ptr[h] = o, !.ref[h] = c, !.count[c] = 1]

\* shareOwnership(), which counts the new owner or not; what it shares may be
\* gone by then.
Shared(s, h, from, more) ==
  IF from \notin s.alive THEN [s EXCEPT !.broken = TRUE]
  ELSE IF s.ref[from] = Nullptr THEN Invalidated(s, h)
  ELSE [s EXCEPT !.ptr[h] = s.ptr[from], !.ref[h] = s.ref[from],
                 !.count[s.ref[from]] = @ + more]

Assigned(s, h, from) ==
  IF h = from THEN s ELSE Shared(Released(s, h), h, from, 1)

\* Mutation: what was moved from is not invalidated.
MoveAssignedKept(s, h, from) == Shared(Released(s, h), h, from, 0)

\* The assignment from an rvalue, which is invalidated then.
MoveAssigned(s, h, from) ==
  Invalidated(Shared(Released(s, h), h, from, 0), from)

Born(s, h) == Invalidated([s EXCEPT !.alive = @ \cup {h}], h)
-----------------------------------------------------------------------------
\* An object is allocated with an empty member and given to a holder.
Fresh(s, o) == o \notin s.alive /\ \A h \in Owner : s.ptr[h] # o
New(s, o) == IF o = Nullptr \/ o \in s.alive THEN s ELSE Born(s, o)

\* The pointers a program has: a new one, none, or one that is owned already.
Pointer ==
  {Nullptr} \cup (Obj \cap Named(own)) \cup
  (IF \E o \in Obj : Fresh(own, o)
   THEN {CHOOSE o \in Obj : Fresh(own, o)} ELSE {})
Adopts(o) == adopted' = (adopted \/ o \in own.alive)

OwnerConstruct(h, o) ==
  /\ h \in Root \ own.alive
  /\ own' = Taken(New(Born(own, h), o), h, o)
  /\ Adopts(o)

OwnerConstructFrom(h, from, isMove) ==
  /\ h \in Root \ own.alive
  /\ own' = IF isMove
            THEN Invalidated(Shared(Born(own, h), h, from, 0), from)
            ELSE Shared(Born(own, h), h, from, 1)
  /\ UNCHANGED adopted

OwnerAssign(h, from) == own' = Assigned(own, h, from) /\ UNCHANGED adopted
OwnerMoveAssign(h, from) ==
  own' = MoveAssigned(own, h, from) /\ UNCHANGED adopted

\* reset(): the old object is released first, whatever the new pointer is.
OwnerReset(h, o) ==
  /\ own' = Taken(Released(New(own, o), h), h, o)
  /\ Adopts(o)

OwnerDestroy(h) ==
  /\ h \in Root
  /\ LET s == Released(own, h)
     IN  own' = Invalidated([s EXCEPT !.alive = @ \ {h}], h)
  /\ UNCHANGED adopted

OwnNext ==
  /\ ~ own.broken
  /\ \/ /\ ~ adopted
        /\ \E h \in Named(own) \cup Root :
             \/ \E o \in Pointer : OwnerConstruct(h, o)
             \/ \E k \in Named(own), m \in BOOLEAN : OwnerConstructFrom(h, k, m)
             \/ \E k \in Named(own) :
                  /\ h \in Named(own)
                  /\ OwnerAssign(h, k) \/ OwnerMoveAssign(h, k)
             \/ h \in Named(own) /\ \E o \in Pointer : OwnerReset(h, o)
     \/ \E h \in Named(own) : OwnerDestroy(h)
-----------------------------------------------------------------------------
\* While no pointer was taken twice, an object lives exactly as long as it has
\* an owner, and its count says how many there are, members of objects that
\* nobody can reach any more included.
CountIsOwners ==
  ~ adopted /\ ~ own.broken =>
    /\ \A h \in own.alive :
         /\ own.ptr[h] = Nullptr <=> own.ref[h] = Nullptr
         /\ own.ptr[h] # Nullptr => own.ptr[h] \in own.alive
         /\ own.ref[h] # Nullptr =>
              own.count[own.ref[h]] =
                Cardinality({k \in own.alive : own.ptr[k] = own.ptr[h]})
    /\ \A o \in Obj \cap own.alive : \E h \in own.alive : own.ptr[h] = o

\* An assignment from a member of the object that it frees reads the member
\* after it is gone (72, 85), as in p = p->next.
FromInside(h, from) ==
  own.ptr[h] # Nullptr /\ from \notin Released(own, h).alive

\* Nothing is freed twice and nothing is read after it was freed, unless a
\* pointer was taken that had an owner (128), or an assignment is from inside
\* the object it frees.  An assignment to itself is safe, of both kinds.
FreedOnlyOnce ==
  [][own'.broken => \/ adopted'
                    \/ \E h, k \in Named(own) :
                         /\ FromInside(h, k)
                         /\ OwnerAssign(h, k) \/ OwnerMoveAssign(h, k)
    ]_<<own, adopted>>
=============================================================================
