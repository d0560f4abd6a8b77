--------------------------------- MODULE Any ---------------------------------
(***************************************************************************)
(* any.h: any<SIZE>, which keeps a value of any type in itself, and any<0>,*)
(* which keeps it through a std::shared_ptr; the variables of one thread.  *)
(*                                                                         *)
(* A value is named by the memory it owns, since the bytes of an object    *)
(* may be copied, and then two objects own what was allocated once; a      *)
(* value of a trivial type owns none and is Plain.  destroy_ is set, and   *)
(* the type code is not void, exactly when there is such a value.  The     *)
(* std::shared_ptr is external: it frees what no any<0> reaches.           *)
(***************************************************************************)
CONSTANTS Small,    \* the variables of a type any<SIZE>, SIZE > 0
          Large,    \* the variables of the type any<0>
          SmallId,  \* bound: the values that small ones may own
          LargeId,  \* bound: the objects that large ones may own
          Plain,
          Null,     \* no value
          Gone      \* a variable that is not alive

\* The variables, the values and the marks are different things.
Distinct ==
  /\ Small \cap Large = {} /\ SmallId \cap LargeId = {}
  /\ {Plain, Null, Gone} \cap (SmallId \cup LargeId) = {}
  /\ Plain # Null /\ Plain # Gone /\ Null # Gone

ASSUME AnyAssumption == Distinct

VARIABLES kept,     \* the value of each variable
          inner,    \* the value of an object that is itself an any<0>
          live,     \* the values in SmallId whose memory is allocated
          harmed,   \* a value was destroyed twice, or read when it was gone
          misused   \* history: a value was copied as bytes, or assigned from
                    \* the variable's own value

anyVars == <<kept, inner, live, harmed, misused>>

Holder == Small \cup Large
Alive == {h \in Holder : kept[h] # Gone}

AnyInit == /\ kept = [h \in Holder |-> Gone]
           /\ inner = [i \in LargeId |-> Null]
           /\ live = {}
           /\ harmed = FALSE
           /\ misused = FALSE

\* The objects that some large variable owns, or an object they own: those in
\* every set that has what the variables own and what its members own.
Reached(k) ==
  {i \in LargeId :
     \A S \in SUBSET LargeId :
       /\ {k[h] : h \in Large} \cap LargeId \subseteq S
       /\ {inner[j] : j \in S} \cap LargeId \subseteq S
       => i \in S}

NewValues(h) == IF h \in Small THEN (SmallId \ live) \cup {Plain}
                ELSE LargeId \ Reached(kept)
-----------------------------------------------------------------------------
\* The values whose destructor reset() calls in place.
Destroyed(h) == {kept[h]} \cap SmallId

\* The variables become k; the values in made are built and those in gone are
\* destroyed, before that.
Become(k, made, gone) ==
  /\ kept' = k
  /\ live' = (live \ gone) \cup (made \cap SmallId)
  /\ harmed' = (harmed \/ ~ gone \subseteq live)
  /\ inner' = [i \in LargeId |-> IF i \in Reached(k) THEN inner[i] ELSE Null]

Keeps(h, value) == [kept EXCEPT ![h] = value]

\* store() and emplace() in a variable that is empty by then; the value may
\* throw when it is built, and what the variable has is left then.
Store(h, left, gone) ==
  /\ \/ \E value \in NewValues(h) : Become(Keeps(h, value), {value}, gone)
     \/ Become(Keeps(h, left), {}, gone)
  /\ UNCHANGED misused

\* Mutation: what is copied is moved from.
CopiedByMoving(h, from) == [kept EXCEPT ![h] = kept[from], ![from] = Null]

\* any_impl::copy() in a variable that is empty by then: the bytes, or a share.
Copied(h, from) == Keeps(h, kept[from])

\* Mutation: a move leaves its source as it is.
MovedAsCopy(h, from) == Keeps(h, kept[from])

\* any_impl::move() after a reset(): a variable moved to itself is empty.
Moved(h, from) == IF h = from THEN Keeps(h, Null)
                  ELSE [kept EXCEPT ![h] = kept[from], ![from] = Null]

Alike(h, from) == h \in Small <=> from \in Small
Copies(value) == misused' = (misused \/ value \in SmallId)
-----------------------------------------------------------------------------
Construct(h) == Become(Keeps(h, Null), {}, {}) /\ UNCHANGED misused

ConstructFromValue(h) == Store(h, Gone, {})

CopyConstruct(h, from) ==
  Become(Copied(h, from), {}, {}) /\ Copies(kept[from])

MoveConstruct(h, from) == Become(Moved(h, from), {}, {}) /\ UNCHANGED misused

\* any<0> b(a) with an a that is not const: the constructor from any value (223)
\* is chosen, and b gets an any<0> that was moved from a.
Steal(h, from) ==
  /\ h \in Large
  /\ \E i \in LargeId \ Reached(kept) :
       /\ kept' = [kept EXCEPT ![h] = i, ![from] = Null]
       /\ inner' = [inner EXCEPT ![i] = kept[from]]
  /\ UNCHANGED <<live, harmed, misused>>

AssignValue(h) == Store(h, Null, Destroyed(h))

\* An assignment from the value in h itself, a.get<T>(), which reset() has
\* destroyed: the bytes of a plain one are still there, and an object is if
\* another variable has it.  An any<0> is copied, so that its value is shared.
OwnValues(h) ==
  IF kept[h] \notin LargeId THEN {kept[h]}
  ELSE IF inner[kept[h]] # Null THEN {inner[kept[h]]} ELSE NewValues(h)

AssignOwnValue(h) ==
  /\ kept[h] # Null
  /\ \E value \in OwnValues(h) :
       /\ kept' = Keeps(h, value)
       /\ inner' = [i \in LargeId |->
                      IF i \in Reached(kept') THEN inner[i] ELSE Null]
  /\ harmed' = (\/ kept[h] \in SmallId
                \/ kept[h] \in LargeId \ Reached(Keeps(h, Null)))
  /\ misused' = (misused \/ kept[h] # Plain)
  /\ UNCHANGED live

CopyAssign(h, from) ==
  /\ h # from
  /\ Become(Copied(h, from), {}, Destroyed(h))
  /\ Copies(kept[from])

MoveAssign(h, from) ==
  Become(Moved(h, from), {}, Destroyed(h)) /\ UNCHANGED misused

Emplace(h) == Store(h, Null, Destroyed(h))
Reset(h) == Become(Keeps(h, Null), {}, Destroyed(h)) /\ UNCHANGED misused
Destroy(h) == Become(Keeps(h, Gone), {}, Destroyed(h)) /\ UNCHANGED misused

Swap(h, k) ==
  /\ Become([kept EXCEPT ![h] = kept[k], ![k] = kept[h]], {}, {})
  /\ UNCHANGED misused

AnyNext ==
  /\ ~ harmed
  /\ \/ \E h \in Holder \ Alive :
          \/ Construct(h) \/ ConstructFromValue(h)
          \/ \E from \in Alive :
               /\ Alike(h, from)
               /\ \/ CopyConstruct(h, from) \/ MoveConstruct(h, from)
                  \/ Steal(h, from)
     \/ \E h \in Alive :
          \/ AssignValue(h) \/ AssignOwnValue(h) \/ Emplace(h)
          \/ Reset(h) \/ Destroy(h)
          \/ \E from \in Alive :
               /\ Alike(h, from)
               /\ CopyAssign(h, from) \/ MoveAssign(h, from) \/ Swap(h, from)
-----------------------------------------------------------------------------
\* Until the bytes of a value are copied from one small any to another (98), or
\* a variable is assigned its own value (241), every value is owned by one
\* variable, is destroyed when that gives it up, and is destroyed once.
OwnedByOne ==
  ~ misused =>
    /\ ~ harmed
    /\ live = {kept[h] : h \in Small} \cap SmallId
    /\ \A h, k \in Small : kept[h] = kept[k] /\ kept[h] \in SmallId => h = k

\* A variable keeps its value while others are built and assigned, unless the
\* value is moved away: by a move, or by the construction of an any<0> from a
\* variable that is not const (223), which reads like a copy.
KeptUntilMoved ==
  [][\A h \in Holder :
       kept[h] \notin {Null, Gone} /\ kept'[h] # kept[h] =>
         \/ AssignValue(h) \/ AssignOwnValue(h) \/ Emplace(h)
         \/ Reset(h) \/ Destroy(h)
         \/ \E k \in Holder :
              \/ CopyAssign(h, k) \/ MoveAssign(h, k) \/ Swap(h, k)
              \/ /\ kept'[h] = Null
                 /\ \/ MoveConstruct(k, h) \/ MoveAssign(k, h)
                    \/ Steal(k, h) /\ kept'[k] # kept[h]
    ]_anyVars

=============================================================================
