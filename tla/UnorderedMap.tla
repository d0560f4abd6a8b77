---------------------------- MODULE UnorderedMap ----------------------------
(***************************************************************************)
(* unordered_map.cpp: UnorderedMap, an array of buckets that grows as the  *)
(* map fills, and its iterators.                                           *)
(*                                                                         *)
(* A bucket is the sequence of its elements; LinkedList shows that the     *)
(* nodes are such a sequence.  Keys are numbers, their own hash, as in     *)
(* main().  An iterator is a bucket's index and the position in the        *)
(* bucket, 0 for the end.                                                  *)
(***************************************************************************)
EXTENDS Integers, SequencesExt

CONSTANTS Key,         \* numbers
          Value,
          Default,     \* MappedType{}
          FirstSize,   \* the number of buckets at first
          MaxSize,     \* bound: buckets
          MaxCount     \* bound: _count

\* A map without a bucket divides by 0.
ASSUME MapAssumption == /\ Key \subseteq Nat
                        /\ FirstSize \in Nat \ {0} /\ MaxSize \in Nat \ {0}

VARIABLES bucket,     \* _bucket: index, from 0 on, to its elements
          count,      \* _count
          maxLoad,    \* _maxLoadFactor
          erased,     \* history: how many elements were erased
          asked,      \* history: the value each key was last given
          spoiled,    \* history: operator[] (559) or reserve() has lost values
          misread     \* erase(key) has read through an uninitialised pointer

mapVars == <<bucket, count, maxLoad, erased, asked, spoiled, misread>>

Buckets(size) == [i \in 0..(size - 1) |-> <<>>]
SizeOf(b) == Cardinality(DOMAIN b)
Size == SizeOf(bucket)

MapInit == /\ bucket = Buckets(FirstSize)
           /\ count = 0
           /\ maxLoad = 1
           /\ erased = 0
           /\ asked = <<>>
           /\ spoiled = FALSE
           /\ misread = FALSE

\* The iterators of the elements, and the elements.
Places(b) == UNION {{[index |-> i, pos |-> n] : n \in DOMAIN b[i]} :
                      i \in DOMAIN b}
Elements(b) == {b[it.index][it.pos] : it \in Places(b)}
-----------------------------------------------------------------------------
Index(key, size) == key % size

\* find() in a bucket: the first element of the key, or 0.
At(b, key) ==
  IF \E n \in DOMAIN b : b[n].key = key
  THEN CHOOSE n \in DOMAIN b :
         b[n].key = key /\ \A m \in 1..(n - 1) : b[m].key # key
  ELSE 0

\* The key's element is given the value, or one is put behind the others.
InsertOrUpdate(b, e) ==
  LET i == Index(e.key, SizeOf(b))
      at == At(b[i], e.key)
  IN  IF at = 0 THEN [b EXCEPT ![i] = Append(@, e)]
                ELSE [b EXCEPT ![i][at] = e]

\* Mutation: the buckets are copied as they are, not by their new index.
RehashedInPlace(factor) ==
  IF count \div Size < maxLoad THEN bucket
  ELSE [i \in 0..(Size * factor - 1) |-> IF i < Size THEN bucket[i] ELSE <<>>]

\* The inner loop of rehash(): the elements of one bucket are inserted anew.
Poured(b, elements) ==
  LET poured[n \in 0..Len(elements)] ==
        IF n = 0 THEN b ELSE InsertOrUpdate(poured[n - 1], elements[n])
  IN  poured[Len(elements)]

\* The outer loop: one bucket after the other.
Rebuilt(b, size) ==
  LET rebuilt[i \in 0..SizeOf(b)] ==
        IF i = 0 THEN Buckets(size) ELSE Poured(rebuilt[i - 1], b[i - 1])
  IN  rebuilt[SizeOf(b)]

Rehashed(factor) ==
  IF count \div Size < maxLoad THEN bucket ELSE Rebuilt(bucket, Size * factor)

\* The caller's bookkeeping: what the key should be mapped to now.
Asks(keys, e, bad) ==
  /\ spoiled' = (spoiled \/ bad)
  /\ asked' = IF spoiled' THEN <<>>
              ELSE [k \in keys |-> IF k = e.key THEN e.value ELSE asked[k]]

Counted(b, e) ==
  IF At(b[Index(e.key, SizeOf(b))], e.key) = 0 THEN count + 1 ELSE count

\* insert(), with the iterators to what was there given up.
Insert(e, factor) ==
  LET b == Rehashed(factor)
  IN  /\ SizeOf(b) <= MaxSize
      /\ count' = Counted(b, e)
      /\ bucket' = InsertOrUpdate(b, e)
      /\ Asks(DOMAIN asked \cup {e.key}, e, FALSE)
      /\ UNCHANGED <<maxLoad, erased>>

\* map[key] = value: the element gets the default value, and a reference to an
\* element is returned: a new element is looked for at the bucket's begin.
Subscript(e, factor) ==
  LET b == Rehashed(factor)
      i == Index(e.key, SizeOf(b))
      new == InsertOrUpdate(b, [e EXCEPT !.value = Default])
      at == IF At(b[i], e.key) = 0 THEN 1 ELSE At(b[i], e.key)
  IN  /\ SizeOf(b) <= MaxSize
      /\ count' = Counted(b, e)
      /\ bucket' = [new EXCEPT ![i][at].value = e.value]
      /\ Asks(DOMAIN asked \cup {e.key}, e, new[i][at].key # e.key)
      /\ UNCHANGED <<maxLoad, erased>>

\* map[key] that is only read: the value of an old element is gone.
SubscriptRead(key, factor) ==
  LET b == Rehashed(factor)
      old == b[Index(key, SizeOf(b))]
      e == [key |-> key, value |-> Default]
  IN  /\ SizeOf(b) <= MaxSize
      /\ count' = Counted(b, e)
      /\ bucket' = InsertOrUpdate(b, e)
      /\ Asks(DOMAIN asked \cup {key}, e,
              \E n \in DOMAIN old : old[n].key = key /\ old[n] # e)
      /\ UNCHANGED <<maxLoad, erased>>

\* erase(key); _count stays.  The list's remove() has no parent for the first
\* element and, when the element is gone, reads through a pointer that was never
\* set, unless that happens to be null or a node (LinkedList!RemoveFirstOf).
EraseKey(key) ==
  LET i == Index(key, Size)
      at == At(bucket[i], key)
  IN  /\ bucket' = [bucket EXCEPT ![i] = IF at = 0 THEN @ ELSE RemoveAt(@, at)]
      /\ erased' = IF at = 0 THEN erased ELSE erased + 1
      /\ Asks(DOMAIN asked \ {key}, [key |-> key], FALSE)
      /\ misread' \in IF at = 1 THEN BOOLEAN ELSE {FALSE}
      /\ UNCHANGED <<count, maxLoad>>

\* erase(iterator) of an element.
EraseAt(it) ==
  /\ bucket' = [bucket EXCEPT ![it.index] = RemoveAt(@, it.pos)]
  /\ erased' = erased + 1
  /\ LET key == bucket[it.index][it.pos].key
     IN  Asks(DOMAIN asked \ {key}, [key |-> key], FALSE)
  /\ UNCHANGED <<count, maxLoad>>

\* reserve(): the buckets are replaced by empty ones, the old ones leak.
Reserve(size) ==
  /\ bucket' = Buckets(size)
  /\ Asks({}, [key |-> 0], Places(bucket) # {})
  /\ UNCHANGED <<count, maxLoad, erased>>

SetLoadFactor(factor) ==
  /\ factor > 1
  /\ maxLoad' = factor
  /\ UNCHANGED <<bucket, count, erased, asked, spoiled>>

\* The factor of the bucket sizes may be set before any call.  Nothing is known
\* of a program that has read through the pointer.
MapNext ==
  /\ ~ misread
  /\ \/ \E key \in Key : EraseKey(key)
     \/ /\ UNCHANGED misread
        /\ \/ /\ count < MaxCount
              /\ \E key \in Key, value \in Value, factor \in 2..3 :
                   \/ Insert([key |-> key, value |-> value], factor)
                   \/ Subscript([key |-> key, value |-> value], factor)
                   \/ SubscriptRead(key, factor)
           \/ \E it \in Places(bucket) : EraseAt(it)
           \/ Reserve(MaxSize)
           \/ SetLoadFactor(2)
-----------------------------------------------------------------------------
(* The iterators *)

NonEmpty == {i \in DOMAIN bucket : bucket[i] # <<>>}

Begin == LET i == IF NonEmpty = {} THEN 0 ELSE Min(NonEmpty)
         IN  [index |-> i, pos |-> IF bucket[i] = <<>> THEN 0 ELSE 1]

End == [index |-> IF NonEmpty = {} THEN Size - 1 ELSE Max(NonEmpty), pos |-> 0]

Later(i) == {j \in NonEmpty : i < j}

\* increment(): past the end of its bucket an iterator moves on, if it can.
Incremented(it) ==
  LET more == it.pos # 0 /\ it.pos < Len(bucket[it.index])
  IN  IF more THEN [it EXCEPT !.pos = @ + 1]
      ELSE IF Later(it.index) = {} THEN [it EXCEPT !.pos = 0]
      ELSE [index |-> Min(Later(it.index)), pos |-> 1]

\* The iterator of a loop from begin(), incremented as often as there are
\* elements.
Loop ==
  LET at[n \in 0..Cardinality(Places(bucket))] ==
        IF n = 0 THEN Begin ELSE Incremented(at[n - 1])
  IN  at

\* erase(iterator): the list answers with no successor for a bucket's first
\* element (LinkedList!RemoveAnswersNext), and the iterator then moves on.
AfterErase(it) ==
  IF it.pos > 1 /\ it.pos < Len(bucket[it.index]) THEN it
  ELSE Incremented([it EXCEPT !.pos = 0])
-----------------------------------------------------------------------------
\* Every key is at most once in the map, in the bucket of its hash, through
\* every rehash: find() looks for it nowhere else.
KeysInPlace ==
  \A i \in DOMAIN bucket : \A m, n \in DOMAIN bucket[i] :
    /\ Index(bucket[i][n].key, Size) = i
    /\ bucket[i][m].key = bucket[i][n].key => m = n

\* Until operator[] has given the value of a new key to another key of its
\* bucket (647, 559) or overwritten a value that was only read (554), or
\* reserve() has dropped the elements, the map holds what it was asked to hold.
HoldsWhatWasAsked ==
  ~ spoiled =>
    Elements(bucket) = {[key |-> k, value |-> asked[k]] : k \in DOMAIN asked}

\* size() is too large by the elements that were erased (579, 593), and by no
\* other: an update is not counted and a rehash changes nothing.
SizeCountsErased ==
  ~ spoiled => count = Cardinality(Places(bucket)) + erased

\* A loop over the map meets every element once and then ends, in a map that is
\* not empty; in an empty one with several buckets it does not end (462, 472).
LoopMeetsEveryElement ==
  LET total == Cardinality(Places(bucket))
  IN  IF total = 0 THEN Size > 1 => Begin # End
      ELSE /\ {Loop[n] : n \in 0..(total - 1)} = Places(bucket)
           /\ Loop[total] = End

\* erase(iterator) answers with the element after the erased one, unless that
\* was the first of several in its bucket, whose others are skipped.  After the
\* last element of all the answer is the end of that bucket, which is end() for
\* as long as the bucket holds another element.
EraseAnswersNext ==
  \A n \in 0..(Cardinality(Places(bucket)) - 1) :
    LET it == Loop[n]
        following == Loop[n + 1]
        next == IF following \in Places(bucket) /\ following.index = it.index
                THEN it ELSE following
    IN  AfterErase(it) = next \/ (it.pos = 1 /\ Len(bucket[it.index]) > 1)

\* What an UnorderedMap holds and says of itself, and where its iterators go,
\* with the exceptions named above, as long as erase(key) has not read through
\* its uninitialised pointer (misread): nothing is said of what comes after.
MapInv == /\ KeysInPlace
          /\ HoldsWhatWasAsked
          /\ SizeCountsErased
          /\ LoopMeetsEveryElement
          /\ EraseAnswersNext
=============================================================================
