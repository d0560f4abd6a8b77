-------------------------------- MODULE List --------------------------------
(***************************************************************************)
(* list.cpp: List, a doubly linked list; two lists that are filled,        *)
(* searched, copied and swapped by one thread.  The nodes are modelled     *)
(* with their links, as the functions that set them leave them.            *)
(*                                                                         *)
(* A list and the nodes of both lists together are a record s with the     *)
(* fields mem, head, tail and length; an operation on a list takes one     *)
(* and returns one.  insert() at end() of a list that is not empty reads   *)
(* through a null pointer (429) and is not called.  pop_back() and         *)
(* pop_front() do not compile; sort() and reverse() have no body.          *)
(***************************************************************************)
EXTENDS Integers, Sequences, FiniteSets

CONSTANTS Node,   \* the nodes that may be allocated
          Nil,
          Item    \* the values in the list

ASSUME NodeAssumption == IsFiniteSet(Node) /\ Nil \notin Node

VARIABLES mem,     \* the allocated nodes: data_, prev_ and next_
          lists    \* head_, tail_ and length_ of each list

listVars == <<mem, lists>>

Which == {"a", "b"}
EmptyList == [head |-> Nil, tail |-> Nil, length |-> 0]

ListInit == mem = <<>> /\ lists = [x \in Which |-> EmptyList]

\* The list of these nodes and fields.
Joined(m, f) ==
  [mem |-> m, head |-> f.head, tail |-> f.tail, length |-> f.length]
ListOf(x) == Joined(mem, lists[x])
Fields(s) == [head |-> s.head, tail |-> s.tail, length |-> s.length]
FreeNodes(m) == Node \ DOMAIN m

\* Where the links lead from the first node: as far as there are nodes.
Walk(first, link) ==
  LET at[i \in 0..Cardinality(Node)] ==
        IF i = 0 THEN first
        ELSE IF at[i - 1] = Nil THEN Nil ELSE link[at[i - 1]]
  IN  at
Met(walk) ==
  [i \in {j \in 1..(Cardinality(Node) + 1) : walk[j - 1] # Nil} |-> walk[i - 1]]

Ahead(s) == Walk(s.head, [n \in DOMAIN s.mem |-> s.mem[n].next])
Behind(s) == Walk(s.tail, [n \in DOMAIN s.mem |-> s.mem[n].prev])

ListNodes(s) == Met(Ahead(s))
Members(s) == {ListNodes(s)[i] : i \in DOMAIN ListNodes(s)}
Items(s) == [i \in DOMAIN ListNodes(s) |-> s.mem[ListNodes(s)[i]].data]
-----------------------------------------------------------------------------
NodeCreated(s, n, d) ==
  [s EXCEPT !.length = s.length + 1,
            !.mem = [m \in DOMAIN s.mem \cup {n} |->
                       IF m = n THEN [data |-> d, prev |-> Nil, next |-> Nil]
                       ELSE s.mem[m]]]

NodeReleased(s, n) ==
  [s EXCEPT !.length = s.length - 1,
            !.mem = [m \in DOMAIN s.mem \ {n} |-> s.mem[m]]]

SetNext(s, n, next) == [s EXCEPT !.mem[n].next = next]
SetPrev(s, n, prev) == [s EXCEPT !.mem[n].prev = prev]
SetEnds(s, head, tail) == [s EXCEPT !.head = head, !.tail = tail]

IsEmpty(s) == s.head = Nil /\ s.tail = Nil

AddAtFront(s, n) ==
  IF IsEmpty(s) THEN SetEnds(s, n, n)
  ELSE SetEnds(SetPrev(SetNext(s, n, s.head), s.head, n), n, s.tail)

AddAtEnd(s, n) ==
  IF IsEmpty(s) THEN SetEnds(s, n, n)
  ELSE SetEnds(SetNext(SetPrev(s, n, s.tail), s.tail, n), s.head, n)

\* Between a node and the one before it.
AddBetween(s, p, n) ==
  LET b == s.mem[p].prev
  IN  SetPrev(SetNext(SetPrev(SetNext(s, b, n), n, b), n, p), p, n)

Placed(s, p, n) ==
  IF p = s.head THEN AddAtFront(s, n)
  ELSE IF p = s.tail THEN AddAtEnd(s, n) ELSE AddBetween(s, p, n)

TakenOut(s, n) ==
  LET p == s.mem[n].prev
      q == s.mem[n].next
  IN  IF n = s.head /\ n = s.tail THEN SetEnds(s, Nil, Nil)
      ELSE IF n = s.head THEN SetPrev(SetEnds(s, q, s.tail), q, Nil)
      ELSE IF n = s.tail THEN SetNext(SetEnds(s, s.head, p), p, Nil)
      ELSE SetPrev(SetNext(s, p, q), q, p)

\* The rounds of __find() that compare something: one walker from each end,
\* until they meet or are neighbours.
Compared(s) ==
  {k \in 0..Cardinality(Node) :
     /\ \A j \in 0..k : Ahead(s)[j] # Behind(s)[j]
     /\ \A j \in 0..(k - 1) : Ahead(s)[j + 1] # Behind(s)[j]}

\* Mutation: only the walker from the head looks.
HitsAhead(s, d) == {k \in Compared(s) : s.mem[Ahead(s)[k]].data = d}

Hits(s, d) == {k \in Compared(s) : \/ s.mem[Ahead(s)[k]].data = d
                                   \/ s.mem[Behind(s)[k]].data = d}

\* __find(): in the first such round, the walker from the head looks first.
Found(s, d) ==
  IF Hits(s, d) = {} THEN Nil
  ELSE LET k == CHOOSE k \in Hits(s, d) : \A j \in Hits(s, d) : k <= j
       IN  IF s.mem[Ahead(s)[k]].data = d THEN Ahead(s)[k] ELSE Behind(s)[k]

RemovedOnce(s, d) ==
  IF Found(s, d) = Nil THEN s
  ELSE NodeReleased(TakenOut(s, Found(s, d)), Found(s, d))

\* remove(): until nothing is found, which is after length_ rounds at most.
Removed(s, d) ==
  LET after[k \in 0..s.length] ==
        IF k = 0 THEN s ELSE RemovedOnce(after[k - 1], d)
  IN  after[s.length]

NewListNode(s) == CHOOSE n \in Node : n \notin DOMAIN s.mem
ListPushedBack(s, d) ==
  AddAtEnd(NodeCreated(s, NewListNode(s), d), NewListNode(s))
ListPushedFront(s, d) ==
  AddAtFront(NodeCreated(s, NewListNode(s), d), NewListNode(s))
Inserted(s, p, d) ==
  Placed(NodeCreated(s, NewListNode(s), d), p, NewListNode(s))

\* push_back() for each of these data.
ListFilled(s, data) ==
  LET pushed[k \in 0..Len(data)] ==
        IF k = 0 THEN s ELSE ListPushedBack(pushed[k - 1], data[k])
  IN  pushed[Len(data)]

\* __removeAll(): the nodes go, and clear() resets the rest.
AllRemoved(s) ==
  Joined([n \in DOMAIN s.mem \ Members(s) |-> s.mem[n]], EmptyList)
-----------------------------------------------------------------------------
ListBecomes(x, s) == mem' = s.mem /\ lists' = [lists EXCEPT ![x] = Fields(s)]

ListPushBack(x, d) ==
  FreeNodes(mem) # {} /\ ListBecomes(x, ListPushedBack(ListOf(x), d))
ListPushFront(x, d) ==
  FreeNodes(mem) # {} /\ ListBecomes(x, ListPushedFront(ListOf(x), d))
ListRemove(x, d) == ListBecomes(x, Removed(ListOf(x), d))
ListClear(x) == ListBecomes(x, AllRemoved(ListOf(x)))

\* insert() with a count keeps the position it was given: end() is good for
\* one element in an empty list.
ListInsert(x, d, times) ==
  /\ Cardinality(FreeNodes(mem)) >= times
  /\ lists[x] = EmptyList => times = 1
  /\ \E p \in IF lists[x] = EmptyList THEN {Nil} ELSE Members(ListOf(x)) :
       LET once == Inserted(ListOf(x), p, d)
       IN  ListBecomes(x, IF times = 1 THEN once ELSE Inserted(once, p, d))

\* A list is destroyed and another one built in its place, of equal values.
ListRebuild(x, d, size) ==
  LET none == AllRemoved(ListOf(x))
  IN  /\ Cardinality(FreeNodes(none.mem)) >= size
      /\ ListBecomes(x, ListFilled(none, [i \in 1..size |-> d]))

\* The copy is built in a third list, which then takes the place of the first:
\* its nodes are swapped out and destroyed.
ListCopyAssign(x, y) ==
  /\ x # y
  /\ Cardinality(FreeNodes(mem)) >= lists[y].length
  /\ LET copy == ListFilled(Joined(mem, EmptyList), Items(ListOf(y)))
     IN  /\ mem' = AllRemoved(Joined(copy.mem, lists[x])).mem
         /\ lists' = [lists EXCEPT ![x] = Fields(copy)]

\* swap(), and the assignment from an rvalue, which swaps.
ListSwap ==
  /\ lists' = [lists EXCEPT !["a"] = lists["b"], !["b"] = lists["a"]]
  /\ UNCHANGED mem

ListNext ==
  \/ \E x \in Which, d \in Item :
       \/ ListPushBack(x, d) \/ ListPushFront(x, d) \/ ListRemove(x, d)
       \/ \E times \in 1..2 : \/ ListInsert(x, d, times)
                              \/ ListRebuild(x, d, times)
  \/ \E x, y \in Which : ListClear(x) \/ ListCopyAssign(x, y)
  \/ ListSwap
-----------------------------------------------------------------------------
\* Whatever was called, the two chains of links are one another's reverse, end
\* at head_ and tail_ and are as long as length_ says; no node is in two lists
\* and none is lost.
LinksAgree ==
  /\ \A x \in Which :
       LET s == ListOf(x)
           ahead == Met(Ahead(s))
           behind == Met(Behind(s))
       IN  /\ Len(ahead) = s.length /\ Len(behind) = s.length
           /\ \A i \in 1..s.length : behind[i] = ahead[s.length + 1 - i]
  /\ lists["a"].length + lists["b"].length = Cardinality(DOMAIN mem)
  /\ Members(ListOf("a")) \cup Members(ListOf("b")) = DOMAIN mem

\* The one element that the search never compares (338): the middle one of an
\* odd number of elements, and so the only one of one.
Middle(s) == IF s.length % 2 = 1 THEN s.length \div 2 + 1 ELSE 0
OnlyInTheMiddle(s, d) ==
  \A i \in DOMAIN Items(s) : Items(s)[i] = d => i = Middle(s)

\* find() answers with a node of the list that has the value, and misses the
\* value only when the middle element alone holds it.
FindMissesTheMiddle ==
  \A x \in Which, d \in Item :
    LET s == ListOf(x)
    IN  IF Found(s, d) = Nil THEN OnlyInTheMiddle(s, d)
        ELSE Found(s, d) \in Members(s) /\ s.mem[Found(s, d)].data = d

\* remove() keeps every element that is not equal to the value, changes none
\* and puts none before another, and leaves at most one of the value: it then
\* ends in the middle.
RemoveLeavesTheMiddle ==
  \A x \in Which, d \in Item :
    LET s == ListOf(x)
        t == Removed(s, d)
    IN  /\ \A n \in Members(s) \ Members(t) : s.mem[n].data = d
        /\ \A n \in Members(t) : t.mem[n].data = s.mem[n].data
        /\ \A i, j \in DOMAIN ListNodes(t) : i <= j =>
             \E k, l \in DOMAIN ListNodes(s) :
               /\ k <= l
               /\ ListNodes(s)[k] = ListNodes(t)[i]
               /\ ListNodes(s)[l] = ListNodes(t)[j]
        /\ OnlyInTheMiddle(t, d)

\* insert() puts the new element before the position; at the last position of
\* several (425) it puts it behind.
InsertsBefore ==
  FreeNodes(mem) # {} =>
    \A x \in Which, d \in Item : \A i \in DOMAIN ListNodes(ListOf(x)) :
      LET s == ListOf(x)
          at == IF i = s.length /\ i > 1 THEN i + 1 ELSE i
      IN  Items(Inserted(s, ListNodes(s)[i], d))
            = [j \in 1..(s.length + 1) |->
                 IF j < at THEN Items(s)[j]
                 ELSE IF j = at THEN d ELSE Items(s)[j - 1]]

\* What the operations of a List do to its links and its elements, and which
\* elements the search of 338 leaves out.
ListInv == /\ LinksAgree
           /\ FindMissesTheMiddle
           /\ RemoveLeavesTheMiddle
           /\ InsertsBefore
=============================================================================
