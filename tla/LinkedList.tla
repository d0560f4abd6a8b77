----------------------------- MODULE LinkedList -----------------------------
(***************************************************************************)
(* unordered_map.cpp: LinkedList, the singly linked list of a bucket, as   *)
(* its functions link and unlink the nodes; two lists, each a record s     *)
(* with the nodes (mem), _head, _tail and _count.  LinkedList's move       *)
(* constructor calls a function that does not exist and is left out.       *)
(***************************************************************************)
EXTENDS Integers, Sequences, FiniteSets

CONSTANTS ChainNode,     \* the nodes that may be allocated for one list
          NullNode,
          Junk,          \* what an uninitialised pointer may hold
          Data

ASSUME ChainAssumption == IsFiniteSet(ChainNode) /\ NullNode \notin ChainNode

VARIABLES chains,   \* the two lists
          crashed   \* an uninitialised pointer was read through

chainVars == <<chains, crashed>>

Chain == {"a", "b"}
EmptyChain == [mem |-> <<>>, head |-> NullNode, tail |-> NullNode, count |-> 0]

ChainInit == chains = [x \in Chain |-> EmptyChain] /\ crashed = FALSE

\* Where _next leads from _head: further than there are nodes, to see a loop.
Visited(s) ==
  LET at[i \in 0..Cardinality(ChainNode)] ==
        IF i = 0 THEN s.head
        ELSE IF at[i - 1] = NullNode THEN NullNode ELSE s.mem[at[i - 1]].next
  IN  at

ChainNodes(s) ==
  [i \in {j \in 1..(Cardinality(ChainNode) + 1) : Visited(s)[j - 1] # NullNode}
     |-> Visited(s)[i - 1]]

ChainData(s) == [i \in DOMAIN ChainNodes(s) |-> s.mem[ChainNodes(s)[i]].data]
-----------------------------------------------------------------------------
CreateNode(s, n, d) ==
  [s EXCEPT !.count = s.count + 1,
            !.mem = [m \in DOMAIN s.mem \cup {n} |->
                       IF m = n THEN [data |-> d, next |-> NullNode]
                       ELSE s.mem[m]]]

ReleaseNode(s, n) ==
  [s EXCEPT !.count = s.count - 1,
            !.mem = [m \in DOMAIN s.mem \ {n} |-> s.mem[m]]]

Linked(s, n, next) == [s EXCEPT !.mem[n].next = next]
Ends(s, head, tail) == [s EXCEPT !.head = head, !.tail = tail]

NewNode(s) == CHOOSE n \in ChainNode : n \notin DOMAIN s.mem

PushedBack(s, d) ==
  LET n == NewNode(s)
      c == CreateNode(s, n, d)
  IN  IF s.head = NullNode /\ s.tail = NullNode THEN Ends(c, n, n)
      ELSE Ends(Linked(c, s.tail, n), s.head, n)

PushedFront(s, d) ==
  LET n == NewNode(s)
      c == CreateNode(s, n, d)
  IN  IF s.head = NullNode /\ s.tail = NullNode THEN Ends(c, n, n)
      ELSE Ends(Linked(c, n, s.head), n, s.tail)

\* Mutation: the last node is unlinked like one in the middle.
UnlinkedAnywhere(s, n, parent) ==
  IF n = s.head /\ n = s.tail THEN Ends(s, NullNode, NullNode)
  ELSE IF n = s.head THEN Ends(s, s.mem[n].next, s.tail)
  ELSE Linked(s, parent, s.mem[n].next)

\* _removeNode(), before the node is released.
Unlinked(s, n, parent) ==
  IF n = s.head /\ n = s.tail THEN Ends(s, NullNode, NullNode)
  ELSE IF n = s.head THEN Ends(s, s.mem[n].next, s.tail)
  ELSE IF n = s.tail THEN Ends(Linked(s, parent, NullNode), s.head, parent)
  ELSE Linked(s, parent, s.mem[n].next)

\* What _removeNode() returns: what follows the parent then.
Returned(s, n, parent) ==
  IF parent = NullNode THEN NullNode
  ELSE Unlinked(s, n, parent).mem[parent].next

\* The node before the i-th, as find() and the loops of the callers know it.
ParentOf(s, i) == IF i = 1 THEN NullNode ELSE ChainNodes(s)[i - 1]

\* _removeNode() of the i-th node.
RemovedNode(s, i, parent) ==
  ReleaseNode(Unlinked(s, ChainNodes(s)[i], parent), ChainNodes(s)[i])

\* A new list of these data.
ChainOf(data) ==
  LET pushed[k \in 0..Len(data)] ==
        IF k = 0 THEN EmptyChain ELSE PushedBack(pushed[k - 1], data[k])
  IN  pushed[Len(data)]

\* clear(): the nodes are released from _head on.
ClearedChain(s) ==
  LET released == {ChainNodes(s)[i] : i \in DOMAIN ChainNodes(s)}
  IN  [mem |-> [n \in DOMAIN s.mem \ released |-> s.mem[n]],
       head |-> NullNode, tail |-> NullNode, count |-> 0]

Room(s) == ChainNode \ DOMAIN s.mem # {}
ChainBecomes(x, s) == chains' = [chains EXCEPT ![x] = s] /\ UNCHANGED crashed
-----------------------------------------------------------------------------
PushBack(x, d) == Room(chains[x]) /\ ChainBecomes(x, PushedBack(chains[x], d))
PushFront(x, d) == Room(chains[x]) /\ ChainBecomes(x, PushedFront(chains[x], d))

\* remove(data): the parent of the first node is never set.
RemoveFirstOf(x, d) ==
  LET s == chains[x]
  IN  \E i \in DOMAIN ChainNodes(s) :
        /\ ChainData(s)[i] = d
        /\ \A j \in 1..(i - 1) : ChainData(s)[j] # d
        /\ \E parent \in IF i = 1 THEN ChainNode \cup {NullNode, Junk}
                         ELSE {ParentOf(s, i)} :
             /\ chains' = [chains EXCEPT ![x] = RemovedNode(s, i, parent)]
             /\ crashed' = (parent = Junk)

\* remove(iterator, parent).
RemoveAtNode(x) ==
  LET s == chains[x]
  IN  \E i \in DOMAIN ChainNodes(s) :
        ChainBecomes(x, RemovedNode(s, i, ParentOf(s, i)))

ClearChain(x) == ChainBecomes(x, ClearedChain(chains[x]))

\* The copy is built in another list, swapped in, and the old nodes cleared.
ChainCopyAssign(x, y) ==
  x # y /\ ChainBecomes(x, ChainOf(ChainData(chains[y])))

\* swap(), after which the other list is cleared: itself, if it is the same.
ChainMoveAssign(x, y) ==
  /\ chains' = [[chains EXCEPT ![x] = chains[y]] EXCEPT ![y] = EmptyChain]
  /\ UNCHANGED crashed

ChainNext ==
  /\ ~ crashed
  /\ \/ \E x \in Chain, d \in Data :
          PushBack(x, d) \/ PushFront(x, d) \/ RemoveFirstOf(x, d)
     \/ \E x, y \in Chain : ChainCopyAssign(x, y) \/ ChainMoveAssign(x, y)
     \/ \E x \in Chain : RemoveAtNode(x) \/ ClearChain(x)
-----------------------------------------------------------------------------
\* The chain from _head leads over every node of the list to _tail, whatever
\* was removed where, and _count says how many there are.
ChainEndsAtTail ==
  \A x \in Chain :
    LET s == chains[x]
        nodes == ChainNodes(s)
    IN  /\ {nodes[i] : i \in DOMAIN nodes} = DOMAIN s.mem
        /\ s.count = Len(nodes)
        /\ s.tail = IF s.count = 0 THEN NullNode ELSE nodes[s.count]
        /\ s.tail # NullNode => s.mem[s.tail].next = NullNode

\* remove(iterator, parent) answers with the node after the removed one; the
\* one after the first node is lost (56).
RemoveAnswersNext ==
  \A x \in Chain : \A i \in DOMAIN ChainNodes(chains[x]) :
    LET s == chains[x]
        next == Returned(s, ChainNodes(s)[i], ParentOf(s, i))
    IN  next = IF i = 1 THEN NullNode ELSE s.mem[ChainNodes(s)[i]].next

\* The chain of a LinkedList is whole, and remove() answers as the erase() of
\* the map (593) reads it.
ChainInv == ChainEndsAtTail /\ RemoveAnswersNext
=============================================================================
