--------------------------- MODULE LibraryProofs ----------------------------
(***************************************************************************)
(* Proofs about the parts that one thread uses, for any number of          *)
(* variables, owners, nodes, buckets, keys and values: who owns the value  *)
(* of an any, how the code of a variant comes to be wrong, that the count  *)
(* of a shared_ptr is the number of its owners, what the templates compute,*)
(* that the chain of a LinkedList is whole, what an UnorderedMap holds and *)
(* its loops meet, and what the operations of a List do to its links.      *)
(*                                                                         *)
(* Loops of the code are functions defined by recursion.  What they return *)
(* is proved by induction, which rests on every set of natural numbers     *)
(* having a least element.                                                 *)
(***************************************************************************)
EXTENDS Any, Variant, SharedPtr, CompileTime, LinkedList, UnorderedMap,
        List, FiniteSetTheorems, SequenceTheorems, WellFoundedInduction, TLAPS

-----------------------------------------------------------------------------
(* Induction, and functions that are defined by recursion *)

Below == {p \in Nat \X Nat : p[1] < p[2]}

\* A set of natural numbers that is not empty has a least element.
LEMMA Least ==
  ASSUME NEW T, T \subseteq Nat, T # {}
  PROVE  \E m \in T : \A n \in T : m <= n
<1>1. IsWellFoundedOn(Below, Nat)
  BY NatLessThanWellFounded DEF OpToRel, Below
<1>2. PICK m \in T : \A n \in T : <<n, m>> \notin Below
  BY <1>1, WFMin
<1>3. ASSUME NEW n \in T PROVE m <= n
  <2>1. m \in Nat /\ n \in Nat /\ <<n, m>> \notin Below
    BY <1>2
  <2> QED
    BY <2>1 DEF Below
<1> QED
  BY <1>3

\* A set with 0 and the successors of its elements has all natural numbers.
LEMMA Induct ==
  ASSUME NEW S, S \subseteq Nat, 0 \in S, \A n \in S : n + 1 \in S
  PROVE  S = Nat
<1> SUFFICES ASSUME Nat \ S # {} PROVE FALSE
  OBVIOUS
<1>1. PICK m \in Nat \ S : \A n \in Nat \ S : m <= n
  BY Least
<1>2. m - 1 \in Nat /\ m - 1 \notin S
  <2>1. m # 0
   OBVIOUS
  <2>2. m - 1 \in Nat
    BY <2>1
  <2>3. m - 1 \in S => m - 1 + 1 \in S
    OBVIOUS
  <2> QED BY <2>2, <2>3
<1> QED
  BY <1>1, <1>2

\* What a recursive function satisfies: f[x] is b[x] for the x of rank 0, and
\* made by g from the value at d[x] for the others.
Defines(f, D, r, d, b, g) ==
  \A x \in D : f[x] = IF r[x] = 0 THEN b[x] ELSE g[<<f[d[x]], x>>]
Defined(D, S, r, d, b, g) == \E f \in [D -> S] : Defines(f, D, r, d, b, g)

\* A function whose value at x needs its value at d[x], of smaller rank,
\* exists.
LEMMA Recursion ==
  \A D, S : \A r \in [D -> Nat], d \in [D -> D], b \in [D -> S],
            g \in [S \X D -> S] :
    (\A x \in D : r[x] # 0 => r[d[x]] < r[x])
    => Defined(D, S, r, d, b, g)
<1> SUFFICES
  ASSUME NEW D, NEW S, NEW r \in [D -> Nat], NEW d \in [D -> D],
         NEW b \in [D -> S], NEW g \in [S \X D -> S],
         \A x \in D : r[x] # 0 => r[d[x]] < r[x]
  PROVE  \E f \in [D -> S] :
           \A x \in D : f[x] = IF r[x] = 0 THEN b[x] ELSE g[<<f[d[x]], x>>]
  BY DEF Defined, Defines
<1> DEFINE Up(n) == {x \in D : r[x] <= n}
           Good(f, n) == \A x \in Up(n) :
                  f[x] = IF r[x] = 0 THEN b[x] ELSE g[<<f[d[x]], x>>]
           T == {n \in Nat : \E f \in [D -> S] : Good(f, n)}
<1>1. 0 \in T
  <2>1. \A x \in Up(0) : r[x] = 0
    OBVIOUS
  <2>2. Good(b, 0)
    BY <2>1
  <2> QED
    BY <2>2
<1>2. ASSUME NEW n \in T PROVE n + 1 \in T
  <2>1. PICK f \in [D -> S] : Good(f, n)
    OBVIOUS
  <2> DEFINE h == [x \in D |-> IF r[x] = 0 THEN b[x] ELSE g[<<f[d[x]], x>>]]
  <2>2. h \in [D -> S]
    OBVIOUS
  <2>3. \A x \in Up(n) : h[x] = f[x]
    BY <2>1
  <2>4. ASSUME NEW x \in Up(n + 1), r[x] # 0 PROVE h[d[x]] = f[d[x]]
    <3>1. d[x] \in Up(n)
      BY <2>4
    <3> QED
      BY <3>1, <2>3
  <2>5. Good(h, n + 1)
    <3> SUFFICES ASSUME NEW x \in Up(n + 1)
                 PROVE h[x] = IF r[x] = 0 THEN b[x] ELSE g[<<h[d[x]], x>>]
      OBVIOUS
    <3>1. h[x] = IF r[x] = 0 THEN b[x] ELSE g[<<f[d[x]], x>>]
      OBVIOUS
    <3> HIDE DEF h
    <3> QED
      BY <2>4, <3>1
  <2> HIDE DEF h, Good
  <2> QED
    BY <2>2, <2>5
<1>3. T = Nat
  <2> HIDE DEF T
  <2> QED
    BY <1>1, <1>2, Induct DEF T
<1>4. \A n \in Nat : \E f \in [D -> S] : Good(f, n)
  BY <1>3
<1> DEFINE F == [n \in Nat |-> CHOOSE f \in [D -> S] : Good(f, n)]
<1>5. \A n \in Nat : F[n] \in [D -> S] /\ Good(F[n], n)
  <2> HIDE DEF Good
  <2> QED
    BY <1>4
<1> HIDE DEF F
<1>6. \A m, n \in Nat : m <= n => \A x \in Up(m) : F[n][x] = F[m][x]
  <2> SUFFICES ASSUME NEW m \in Nat, NEW n \in Nat, m <= n
               PROVE  \A x \in Up(m) : F[n][x] = F[m][x]
    OBVIOUS
  <2> DEFINE U == {k \in Nat : k <= m => \A x \in Up(k) : F[n][x] = F[m][x]}
  <2>1. 0 \in U
    <3> SUFFICES ASSUME NEW x \in Up(0) PROVE F[n][x] = F[m][x]
      OBVIOUS
    <3>1. r[x] = 0 /\ x \in Up(m) /\ x \in Up(n)
      OBVIOUS
    <3> QED
      BY <1>5, <3>1
  <2>2. ASSUME NEW k \in U PROVE k + 1 \in U
    <3> SUFFICES ASSUME k + 1 <= m, NEW x \in Up(k + 1)
                 PROVE  F[n][x] = F[m][x]
      OBVIOUS
    <3>1. x \in Up(m) /\ x \in Up(n)
      OBVIOUS
    <3>2. CASE r[x] = 0
      BY <1>5, <3>1, <3>2
    <3>3. CASE r[x] # 0
      <4>1. d[x] \in Up(k)
        BY <3>3
      <4>2. F[n][d[x]] = F[m][d[x]]
        BY <4>1
      <4>3. F[n][x] = g[<<F[n][d[x]], x>>]
        BY <1>5, <3>1, <3>3
      <4>4. F[m][x] = g[<<F[m][d[x]], x>>]
        BY <1>5, <3>1, <3>3
      <4> QED
        BY <4>2, <4>3, <4>4
    <3> QED
      BY <3>2, <3>3
  <2>3. U = Nat
    <3> HIDE DEF U
    <3> QED
      BY <2>1, <2>2, Induct DEF U
  <2> QED
    BY <2>3
<1> DEFINE f == [x \in D |-> F[r[x]][x]]
<1>7. f \in [D -> S]
  BY <1>5
<1>8. ASSUME NEW x \in D
      PROVE f[x] = IF r[x] = 0 THEN b[x] ELSE g[<<f[d[x]], x>>]
  <2>1. F[r[x]][x] = IF r[x] = 0 THEN b[x] ELSE g[<<F[r[x]][d[x]], x>>]
    BY <1>5
  <2>2. r[x] # 0 => F[r[x]][d[x]] = F[r[d[x]]][d[x]]
    BY <1>6
  <2> QED
    BY <2>1, <2>2
<1> QED
  <2> HIDE DEF f
  <2> QED
    BY <1>7, <1>8
-----------------------------------------------------------------------------
(* Any and Variant *)

AnySpec == AnyInit /\ [][AnyNext]_anyVars

SmallValue == SmallId \cup {Plain, Null, Gone}
LargeValue == LargeId \cup {Null, Gone}

\* The values the variables take: a small variable has a value of its own kind,
\* a large one an object.
AnyTypeOK ==
  /\ kept \in [Holder -> SmallValue \cup LargeValue]
  /\ \A h \in Small : kept[h] \in SmallValue
  /\ \A h \in Large : kept[h] \in LargeValue
  /\ inner \in [LargeId -> LargeId \cup {Null}]
  /\ live \subseteq SmallId

\* What OwnedByOne says of a run without a misuse.
Owned ==
  /\ ~ harmed
  /\ live = {kept[h] : h \in Small} \cap SmallId
  /\ \A h, k \in Small : kept[h] = kept[k] /\ kept[h] \in SmallId => h = k

IInv == AnyTypeOK /\ (~ misused => Owned)
-----------------------------------------------------------------------------
(* One or two variables change *)

\* A variable gives up its value, which is destroyed, and gets a new one or one
\* that owns nothing.
LEMMA OneChanges ==
  Distinct =>
  \A h \in Holder :
    /\ AnyTypeOK /\ Owned
    /\ \A x \in Holder \ {h} : kept'[x] = kept[x]
    /\ kept'[h] \in SmallId => h \in Small /\ kept'[h] \notin live
    /\ live' = (live \ Destroyed(h)) \cup ({kept'[h]} \cap SmallId)
    /\ harmed' = (harmed \/ ~ Destroyed(h) \subseteq live)
    => Owned'
<1> SUFFICES ASSUME Distinct, NEW h \in Holder, AnyTypeOK, Owned,
                    \A x \in Holder \ {h} : kept'[x] = kept[x],
                    kept'[h] \in SmallId => h \in Small /\ kept'[h] \notin live,
                    live' = (live \ Destroyed(h))
                              \cup ({kept'[h]} \cap SmallId),
                    harmed' = (harmed \/ ~ Destroyed(h) \subseteq live)
             PROVE  Owned'
  OBVIOUS
<1>1. Destroyed(h) = {kept[h]} \cap SmallId
  BY DEF Destroyed
<1>2. h \in Large => kept[h] \notin SmallId
  BY DEF AnyTypeOK, LargeValue, Distinct
<1>3. Destroyed(h) \subseteq live
  BY <1>1, <1>2 DEF Owned, Holder
<1>4. \A x \in Small \ {h} :
        kept'[x] = kept[x] /\ (kept[x] \in SmallId => kept[x] \in live)
  BY DEF Owned, Holder
<1>5. \A x, y \in Small : kept'[x] = kept'[y] /\ kept'[x] \in SmallId => x = y
  BY <1>4 DEF Owned
<1>6. live' = {kept'[x] : x \in Small} \cap SmallId
  <2>1. ASSUME NEW i \in live' PROVE i \in {kept'[x] : x \in Small} \cap SmallId
    <3>1. CASE i = kept'[h] /\ i \in SmallId
      BY <3>1
    <3>2. CASE i \in live \ Destroyed(h)
      <4>1. i \in SmallId /\ i # kept[h]
        BY <1>1, <3>2 DEF AnyTypeOK
      <4>2. PICK x \in Small : kept[x] = i
        BY <3>2 DEF Owned
      <4>3. x # h /\ kept'[x] = i
        BY <1>4, <4>1, <4>2
      <4> QED
        BY <4>1, <4>2, <4>3
    <3> QED
      BY <2>1, <3>1, <3>2
  <2>2. ASSUME NEW x \in Small, kept'[x] \in SmallId PROVE kept'[x] \in live'
    <3>1. CASE x = h
      BY <2>2, <3>1
    <3>2. CASE x # h
      <4>1. kept'[x] = kept[x] /\ kept[x] \in live
        BY <1>4, <2>2, <3>2
      <4>2. kept[x] \notin Destroyed(h)
        BY <1>1, <1>2, <2>2, <3>2, <4>1 DEF Owned, Holder
      <4> QED
        BY <4>1, <4>2
    <3> QED
      BY <3>1, <3>2
  <2> QED
    BY <2>1, <2>2
<1> QED
  BY <1>3, <1>5, <1>6 DEF Owned

\* A variable gives up its value, which is destroyed, and takes that of another
\* one of its kind, which is empty then.
LEMMA OneTakes ==
  Distinct =>
  \A h, from \in Holder :
    /\ AnyTypeOK /\ Owned /\ Alike(h, from) /\ h # from
    /\ kept' = [kept EXCEPT ![h] = kept[from], ![from] = Null]
    /\ live' = live \ Destroyed(h)
    /\ harmed' = (harmed \/ ~ Destroyed(h) \subseteq live)
    => Owned'
<1> SUFFICES ASSUME Distinct, NEW h \in Holder, NEW from \in Holder, AnyTypeOK,
                    Owned, Alike(h, from), h # from,
                    kept' = [kept EXCEPT ![h] = kept[from], ![from] = Null],
                    live' = live \ Destroyed(h),
                    harmed' = (harmed \/ ~ Destroyed(h) \subseteq live)
             PROVE  Owned'
  OBVIOUS
<1>1. Destroyed(h) = {kept[h]} \cap SmallId
  BY DEF Destroyed
<1>2. /\ kept'[h] = kept[from] /\ kept'[from] = Null
      /\ \A x \in Holder \ {h, from} : kept'[x] = kept[x]
  BY DEF AnyTypeOK
<1>3. Null \notin SmallId
  BY DEF Distinct
<1>4. CASE h \in Large
  <2>1. /\ from \notin Small /\ h \notin Small /\ kept[h] \notin SmallId
    BY <1>4 DEF Alike, Distinct, Holder, AnyTypeOK, LargeValue
  <2>2. \A x \in Small : kept'[x] = kept[x]
    BY <1>2, <2>1 DEF Holder
  <2>3. Destroyed(h) = {}
    BY <1>1, <2>1
  <2>4. {kept'[x] : x \in Small} = {kept[x] : x \in Small}
    BY <2>2
  <2> QED
    BY <2>2, <2>3, <2>4 DEF Owned
<1>5. CASE h \in Small
  <2>1. from \in Small
    BY <1>5 DEF Alike
  <2>2. Destroyed(h) \subseteq live
    BY <1>1, <1>5 DEF Owned
  <2>3. ASSUME NEW x \in Small, NEW y \in Small, kept'[x] = kept'[y],
               kept'[x] \in SmallId
        PROVE  x = y
    BY <1>2, <1>3, <1>5, <2>1, <2>3 DEF Owned, Holder
  <2>4. live' = {kept'[x] : x \in Small} \cap SmallId
    <3>1. ASSUME NEW i \in live'
          PROVE  i \in {kept'[x] : x \in Small} \cap SmallId
      <4>1. i \in SmallId /\ i # kept[h] /\ i \in live
        BY <1>1, <3>1 DEF AnyTypeOK
      <4>2. PICK x \in Small : kept[x] = i
        BY <4>1 DEF Owned
      <4>3. CASE x = from
        BY <1>2, <1>5, <4>1, <4>2, <4>3
      <4>4. CASE x # from
        <5>1. kept'[x] = i
          BY <1>2, <4>1, <4>2, <4>4 DEF Holder
        <5> QED
          BY <4>1, <5>1
      <4> QED
        BY <4>3, <4>4
    <3>2. ASSUME NEW x \in Small, kept'[x] \in SmallId PROVE kept'[x] \in live'
      <4>1. CASE x = h
        <5>1. /\ kept'[x] = kept[from] /\ kept[from] \in live
              /\ kept[from] # kept[h]
          BY <1>2, <1>5, <2>1, <3>2, <4>1 DEF Owned
        <5> QED
          BY <1>1, <5>1
      <4>2. CASE x # h
        <5>1. x # from /\ kept'[x] = kept[x]
          BY <1>2, <1>3, <3>2, <4>2 DEF Holder
        <5>2. kept[x] \in live /\ kept[x] # kept[h]
          BY <1>5, <3>2, <4>2, <5>1 DEF Owned
        <5> QED
          BY <1>1, <5>1, <5>2
      <4> QED
        BY <4>1, <4>2
    <3> QED
      BY <3>1, <3>2
  <2> QED
    BY <2>2, <2>3, <2>4 DEF Owned
<1> QED
  BY <1>4, <1>5 DEF Holder
-----------------------------------------------------------------------------
(* The operations *)

\* What every operation through Become leaves.
LEMMA BecomeIs ==
  \A k, made, gone :
    AnyTypeOK /\ Become(k, made, gone) =>
      /\ kept' = k
      /\ live' = (live \ gone) \cup (made \cap SmallId)
      /\ live' \subseteq SmallId
      /\ harmed' = (harmed \/ ~ gone \subseteq live)
      /\ inner' \in [LargeId -> LargeId \cup {Null}]
<1> SUFFICES ASSUME NEW k, NEW made, NEW gone, AnyTypeOK, Become(k, made, gone)
             PROVE  /\ kept' = k
                    /\ live' = (live \ gone) \cup (made \cap SmallId)
                    /\ live' \subseteq SmallId
                    /\ harmed' = (harmed \/ ~ gone \subseteq live)
                    /\ inner' \in [LargeId -> LargeId \cup {Null}]
  OBVIOUS
<1>1. inner' = [i \in LargeId |->
                  IF i \in Reached(k) THEN inner[i] ELSE Null]
  BY DEF Become
<1>2. inner' \in [LargeId -> LargeId \cup {Null}]
  BY <1>1 DEF AnyTypeOK
<1> QED
  BY <1>2 DEF Become, AnyTypeOK

\* A variable that gets a value of its kind that nobody owns keeps the
\* invariant; gone is what the operation destroys, made what it builds.
LEMMA OneStep ==
  Distinct =>
  \A h \in Holder : \A value, made, gone :
    /\ IInv /\ (misused => misused')
    /\ Become(Keeps(h, value), made, gone)
    /\ gone = Destroyed(h)
    /\ h \in Small => value \in SmallValue
    /\ h \in Large => value \in LargeValue
    /\ made \cap SmallId \subseteq {value}
    /\ value \in SmallId => \/ h \in Small /\ value \in made \ live
                            \/ misused'
    => IInv'
<1> SUFFICES ASSUME Distinct, NEW h \in Holder, NEW value, NEW made, NEW gone,
                    IInv, misused => misused',
                    Become(Keeps(h, value), made, gone), gone = Destroyed(h),
                    h \in Small => value \in SmallValue,
                    h \in Large => value \in LargeValue,
                    made \cap SmallId \subseteq {value},
                    value \in SmallId => \/ h \in Small /\ value \in made \ live
                                         \/ misused'
             PROVE  IInv'
  OBVIOUS
<1>1. /\ kept' = [kept EXCEPT ![h] = value]
      /\ live' = (live \ gone) \cup (made \cap SmallId)
      /\ live' \subseteq SmallId
      /\ harmed' = (harmed \/ ~ gone \subseteq live)
      /\ inner' \in [LargeId -> LargeId \cup {Null}]
  BY BecomeIs DEF Keeps, IInv
<1>2. /\ kept'[h] = value /\ \A x \in Holder \ {h} : kept'[x] = kept[x]
      /\ kept' \in [Holder -> SmallValue \cup LargeValue]
  BY <1>1 DEF AnyTypeOK, IInv, Holder
<1>3. AnyTypeOK'
  BY <1>1, <1>2 DEF AnyTypeOK, IInv, Holder
<1>4. ASSUME ~ misused' PROVE Owned'
  <2>1. Owned
    BY <1>4 DEF IInv
  <2>2. value \in SmallId => h \in Small /\ value \in made \ live
    BY <1>4
  <2>3. made \cap SmallId = {value} \cap SmallId
    BY <2>2
  <2> QED
    BY <1>1, <1>2, <2>1, <2>2, <2>3, OneChanges DEF IInv
<1> QED
  BY <1>3, <1>4 DEF IInv

\* A new value is of the variable's kind, and nobody owns it.
LEMMA NewValueIs ==
  Distinct => \A h \in Holder : \A value \in NewValues(h) :
    /\ h \in Small => value \in SmallValue
    /\ h \in Large => value \in LargeValue
    /\ value \in SmallId => h \in Small /\ value \notin live
<1> SUFFICES ASSUME Distinct, NEW h \in Holder, NEW value \in NewValues(h)
             PROVE  /\ h \in Small => value \in SmallValue
                    /\ h \in Large => value \in LargeValue
                    /\ value \in SmallId => h \in Small /\ value \notin live
  OBVIOUS
<1>1. CASE h \in Small
  BY <1>1 DEF NewValues, Distinct, SmallValue
<1>2. CASE h \in Large
  BY <1>2 DEF NewValues, Distinct, LargeValue
<1> QED
  BY <1>1, <1>2 DEF Holder

\* store() and emplace(), whether the value is built or throws (any.h 120).
LEMMA StoreStep ==
  Distinct =>
  \A h \in Holder, left \in {Null, Gone} : \A gone :
    IInv /\ Store(h, left, gone) /\ gone = Destroyed(h) => IInv'
<1> SUFFICES ASSUME Distinct, NEW h \in Holder, NEW left \in {Null, Gone},
                    NEW gone, IInv, Store(h, left, gone), gone = Destroyed(h)
             PROVE  IInv'
  OBVIOUS
<1>1. misused' = misused
  BY DEF Store
<1>2. CASE Become(Keeps(h, left), {}, gone)
  <2>1. left \in SmallValue /\ left \in LargeValue /\ left \notin SmallId
    BY DEF Distinct, SmallValue, LargeValue
  <2> QED
    BY <1>1, <1>2, <2>1, OneStep
<1>3. ASSUME NEW value \in NewValues(h),
             Become(Keeps(h, value), {value}, gone)
      PROVE  IInv'
  BY <1>1, <1>3, OneStep, NewValueIs
<1> QED
  BY <1>2, <1>3 DEF Store

\* A variable that is not alive has nothing to destroy.
LEMMA NothingToDestroy ==
  Distinct /\ IInv => \A h \in Holder \ Alive : Destroyed(h) = {}
BY DEF Distinct, Alive, Destroyed

\* A variable loses its value.
LEMMA EmptyStep ==
  Distinct =>
  \A h \in Holder, value \in {Null, Gone} : \A gone :
    /\ IInv /\ Become(Keeps(h, value), {}, gone) /\ gone = Destroyed(h)
    /\ misused' = misused
    => IInv'
<1> SUFFICES ASSUME Distinct, NEW h \in Holder, NEW value \in {Null, Gone},
                    NEW gone, IInv, Become(Keeps(h, value), {}, gone),
                    gone = Destroyed(h), misused' = misused
             PROVE  IInv'
  OBVIOUS
<1>1. value \in SmallValue /\ value \in LargeValue /\ value \notin SmallId
  BY DEF Distinct, SmallValue, LargeValue
<1> QED
  BY <1>1, OneStep

\* A copy of a small value's bytes is a misuse; what else is copied owns
\* nothing, or shares its object (98).
LEMMA CopyStep ==
  Distinct =>
  \A h, from \in Holder : \A gone :
    /\ IInv /\ Alike(h, from) /\ Become(Copied(h, from), {}, gone)
    /\ Copies(kept[from]) /\ gone = Destroyed(h)
    => IInv'
<1> SUFFICES ASSUME Distinct, NEW h \in Holder, NEW from \in Holder, NEW gone,
                    IInv, Alike(h, from), Become(Copied(h, from), {}, gone),
                    Copies(kept[from]), gone = Destroyed(h)
             PROVE  IInv'
  OBVIOUS
<1>1. PICK value : value = kept[from]
  OBVIOUS
<1>2. /\ h \in Small => value \in SmallValue
      /\ h \in Large => value \in LargeValue
  BY <1>1 DEF Alike, Holder, IInv, AnyTypeOK, Distinct
<1>3. (misused => misused') /\ (value \in SmallId => misused')
  BY <1>1 DEF Copies
<1>4. Become(Keeps(h, value), {}, gone)
  BY <1>1 DEF Copied
<1> QED
  BY <1>2, <1>3, <1>4, OneStep

\* A move empties its source (107), also when that is its target.
LEMMA MoveStep ==
  Distinct =>
  \A h, from \in Holder : \A gone :
    /\ IInv /\ Alike(h, from) /\ Become(Moved(h, from), {}, gone)
    /\ misused' = misused /\ gone = Destroyed(h)
    => IInv'
<1> SUFFICES ASSUME Distinct, NEW h \in Holder, NEW from \in Holder, NEW gone,
                    IInv, Alike(h, from), Become(Moved(h, from), {}, gone),
                    misused' = misused, gone = Destroyed(h)
             PROVE  IInv'
  OBVIOUS
<1>1. CASE h = from
  BY <1>1, EmptyStep DEF Moved
<1>2. CASE h # from
  <2>1. /\ kept' = [kept EXCEPT ![h] = kept[from], ![from] = Null]
        /\ live' = live \ Destroyed(h) /\ live' \subseteq SmallId
        /\ harmed' = (harmed \/ ~ Destroyed(h) \subseteq live)
        /\ inner' \in [LargeId -> LargeId \cup {Null}]
    BY <1>2, BecomeIs DEF IInv, Moved
  <2>2. /\ kept'[h] = kept[from] /\ kept'[from] = Null
        /\ \A x \in Holder \ {h, from} : kept'[x] = kept[x]
        /\ kept' \in [Holder -> SmallValue \cup LargeValue]
    BY <1>2, <2>1 DEF IInv, AnyTypeOK, SmallValue
  <2>3. AnyTypeOK'
    BY <2>1, <2>2 DEF IInv, AnyTypeOK, SmallValue, LargeValue, Alike, Holder,
         Distinct
  <2>4. ~ misused => Owned'
    BY <1>2, <2>1, OneTakes DEF IInv
  <2> QED
    BY <2>3, <2>4 DEF IInv
<1> QED
  BY <1>1, <1>2

\* The constructor from an any<0> that is not const (223).
LEMMA StealStep ==
  Distinct =>
  \A h, from \in Holder :
    IInv /\ Alike(h, from) /\ from \in Alive /\ Steal(h, from) => IInv'
<1> SUFFICES ASSUME Distinct, NEW h \in Holder, NEW from \in Holder, IInv,
                    Alike(h, from), from \in Alive, Steal(h, from)
             PROVE  IInv'
  OBVIOUS
<1>1. PICK i \in LargeId :
        /\ kept' = [kept EXCEPT ![h] = i, ![from] = Null]
        /\ inner' = [inner EXCEPT ![i] = kept[from]]
  BY DEF Steal
<1>2. /\ h \in Large /\ from \in Large /\ h \notin Small /\ from \notin Small
      /\ UNCHANGED <<live, harmed, misused>>
  BY DEF Steal, Alike, Holder, Distinct
<1>3. kept[from] \in LargeId \cup {Null}
  BY <1>2 DEF Alive, IInv, AnyTypeOK, LargeValue
<1>4. /\ \A x \in Small : kept'[x] = kept[x]
      /\ \A x \in Large : kept'[x] \in LargeValue
      /\ kept' \in [Holder -> SmallValue \cup LargeValue]
  BY <1>1, <1>2 DEF IInv, AnyTypeOK, LargeValue, Holder
<1>5. inner' \in [LargeId -> LargeId \cup {Null}]
  BY <1>1, <1>3 DEF IInv, AnyTypeOK
<1>6. AnyTypeOK'
  BY <1>2, <1>4, <1>5 DEF IInv, AnyTypeOK
<1>7. Owned => Owned'
  <2>1. {kept'[x] : x \in Small} = {kept[x] : x \in Small}
    BY <1>4
  <2> QED
    BY <1>2, <1>4, <2>1 DEF Owned
<1> QED
  BY <1>2, <1>6, <1>7 DEF IInv

\* An assignment of the variable's own value is a misuse, but for a plain one.
LEMMA OwnValueStep ==
  Distinct =>
  \A h \in Holder : IInv /\ h \in Alive /\ AssignOwnValue(h) => IInv'
<1> SUFFICES ASSUME Distinct, NEW h \in Holder, IInv, h \in Alive,
                    AssignOwnValue(h)
             PROVE  IInv'
  OBVIOUS
<1>1. PICK value \in OwnValues(h) : kept' = [kept EXCEPT ![h] = value]
  BY DEF AssignOwnValue, Keeps
<1>2. inner' \in [LargeId -> LargeId \cup {Null}]
  <2>1. inner' = [i \in LargeId |->
                    IF i \in Reached(kept') THEN inner[i] ELSE Null]
    BY DEF AssignOwnValue
  <2> QED
    BY <2>1 DEF IInv, AnyTypeOK
<1>3. kept[h] # Null /\ kept[h] # Gone
  BY DEF AssignOwnValue, Alive
<1>4. /\ h \in Small => value = kept[h]
      /\ h \in Large => value \in LargeId
  <2>1. h \in Small => kept[h] \notin LargeId
    BY DEF IInv, AnyTypeOK, SmallValue, Distinct
  <2>2. CASE h \in Small
    BY <2>1, <2>2 DEF OwnValues, Distinct
  <2>3. CASE h \in Large
    <3>1. kept[h] \in LargeId /\ inner[kept[h]] \in LargeId \cup {Null}
      BY <1>3, <2>3 DEF IInv, AnyTypeOK, LargeValue
    <3>2. NewValues(h) \subseteq LargeId
      BY <2>3 DEF NewValues, Distinct
    <3>3. value \in LargeId
      BY <3>1, <3>2 DEF OwnValues
    <3> QED
      BY <2>3, <3>3 DEF Distinct
  <2> QED
    BY <2>2, <2>3 DEF Holder
<1>5. AnyTypeOK'
  <2>1. live' = live
    BY DEF AssignOwnValue
  <2>2. kept' \in [Holder -> SmallValue \cup LargeValue]
    BY <1>1, <1>4 DEF IInv, AnyTypeOK, LargeValue, Holder
  <2>3. \A x \in Holder : kept'[x] = IF x = h THEN value ELSE kept[x]
    BY <1>1 DEF IInv, AnyTypeOK
  <2> QED
    BY <1>2, <1>4, <2>1, <2>2, <2>3 DEF IInv, AnyTypeOK, LargeValue, Holder
<1>6. ASSUME ~ misused' PROVE Owned'
  <2>1. ~ misused /\ kept[h] = Plain /\ live' = live
    BY <1>6 DEF AssignOwnValue
  <2>2. h \in Small /\ kept' = kept
    <3>1. h \in Small
      BY <2>1 DEF IInv, AnyTypeOK, LargeValue, Distinct, Holder
    <3> QED
      BY <1>1, <1>4, <3>1 DEF IInv, AnyTypeOK
  <2>3. ~ harmed'
    BY <2>1 DEF AssignOwnValue, Distinct
  <2> QED
    BY <2>1, <2>2, <2>3 DEF IInv, Owned
<1> QED
  BY <1>5, <1>6 DEF IInv

\* Two variables of a kind exchange their values.
LEMMA SwapStep ==
  Distinct =>
  \A h, k \in Holder : IInv /\ Alike(h, k) /\ Swap(h, k) => IInv'
<1> SUFFICES ASSUME Distinct, NEW h \in Holder, NEW k \in Holder, IInv,
                    Alike(h, k), Swap(h, k)
             PROVE  IInv'
  OBVIOUS
<1>1. /\ kept' = [kept EXCEPT ![h] = kept[k], ![k] = kept[h]]
      /\ live' = live /\ (harmed' <=> harmed) /\ misused' = misused
      /\ inner' \in [LargeId -> LargeId \cup {Null}]
  <2>1. /\ kept' = [kept EXCEPT ![h] = kept[k], ![k] = kept[h]]
        /\ live' = (live \ {}) \cup ({} \cap SmallId)
        /\ harmed' = (harmed \/ ~ {} \subseteq live)
        /\ inner' \in [LargeId -> LargeId \cup {Null}]
        /\ misused' = misused
    BY BecomeIs DEF Swap, IInv
  <2> QED
    BY <2>1
<1>2. /\ kept'[h] = kept[k] /\ kept'[k] = kept[h]
      /\ \A x \in Holder \ {h, k} : kept'[x] = kept[x]
      /\ kept' \in [Holder -> SmallValue \cup LargeValue]
  BY <1>1 DEF IInv, AnyTypeOK
<1>3. AnyTypeOK'
  BY <1>1, <1>2 DEF IInv, AnyTypeOK, Alike, Holder, Distinct
<1>4. Owned => Owned'
  <2> SUFFICES ASSUME Owned PROVE Owned'
    OBVIOUS
  <2>1. h \in Small <=> k \in Small
    BY DEF Alike
  <2>2. {kept'[x] : x \in Small} = {kept[x] : x \in Small}
    BY <1>2, <2>1 DEF Holder
  <2>3. ASSUME NEW x \in Small, NEW y \in Small, kept'[x] = kept'[y],
               kept'[x] \in SmallId
        PROVE  x = y
    BY <1>2, <2>1, <2>3 DEF Owned, Holder
  <2> QED
    BY <1>1, <2>2, <2>3 DEF Owned
<1> QED
  BY <1>1, <1>3, <1>4 DEF IInv
-----------------------------------------------------------------------------
\* The types of the anys, and one owner for each value, at first.
LEMMA InvInit == Distinct /\ AnyInit => IInv
BY DEF AnyInit, IInv, AnyTypeOK, Owned, SmallValue, LargeValue, Holder, Distinct

\* No operation on an any disturbs them.
LEMMA InvNext == Distinct /\ IInv /\ [AnyNext]_anyVars => IInv'
<1> SUFFICES ASSUME Distinct, IInv, [AnyNext]_anyVars PROVE IInv'
  OBVIOUS
<1>1. ASSUME NEW h \in Holder \ Alive,
             Construct(h) \/ ConstructFromValue(h)
      PROVE  IInv'
  <2>1. h \in Holder /\ Destroyed(h) = {}
    BY NothingToDestroy
  <2> QED
    BY <1>1, <2>1, EmptyStep, StoreStep DEF Construct, ConstructFromValue
<1>2. ASSUME NEW h \in Holder \ Alive, NEW from \in Alive, Alike(h, from),
             \/ CopyConstruct(h, from) \/ MoveConstruct(h, from)
             \/ Steal(h, from)
      PROVE  IInv'
  <2>1. h \in Holder /\ from \in Holder /\ Destroyed(h) = {}
    BY NothingToDestroy DEF Alive
  <2>2. CASE CopyConstruct(h, from)
    BY <1>2, <2>1, <2>2, CopyStep DEF CopyConstruct
  <2>3. CASE MoveConstruct(h, from)
    BY <1>2, <2>1, <2>3, MoveStep DEF MoveConstruct
  <2> QED
    BY <1>2, <2>1, <2>2, <2>3, StealStep
<1>3. ASSUME NEW h \in Alive,
             \/ AssignValue(h) \/ AssignOwnValue(h) \/ Emplace(h)
             \/ Reset(h) \/ Destroy(h)
      PROVE  IInv'
  <2>1. h \in Holder
    BY DEF Alive
  <2>2. CASE AssignValue(h) \/ Emplace(h)
    BY <2>1, <2>2, StoreStep DEF AssignValue, Emplace
  <2>3. CASE Reset(h) \/ Destroy(h)
    BY <2>1, <2>3, EmptyStep DEF Reset, Destroy
  <2> QED
    BY <1>3, <2>1, <2>2, <2>3, OwnValueStep
<1>4. ASSUME NEW h \in Alive, NEW from \in Alive, Alike(h, from),
             CopyAssign(h, from) \/ MoveAssign(h, from) \/ Swap(h, from)
      PROVE  IInv'
  <2>1. h \in Holder /\ from \in Holder
    BY DEF Alive
  <2>2. CASE CopyAssign(h, from)
    BY <1>4, <2>1, <2>2, CopyStep DEF CopyAssign
  <2>3. CASE MoveAssign(h, from)
    BY <1>4, <2>1, <2>3, MoveStep DEF MoveAssign
  <2> QED
    BY <1>4, <2>1, <2>2, <2>3, SwapStep
<1>5. CASE UNCHANGED anyVars
  BY <1>5 DEF anyVars, IInv, AnyTypeOK, Owned
<1> QED
  BY <1>1, <1>2, <1>3, <1>4, <1>5 DEF AnyNext

\* Until the bytes of a value are copied (98) or a variable is assigned its own
\* value (241), every value has one owner and is destroyed once.
THEOREM ValuesAreOwned == AnySpec => []OwnedByOne
<1>1. AnyInit => IInv
  BY InvInit, AnyAssumption
<1>2. IInv /\ [AnyNext]_anyVars => IInv'
  BY InvNext, AnyAssumption
<1>3. IInv => OwnedByOne
  BY DEF IInv, Owned, OwnedByOne
<1> QED
  BY <1>1, <1>2, <1>3, PTL DEF AnySpec
-----------------------------------------------------------------------------
(* Who gives up a value *)

\* What some large variable owns is reached.
LEMMA OwnedIsReached ==
  ASSUME NEW h \in Large, kept[h] \in LargeId
  PROVE  kept[h] \in Reached(kept)
BY DEF Reached

\* The operations in which a variable gives up its value.
GivesUp(h) ==
  \/ AssignValue(h) \/ AssignOwnValue(h) \/ Emplace(h)
  \/ Reset(h) \/ Destroy(h)
  \/ \E k \in Holder :
       \/ CopyAssign(h, k) \/ MoveAssign(h, k) \/ Swap(h, k)
       \/ /\ kept'[h] = Null
          /\ \/ MoveConstruct(k, h) \/ MoveAssign(k, h)
             \/ Steal(k, h) /\ kept'[k] # kept[h]

\* Every operation that changes what a variable has is one of them.
LEMMA ChangedIsGivenUp ==
  ASSUME IInv, AnyNext, NEW h \in Holder,
         kept[h] \notin {Null, Gone}, kept'[h] # kept[h]
  PROVE  GivesUp(h)
<1>0. h \in Alive /\ Distinct
  BY AnyAssumption DEF Alive
<1>1. \A x \in Holder : (\E value : kept' = Keeps(x, value)) => x = h
  BY DEF Keeps, IInv, AnyTypeOK
<1>2. ASSUME NEW x \in Holder \ Alive, Construct(x) \/ ConstructFromValue(x)
      PROVE  FALSE
  <2>1. \E value : kept' = Keeps(x, value)
    BY <1>2 DEF Construct, ConstructFromValue, Store, Become
  <2> QED
    BY <1>0, <1>1, <2>1
<1>3. ASSUME NEW x \in Holder \ Alive, NEW from \in Alive, Alike(x, from),
             \/ CopyConstruct(x, from) \/ MoveConstruct(x, from)
             \/ Steal(x, from)
      PROVE  GivesUp(h)
  <2>1. x # h /\ x # from /\ from \in Holder
    BY <1>0 DEF Alive
  <2>2. CASE CopyConstruct(x, from)
    <3>1. kept' = Keeps(x, kept[from])
      BY <2>2 DEF CopyConstruct, Copied, Become
    <3> QED
      BY <1>1, <2>1, <3>1
  <2>3. CASE MoveConstruct(x, from)
    <3>1. kept' = [kept EXCEPT ![x] = kept[from], ![from] = Null]
      BY <2>1, <2>3 DEF MoveConstruct, Moved, Become
    <3>2. h = from /\ kept'[h] = Null
      BY <2>1, <3>1 DEF IInv, AnyTypeOK
    <3> QED
      BY <2>3, <3>2 DEF GivesUp
  <2>4. CASE Steal(x, from)
    <3>1. PICK i \in LargeId \ Reached(kept) :
            kept' = [kept EXCEPT ![x] = i, ![from] = Null]
      BY <2>4 DEF Steal
    <3>2. h = from /\ kept'[h] = Null /\ kept'[x] = i
      BY <2>1, <3>1 DEF IInv, AnyTypeOK
    <3>3. h \in Large /\ kept[h] \in LargeId
      BY <1>0, <1>3, <2>4, <3>2
         DEF Steal, Alike, Holder, Distinct, IInv, AnyTypeOK, LargeValue
    <3>4. kept'[x] # kept[h]
      BY <3>1, <3>2, <3>3, OwnedIsReached
    <3> QED
      BY <2>4, <3>2, <3>4 DEF GivesUp
  <2> QED
    BY <1>3, <2>2, <2>3, <2>4
<1>4. ASSUME NEW x \in Alive,
             \/ AssignValue(x) \/ AssignOwnValue(x) \/ Emplace(x)
             \/ Reset(x) \/ Destroy(x)
      PROVE  GivesUp(h)
  <2>1. x \in Holder /\ \E value : kept' = Keeps(x, value)
    BY <1>4 DEF AssignValue, AssignOwnValue, Emplace, Reset, Destroy, Store,
       Become, Alive
  <2>2. x = h
    BY <1>1, <2>1
  <2> QED
    BY <1>4, <2>2 DEF GivesUp
<1>5. ASSUME NEW x \in Alive, NEW from \in Alive, CopyAssign(x, from)
      PROVE  GivesUp(h)
  <2>1. x \in Holder /\ from \in Holder /\ kept' = Keeps(x, kept[from])
    BY <1>5 DEF CopyAssign, Copied, Become, Alive
  <2>2. x = h
    BY <1>1, <2>1
  <2> QED
    BY <1>5, <2>1, <2>2 DEF GivesUp
<1>6. ASSUME NEW x \in Alive, NEW from \in Alive, MoveAssign(x, from)
      PROVE  GivesUp(h)
  <2>1. x \in Holder /\ from \in Holder /\ kept' = Moved(x, from)
    BY <1>6 DEF MoveAssign, Become, Alive
  <2>2. CASE h = x
    BY <1>6, <2>1, <2>2 DEF GivesUp
  <2>3. CASE h # x
    <3>1. h = from /\ kept'[h] = Null
      BY <2>1, <2>3 DEF Moved, Keeps, IInv, AnyTypeOK
    <3> QED
      BY <1>6, <2>1, <3>1 DEF GivesUp
  <2> QED
    BY <2>2, <2>3
<1>7. ASSUME NEW x \in Alive, NEW from \in Alive, Swap(x, from)
      PROVE  GivesUp(h)
  <2>1. /\ x \in Holder /\ from \in Holder
        /\ kept' = [kept EXCEPT ![x] = kept[from], ![from] = kept[x]]
    BY <1>7 DEF Swap, Become, Alive
  <2>2. CASE h = x
    BY <1>7, <2>1, <2>2 DEF GivesUp
  <2>3. CASE h # x
    <3>1. h = from
      BY <2>1, <2>3 DEF IInv, AnyTypeOK
    <3>2. Swap(from, x)
      <4>1. [kept EXCEPT ![x] = kept[from], ![from] = kept[x]]
              = [kept EXCEPT ![from] = kept[x], ![x] = kept[from]]
        BY <2>1, <2>3, <3>1 DEF IInv, AnyTypeOK
      <4> QED
        BY <1>7, <4>1 DEF Swap
    <3> QED
      BY <2>1, <3>1, <3>2 DEF GivesUp
  <2> QED
    BY <2>2, <2>3
<1> QED
  BY <1>2, <1>3, <1>4, <1>5, <1>6, <1>7 DEF AnyNext

\* A variable keeps its value while others are built and assigned, unless it is
\* moved away, also by what reads like the copy of an any<0> (223).
THEOREM ValuesStay == AnySpec => KeptUntilMoved
<1>1. AnyInit => IInv
  BY InvInit, AnyAssumption
<1>2. IInv /\ [AnyNext]_anyVars => IInv'
  BY InvNext, AnyAssumption
<1>3. IInv /\ [AnyNext]_anyVars =>
        [\A h \in Holder :
           kept[h] \notin {Null, Gone} /\ kept'[h] # kept[h] => GivesUp(h)
        ]_anyVars
  BY ChangedIsGivenUp
<1> QED
  BY <1>1, <1>2, <1>3, PTL DEF AnySpec, KeptUntilMoved, GivesUp
-----------------------------------------------------------------------------
(* The code of a variant *)

VariantSpec == VariantInit /\ [][VariantNext]_variantVars

VariantTypeOK ==
  /\ code \in [Variants -> Type \cup {Void, Dead}]
  /\ stored \in [Variants -> Type \cup {Void, Mixed}]

\* What a call does to the variant it is for; the other ones stay.
LEMMA SetsIs ==
  ASSUME VariantTypeOK, NEW v \in Variants, NEW c, NEW object, NEW how,
         Sets(v, c, object, how)
  PROVE  /\ code'[v] = c /\ stored'[v] = object /\ outcome' = how
         /\ \A u \in Variants \ {v} :
              code'[u] = code[u] /\ stored'[u] = stored[u]
         /\ c \in Type \cup {Void, Dead} /\ object \in Type \cup {Void, Mixed}
              => VariantTypeOK'
BY DEF Sets, VariantTypeOK

\* A variant that stays as it is is not mixed up and is given nothing.
LEMMA StaysRight ==
  ASSUME NEW v \in Variants, code'[v] = code[v], stored'[v] = stored[v]
  PROVE  MixedUp(v) /\ GivenAValue(v)
BY VariantAssumption DEF MixedUp, GivenAValue, TellsTheType

\* A call that leaves its variant empty, or with an object of its code's type.
LEMMA EndsRight ==
  ASSUME NEW v \in Variants,
         code'[v] \in Type => stored'[v] = code'[v] /\ code[v] = code'[v]
  PROVE  MixedUp(v) /\ GivenAValue(v)
BY VariantAssumption DEF MixedUp, GivenAValue, TellsTheType

\* An object that throws when it is built over the old one leaves the code.
LEMMA ThrowsOver ==
  ASSUME NEW v \in Variants, VariantTypeOK,
         NEW how \in {"throws", "terminates"},
         Sets(v, code[v], Void, how)
  PROVE  MixedUp(v) /\ GivenAValue(v)
<1>1. code'[v] = code[v] /\ stored'[v] = Void /\ outcome' = how
  BY SetsIs
<1> QED
  BY <1>1, VariantAssumption DEF MixedUp, GivenAValue

\* A value, or an object in place of the old one.
LEMMA ValueSets ==
  ASSUME NEW v \in Variants, NEW type \in Type, VariantTypeOK,
         Sets(v, type, type, "returns"),
         \/ VariantConstructFromValue(v, type) \/ ValueAssign(v, type)
         \/ VariantEmplace(v, type)
  PROVE  MixedUp(v) /\ GivenAValue(v)
<1>1. code'[v] = type /\ stored'[v] = type
  BY SetsIs
<1> QED
  BY <1>1 DEF MixedUp, GivenAValue, TellsTheType

\* A destructor that does not fit ends the behaviour where it is.
LEMMA WrongDestroy ==
  ASSUME NEW v \in Variants, VariantTypeOK,
         Sets(v, code[v], stored[v], "undefined")
  PROVE  MixedUp(v) /\ GivenAValue(v)
<1>1. code'[v] = code[v] /\ stored'[v] = stored[v]
  BY SetsIs
<1> QED
  BY <1>1, StaysRight

\* An assignment from a variant of the same type that has an object of it is
\* right; from any other it is in the list.
LEMMA AssignSets ==
  ASSUME NEW v \in AliveVariants, NEW from \in AliveVariants, VariantTypeOK,
         code[v] # Void, NEW memory,
         v = from \/ memory = stored[from],
         Sets(v, code[from], Built(code[v], memory), "returns"),
         VariantCopyAssign(v, from) \/ VariantMoveAssign(v, from)
  PROVE  MixedUp(v) /\ GivenAValue(v)
<1>1. v \in Variants /\ from \in Variants /\ code[v] \in Type
  BY DEF AliveVariants, VariantTypeOK
<1>2. code'[v] = code[from] /\ stored'[v] = Built(code[v], memory)
  BY <1>1, SetsIs
<1>3. GivenAValue(v)
  BY <1>1, VariantAssumption DEF GivenAValue
<1>4. CASE v = from \/ code[from] # code[v] \/ ~ TellsTheType(from)
  BY <1>3, <1>4 DEF MixedUp
<1>5. CASE v # from /\ code[from] = code[v] /\ TellsTheType(from)
  <2>1. memory = code[v]
    BY <1>1, <1>5 DEF TellsTheType
  <2>2. stored'[v] = code'[v]
    BY <1>2, <1>5, <2>1 DEF Built
  <2> QED
    BY <1>3, <2>2 DEF MixedUp, TellsTheType
<1> QED
  BY <1>4, <1>5

\* A call for variant u keeps the types, leaves the others as they are, and is
\* right about what it does to u.
Right(u) == /\ VariantTypeOK'
            /\ \A v \in Variants \ {u} :
                 code'[v] = code[v] /\ stored'[v] = stored[v]
            /\ MixedUp(u) /\ GivenAValue(u)

\* It is enough that the new code and object are of their types.
LEMMA RightSets ==
  ASSUME VariantTypeOK, NEW u \in Variants,
         NEW c \in Type \cup {Void, Dead},
         NEW object \in Type \cup {Void, Mixed},
         NEW how, Sets(u, c, object, how), MixedUp(u) /\ GivenAValue(u)
  PROVE  Right(u)
BY SetsIs DEF Right

\* The calls that destroy the old object first.
LEMMA DestroyFirst ==
  ASSUME VariantTypeOK, NEW u \in Variants, DestroysWrongly(u),
         Sets(u, code[u], stored[u], "undefined")
  PROVE  Right(u)
<1>1. /\ code[u] \in Type \cup {Void, Dead}
      /\ stored[u] \in Type \cup {Void, Mixed}
  BY DEF VariantTypeOK
<1> QED
  BY <1>1, WrongDestroy, RightSets

\* An operation that throws leaves a code that tells the type, or the code
\* of the destroyed object.
LEMMA ThrowIsRight ==
  ASSUME VariantTypeOK, NEW u \in Variants,
         NEW how \in {"throws", "terminates"}, Sets(u, code[u], Void, how)
  PROVE  Right(u)
<1>1. code[u] \in Type \cup {Void, Dead}
  BY DEF VariantTypeOK
<1> QED
  BY <1>1, ThrowsOver, RightSets

\* So does one that is given a value.
LEMMA ValueIsRight ==
  ASSUME VariantTypeOK, NEW u \in Variants, NEW type \in Type,
         Sets(u, type, type, "returns"),
         \/ VariantConstructFromValue(u, type) \/ ValueAssign(u, type)
         \/ VariantEmplace(u, type)
  PROVE  Right(u)
BY ValueSets, RightSets

\* So does an assignment, but for the one between two types.
LEMMA AssignIsRight ==
  ASSUME VariantTypeOK, NEW u \in AliveVariants, NEW from \in AliveVariants,
         VariantCopyAssign(u, from) \/ VariantMoveAssign(u, from)
  PROVE  Right(u)
<1>1. /\ u \in Variants /\ from \in Variants /\ LookedUp(u, from) = code[u]
      /\ code[from] \in Type \cup {Void, Dead}
      /\ code[u] \in Type \cup {Void}
  BY DEF AliveVariants, LookedUp, VariantTypeOK
<1>2. CASE DestroysWrongly(u)
  <2>1. Sets(u, code[u], stored[u], "undefined")
    BY <1>2 DEF VariantCopyAssign, VariantMoveAssign, Destroying
  <2> QED
    BY <1>1, <1>2, <2>1, DestroyFirst
<1>3. ASSUME NEW how \in {"throws", "terminates"}, Sets(u, code[u], Void, how)
      PROVE  Right(u)
  BY <1>1, <1>3, ThrowIsRight
<1>4. ASSUME code[u] # Void, NEW memory, u = from \/ memory = stored[from],
             Sets(u, code[from], Built(code[u], memory), "returns")
      PROVE  Right(u)
  <2>1. MixedUp(u) /\ GivenAValue(u)
    BY <1>4, AssignSets
  <2>2. Built(code[u], memory) \in Type \cup {Void, Mixed}
    BY <1>1 DEF Built
  <2> QED
    BY <1>1, <1>4, <2>1, <2>2, RightSets
<1>5. CASE ~ DestroysWrongly(u) /\ VariantCopyAssign(u, from)
  <2>1. \/ Sets(u, code[u], Void, "throws")
        \/ /\ code[u] # Void
           /\ Sets(u, code[from], Built(code[u], stored[from]), "returns")
    BY <1>1, <1>5 DEF VariantCopyAssign, Destroying
  <2> QED
    BY <1>3, <1>4, <2>1
<1>6. CASE ~ DestroysWrongly(u) /\ VariantMoveAssign(u, from)
  <2>1. \/ Sets(u, code[u], Void, "terminates")
        \/ \E memory : /\ code[u] # Void /\ (u = from \/ memory = stored[from])
                       /\ Sets(u, code[from], Built(code[u], memory), "returns")
    BY <1>1, <1>6 DEF VariantMoveAssign, Destroying
  <2> QED
    BY <1>3, <1>4, <2>1
<1> QED
  BY <1>2, <1>5, <1>6

\* Every call is right about the variant it is for.
LEMMA CallIsRight ==
  ASSUME VariantTypeOK, VariantNext
  PROVE  \/ \E u \in Variants : Right(u)
         \/ UNCHANGED <<code, stored>>
<1>0. AliveVariants \subseteq Variants
  BY DEF AliveVariants
<1>1. ASSUME NEW u \in Variants, VariantConstruct(u) PROVE Right(u)
  <2>1. Sets(u, Void, Void, "returns")
    BY <1>1 DEF VariantConstruct
  <2>2. code'[u] \notin Type
    BY <2>1, SetsIs, VariantAssumption
  <2> QED
    BY <2>1, <2>2, EndsRight, RightSets
<1>2. ASSUME NEW u \in Variants, NEW type \in Type,
             VariantConstructFromValue(u, type)
      PROVE  Right(u)
  BY <1>2, ValueIsRight DEF VariantConstructFromValue
<1>3. ASSUME NEW u \in Variants, NEW from \in AliveVariants,
             ConstructFrom(u, from)
      PROVE  Right(u)
  <2>1. Sets(u, Dead, Void, "throws")
    BY <1>3 DEF ConstructFrom, LookedUp
  <2>2. code'[u] \notin Type
    BY <2>1, SetsIs, VariantAssumption
  <2> QED
    BY <2>1, <2>2, EndsRight, RightSets
<1>4. ASSUME NEW u \in AliveVariants, NEW type \in Type,
             ValueAssign(u, type) \/ VariantEmplace(u, type)
      PROVE  Right(u)
  <2>1. \/ DestroysWrongly(u) /\ Sets(u, code[u], stored[u], "undefined")
        \/ Sets(u, type, type, "returns")
        \/ \E how \in {"throws", "terminates"} : Sets(u, code[u], Void, how)
    BY <1>4 DEF ValueAssign, VariantEmplace, Emplaced, Destroying
  <2> QED
    BY <1>0, <1>4, <2>1, DestroyFirst, ThrowIsRight, ValueIsRight
<1>5. ASSUME NEW u \in AliveVariants, VariantDestroy(u) PROVE Right(u)
  <2>1. CASE DestroysWrongly(u)
    BY <1>0, <1>5, <2>1, DestroyFirst DEF VariantDestroy, Destroying
  <2>2. CASE ~ DestroysWrongly(u)
    <3>1. Sets(u, Dead, Void, "returns")
      BY <1>5, <2>2 DEF VariantDestroy, Destroying
    <3>2. code'[u] \notin Type
      BY <1>0, <3>1, SetsIs, VariantAssumption
    <3> QED
      BY <1>0, <3>1, <3>2, EndsRight, RightSets
  <2> QED
    BY <2>1, <2>2
<1>6. ASSUME NEW u \in AliveVariants, NEW type \in Type, As(u, type)
      PROVE  UNCHANGED <<code, stored>>
  BY <1>6 DEF As
<1> QED
  BY <1>0, <1>1, <1>2, <1>3, <1>4, <1>5, <1>6, AssignIsRight DEF VariantNext

\* The code of a variant is wrong about its object in the listed cases only
\* (138, 146, 147, 157, 167), and no copy gives an empty variant an object (113,
\* 121).
THEOREM CodeTellsTheType == VariantSpec => TellsTheTypeUntilMixed
<1>1. VariantInit => VariantTypeOK
  BY DEF VariantInit, VariantTypeOK
<1>2. ASSUME VariantTypeOK, [VariantNext]_variantVars
      PROVE  /\ VariantTypeOK'
             /\ \A v \in Variants : MixedUp(v) /\ GivenAValue(v)
  <2>1. CASE UNCHANGED <<code, stored>>
    BY <1>2, <2>1, StaysRight DEF VariantTypeOK
  <2>2. ASSUME NEW u \in Variants, Right(u)
        PROVE  /\ VariantTypeOK'
               /\ \A v \in Variants : MixedUp(v) /\ GivenAValue(v)
    BY <2>2, StaysRight DEF Right
  <2> QED
    BY <1>2, <2>1, <2>2, CallIsRight DEF variantVars
<1> QED
  BY <1>1, <1>2, PTL DEF VariantSpec, TellsTheTypeUntilMixed
-----------------------------------------------------------------------------
(* SharedPtr *)

State == [alive : SUBSET Owner, ptr : [Owner -> Obj \cup {Nullptr}],
          ref : [Owner -> Counter \cup {Nullptr}], count : [Counter -> Nat],
          broken : BOOLEAN]

OwnersOf(s, o) == {k \in Owner : s.ptr[k] = o}

\* D holds the owners that may still point although they are gone, and X the
\* objects that have no owner yet.
Sound(s, D, X) ==
  /\ s \in State
  /\ ~ s.broken
  /\ s.ref = s.ptr
  /\ \A k \in Owner : s.ptr[k] # Nullptr => k \in s.alive \cup D
  /\ \A k \in Owner : s.ptr[k] # Nullptr => s.ptr[k] \in s.alive
  /\ \A o \in Obj : s.count[o] = Cardinality(OwnersOf(s, o))
  /\ \A o \in Obj \cap s.alive : OwnersOf(s, o) = {} <=> o \in X

\* There are finitely many holders, and so owners of any object.
LEMMA OwnersFinite ==
  /\ IsFiniteSet(Owner) /\ Cardinality(Obj) \in Nat /\ IsFiniteSet(Obj)
  /\ \A s, o : IsFiniteSet(OwnersOf(s, o))
     /\ Cardinality(OwnersOf(s, o)) \in Nat
<1>1. IsFiniteSet(Owner)
  BY OwnerAssumption, FS_Union DEF Owner
<1> QED
  BY <1>1, OwnerAssumption, FS_Subset, FS_CardinalityType DEF OwnersOf

\* The steps of releaseCurrent() are the function that their equations define.
LEMMA StepTyped ==
  ASSUME NEW s \in State, NEW h \in Owner
  PROVE  ReleasedOne(s, h) \in [state : State, freed : Obj \cup {Nullptr}]
<1> DEFINE o == s.ptr[h]
           c == s.ref[h]
           less == [s EXCEPT !.count[c] = @ - 1]
           without == [s EXCEPT !.alive = @ \ {o}, !.count[c] = 0]
           bad == [s EXCEPT !.broken = TRUE]
<1>1. bad \in State /\ o \in Obj \cup {Nullptr}
  BY DEF State
<1>2. ASSUME c # Nullptr
      PROVE  without \in State /\ Invalidated(without, h) \in State
  BY <1>2 DEF State, Invalidated
<1>3. ASSUME c # Nullptr, s.count[c] # 0
      PROVE  less \in State /\ Invalidated(less, h) \in State
  <2>1. c \in Counter /\ s.count[c] - 1 \in Nat
    BY <1>3 DEF State
  <2> QED
    BY <2>1 DEF State, Invalidated
<1> QED
  BY <1>1, <1>2, <1>3 DEF ReleasedOne

\* What n releases leave is made from what n - 1 leave.
LEMMA ReleasesUnfolds ==
  ASSUME NEW s \in State, NEW h \in Owner
  PROVE  \A n \in 0..(Cardinality(Obj) + 1) :
           Releases(s, h)[n] =
             IF n = 0 THEN [state |-> s, freed |-> h]
             ELSE IF Releases(s, h)[n - 1].freed = Nullptr
               THEN Releases(s, h)[n - 1]
             ELSE ReleasedOne(Releases(s, h)[n - 1].state,
                              Releases(s, h)[n - 1].freed)
<1> DEFINE D == 0..(Cardinality(Obj) + 1)
           S == [state : State, freed : Owner \cup {Nullptr}]
           r == [n \in D |-> n]
           d == [n \in D |-> IF n = 0 THEN 0 ELSE n - 1]
           b == [n \in D |-> [state |-> s, freed |-> h]]
           g == [p \in S \X D |-> IF p[1].freed = Nullptr THEN p[1]
                                  ELSE ReleasedOne(p[1].state, p[1].freed)]
<1>1. r \in [D -> Nat] /\ d \in [D -> D] /\ b \in [D -> S]
  BY OwnersFinite
<1>2. g \in [S \X D -> S]
  <2>1. ASSUME NEW v \in S, v.freed # Nullptr
        PROVE  ReleasedOne(v.state, v.freed) \in S
    <3>1. ReleasedOne(v.state, v.freed)
            \in [state : State, freed : Obj \cup {Nullptr}]
      BY <2>1, StepTyped
    <3> QED
      BY <3>1 DEF Owner
  <2> QED
    BY <2>1
<1>3. \A x \in D : r[x] # 0 => r[d[x]] < r[x]
  BY OwnersFinite
<1> HIDE DEF S
<1>4. PICK f \in [D -> S] :
        \A x \in D : f[x] = IF r[x] = 0 THEN b[x] ELSE g[<<f[d[x]], x>>]
  <2> HIDE DEF D, r, d, b, g
  <2>1. Defined(D, S, r, d, b, g)
    BY <1>1, <1>2, <1>3, Recursion
  <2> QED
    BY <2>1 DEF Defined, Defines
<1>5. f = [n \in D |->
             IF n = 0 THEN [state |-> s, freed |-> h]
             ELSE IF f[n - 1].freed = Nullptr THEN f[n - 1]
             ELSE ReleasedOne(f[n - 1].state, f[n - 1].freed)]
  <2> SUFFICES ASSUME NEW n \in D
               PROVE  f[n] = IF n = 0 THEN [state |-> s, freed |-> h]
                             ELSE IF f[n - 1].freed = Nullptr THEN f[n - 1]
                             ELSE ReleasedOne(f[n - 1].state, f[n - 1].freed)
    BY <1>4
  <2>1. CASE n = 0
    BY <1>4, <2>1
  <2>2. CASE n # 0
    <3>1. n - 1 \in D /\ d[n] = n - 1 /\ r[n] # 0
      BY <2>2, OwnersFinite
    <3>2. f[n] = g[<<f[n - 1], n>>] /\ f[n - 1] \in S
      BY <1>4, <3>1
    <3> QED
      BY <3>2, <2>2
  <2> QED
    BY <2>1, <2>2
<1> HIDE DEF D
<1>6. Releases(s, h) = CHOOSE f_ : f_ =
        [n \in D |->
           IF n = 0 THEN [state |-> s, freed |-> h]
           ELSE IF f_[n - 1].freed = Nullptr THEN f_[n - 1]
           ELSE ReleasedOne(f_[n - 1].state, f_[n - 1].freed)]
  BY DEF Releases, D
<1>7. Releases(s, h) =
        [n \in D |->
           IF n = 0 THEN [state |-> s, freed |-> h]
           ELSE IF Releases(s, h)[n - 1].freed = Nullptr
             THEN Releases(s, h)[n - 1]
           ELSE ReleasedOne(Releases(s, h)[n - 1].state,
                            Releases(s, h)[n - 1].freed)]
  BY <1>5, <1>6, Zenon
<1> QED
  BY <1>7, Zenon DEF D

\* invalidate() (166) changes the two pointers of its holder only.
LEMMA InvalidatedFields ==
  ASSUME NEW s \in State, NEW h \in Owner
  PROVE  /\ Invalidated(s, h) \in State
         /\ Invalidated(s, h).alive = s.alive
         /\ Invalidated(s, h).count = s.count
         /\ Invalidated(s, h).broken = s.broken
         /\ Invalidated(s, h).ptr = [s.ptr EXCEPT ![h] = Nullptr]
         /\ Invalidated(s, h).ref = [s.ref EXCEPT ![h] = Nullptr]
  BY DEF Invalidated, State

\* The second of two calls of invalidate() changes nothing.
LEMMA InvalidatedTwice ==
  ASSUME NEW s \in State, NEW h \in Owner
  PROVE  Invalidated(Invalidated(s, h), h) = Invalidated(s, h)
  BY DEF Invalidated, State

\* Nor does a call for a holder that is empty already.
LEMMA InvalidatedAlready ==
  ASSUME NEW s \in State, NEW h \in Owner,
         s.ptr[h] = Nullptr, s.ref[h] = Nullptr
  PROVE  Invalidated(s, h) = s
  BY DEF Invalidated, State

\* An owner that is released and invalidated no longer counts; the object it
\* had goes when it was the only one, and its member is left to release.
LEMMA OneReleased ==
  ASSUME NEW s, NEW h \in Owner, NEW X, Sound(s, {h}, X)
  PROVE  LET r == ReleasedOne(s, h)
             t == Invalidated(r.state, h)
         IN  /\ Sound(t, {r.freed}, X)
             /\ h \notin s.alive => r.state = t
             /\ \A k \in Owner \ {h} : t.ptr[k] = s.ptr[k]
             /\ \/ r.freed = Nullptr /\ t.alive = s.alive
                \/ /\ r.state = t
                   /\ r.freed \in Obj \cap s.alive /\ r.freed \notin X
                   /\ t.alive = s.alive \ {r.freed}
             /\ s.ptr[h] = Nullptr => r.freed = Nullptr /\ r.state = s
<1> DEFINE o == s.ptr[h]
           r == ReleasedOne(s, h)
           t == Invalidated(r.state, h)
           less == [s EXCEPT !.count[o] = @ - 1]
           without == [s EXCEPT !.alive = @ \ {o}, !.count[o] = 0]
<1>1. /\ s \in State /\ s.ref = s.ptr /\ ~ s.broken
      /\ o \in Obj \cup {Nullptr} /\ h \in Owner
  BY DEF Sound, State
<1>2. CASE o = Nullptr
  <2>1. r.state = s /\ r.freed = Nullptr
    BY <1>1, <1>2 DEF ReleasedOne
  <2>2. t = s
    BY <1>1, <1>2, <2>1 DEF State, Invalidated
  <2>3. Sound(t, {Nullptr}, X)
    BY <1>2, <2>2, OwnerAssumption DEF Sound, Owner
  <2> QED
    BY <2>1, <2>2, <2>3
<1>3. CASE o # Nullptr
  <2>1. /\ o \in Obj /\ o \in s.alive /\ h \in OwnersOf(s, o)
        /\ s.count[o] = Cardinality(OwnersOf(s, o))
        /\ o \notin X
    BY <1>1, <1>3 DEF Sound, OwnersOf
  <2>2. s.count[o] \in Nat /\ s.count[o] # 0
    BY <2>1, OwnersFinite, FS_EmptySet
  <2>3. ASSUME NEW u, u.ptr = [s.ptr EXCEPT ![h] = Nullptr]
        PROVE  /\ OwnersOf(u, o) = OwnersOf(s, o) \ {h}
               /\ \A x \in Obj \ {o} : OwnersOf(u, x) = OwnersOf(s, x)
               /\ Cardinality(OwnersOf(u, o)) = s.count[o] - 1
    <3>1. /\ OwnersOf(u, o) = OwnersOf(s, o) \ {h}
          /\ \A x \in Obj \ {o} : OwnersOf(u, x) = OwnersOf(s, x)
      BY <2>3, <1>1, <1>3, OwnerAssumption DEF OwnersOf, State
    <3> QED
      <4>1. Cardinality(OwnersOf(s, o) \ {h}) = Cardinality(OwnersOf(s, o)) - 1
        BY <2>1, OwnersFinite, FS_RemoveElement
      <4> QED
        BY <4>1, <3>1, <2>1
  <2>4. CASE s.count[o] # 1
    <3>1. r = [state |-> IF h \in s.alive THEN less ELSE Invalidated(less, h),
               freed |-> Nullptr]
      BY <1>1, <1>3, <2>2, <2>4 DEF ReleasedOne, LastOwner
    <3>9. /\ less \in State
          /\ less.alive = s.alive /\ less.ptr = s.ptr /\ less.ref = s.ref
          /\ less.count = [s.count EXCEPT ![o] = @ - 1]
          /\ less.broken = s.broken
      BY <1>1, <2>1, <2>2 DEF State, Counter
    <3>10. t = Invalidated(less, h) /\ (h \notin s.alive => r.state = t)
      <4> HIDE DEF less
      <4> QED
        BY <1>1, <3>1, <3>9, InvalidatedTwice
    <3>2. /\ t.alive = s.alive
          /\ t.ptr = [s.ptr EXCEPT ![h] = Nullptr]
          /\ t.ref = t.ptr
          /\ t.count = [s.count EXCEPT ![o] = @ - 1]
          /\ ~ t.broken
          /\ t \in State
      <4> HIDE DEF less, t
      <4> QED
        BY <1>1, <3>9, <3>10, InvalidatedFields
    <3>3. h \notin s.alive => r.state = t
      BY <3>10
    <3>4. OwnersOf(t, o) # {}
      BY <2>2, <2>3, <2>4, <3>2, FS_EmptySet
    <3>5. \A x \in Obj : t.count[x] = Cardinality(OwnersOf(t, x))
      BY <1>1, <2>1, <2>2, <2>3, <3>2 DEF Sound, State, Counter
    <3>6. \A x \in Obj \cap t.alive : OwnersOf(t, x) = {} <=> x \in X
      BY <2>1, <2>3, <3>2, <3>4 DEF Sound
    <3>7. \A k \in Owner : t.ptr[k] # Nullptr =>
            k \in t.alive \cup {Nullptr} /\ t.ptr[k] \in t.alive
      BY <1>1, <3>2 DEF Sound, State
    <3>8. Sound(t, {Nullptr}, X)
      BY <3>2, <3>5, <3>6, <3>7 DEF Sound
    <3>11. r.freed = Nullptr
      BY <3>1
    <3> HIDE DEF less
    <3> QED
      BY <1>1, <1>3, <3>2, <3>3, <3>8, <3>11 DEF State
  <2>5. CASE s.count[o] = 1
    <3>1. r = [state |-> Invalidated(without, h), freed |-> o]
      BY <1>1, <1>3, <2>1, <2>5 DEF ReleasedOne, LastOwner
    <3>9. /\ without \in State
          /\ without.alive = s.alive \ {o}
          /\ without.ptr = s.ptr /\ without.ref = s.ref
          /\ without.count = [s.count EXCEPT ![o] = 0]
          /\ without.broken = s.broken
      BY <1>1, <2>1 DEF State, Counter
    <3>2. /\ t.alive = s.alive \ {o}
          /\ t.ptr = [s.ptr EXCEPT ![h] = Nullptr]
          /\ t.ref = t.ptr
          /\ t.count = [s.count EXCEPT ![o] = 0]
          /\ ~ t.broken
          /\ t \in State
          /\ t = r.state
      <4>1. r.state = Invalidated(without, h)
        BY <3>1
      <4> HIDE DEF without, r
      <4>2. t = Invalidated(without, h)
        BY <4>1, <3>9, <1>1, InvalidatedTwice
      <4> HIDE DEF t
      <4>3. t = r.state
        BY <4>1, <4>2
      <4>i. /\ without \in State /\ h \in Owner
            /\ without.ptr = s.ptr /\ without.ref = s.ref
        BY <1>1, <3>9
      <4>j. t.ptr = [without.ptr EXCEPT ![h] = Nullptr]
        BY <4>2, <4>i, InvalidatedFields
      <4>k. t \in State
        BY <4>2, <4>i, InvalidatedFields
      <4>a. t.ptr = [s.ptr EXCEPT ![h] = Nullptr] /\ t \in State
        BY <4>i, <4>j, <4>k
      <4>b. t.ref = [s.ref EXCEPT ![h] = Nullptr]
        BY <1>1, <3>9, <4>2, InvalidatedFields
      <4>4. /\ t.ptr = [s.ptr EXCEPT ![h] = Nullptr]
            /\ t.ref = t.ptr
            /\ t \in State
        BY <1>1, <4>a, <4>b
      <4>5. /\ t.alive = s.alive \ {o}
            /\ t.count = [s.count EXCEPT ![o] = 0]
            /\ ~ t.broken
        BY <1>1, <3>9, <4>2, InvalidatedFields
      <4> QED
        BY <4>3, <4>4, <4>5
    <3>4. OwnersOf(t, o) = {}
      BY <2>3, <2>5, <3>2, OwnersFinite, FS_EmptySet
    <3>5. \A x \in Obj : t.count[x] = Cardinality(OwnersOf(t, x))
      BY <1>1, <2>1, <2>2, <2>3, <2>5, <3>2 DEF Sound, State, Counter
    <3>6. \A x \in Obj \cap t.alive : OwnersOf(t, x) = {} <=> x \in X
      BY <2>1, <2>3, <3>2, <3>4 DEF Sound
    <3>7. \A k \in Owner : t.ptr[k] # Nullptr =>
            k \in t.alive \cup {o} /\ t.ptr[k] \in t.alive
      BY <1>1, <3>2, <3>4 DEF Sound, State, OwnersOf
    <3>8. Sound(t, {o}, X)
      BY <3>2, <3>5, <3>6, <3>7 DEF Sound
    <3>10. r.freed = o
      BY <3>1
    <3> HIDE DEF without
    <3> QED
      BY <1>1, <1>3, <2>1, <3>2, <3>8, <3>10 DEF State
  <2> QED
    BY <2>4, <2>5
<1> QED
  BY <1>1, <1>2, <1>3 DEF State

\* All of it: what is left is in order but for the owner itself, which has no
\* object once it is invalidated; only objects go, and never one that has none.
LEMMA AllReleased ==
  ASSUME NEW s, NEW h \in s.alive, NEW X, Sound(s, {}, X)
  PROVE  LET last == Releases(s, h)[Cardinality(Obj) + 1].state
             t == Invalidated(last, h)
         IN  /\ Sound(t, {}, X)
             /\ last \in State
             /\ t.alive \subseteq s.alive
             /\ s.alive \ t.alive \subseteq Obj \ X
             /\ \A k \in t.alive \ {h} : t.ptr[k] = s.ptr[k]
             /\ s.ptr[h] = Nullptr => last = s
<1> DEFINE N == Cardinality(Obj) + 1
           a(n) == Releases(s, h)[n]
           Left(n) == Obj \cap a(n).state.alive
           \* Before the end, and at the end.
           Going(n) ==
             /\ a(n).freed \in Owner
             /\ Sound(a(n).state, {a(n).freed}, X)
             /\ Cardinality(Left(n)) + n <= Cardinality(Obj)
             /\ IF n = 0 THEN a(n).freed = h /\ a(n).state = s
                ELSE /\ a(n).freed \notin a(n).state.alive
                     /\ a(n).state.ptr[h] = Nullptr
                     /\ s.ptr[h] # Nullptr
             /\ \A k \in Owner \ {h} :
                  k \in a(n).state.alive => a(n).state.ptr[k] = s.ptr[k]
           Over(n) ==
             LET t == Invalidated(a(n).state, h)
             IN  /\ a(n).freed = Nullptr
                 /\ Sound(t, {}, X)
                 /\ \A k \in Owner \ {h} :
                      k \in t.alive => t.ptr[k] = s.ptr[k]
                 /\ s.ptr[h] = Nullptr => a(n).state = s
           I(n) == /\ a(n).state \in State
                   /\ a(n).state.alive \subseteq s.alive
                   /\ s.alive \ a(n).state.alive \subseteq Obj \ X
                   /\ Going(n) \/ Over(n)
           T == {n \in Nat : n <= N => I(n)}
<1>1. s \in State /\ h \in Owner /\ Cardinality(Obj) \in Nat /\ IsFiniteSet(Obj)
  BY OwnersFinite DEF Sound, State
<1>2. \A n \in 0..N :
        a(n) = IF n = 0 THEN [state |-> s, freed |-> h]
               ELSE IF a(n - 1).freed = Nullptr THEN a(n - 1)
               ELSE ReleasedOne(a(n - 1).state, a(n - 1).freed)
  BY <1>1, ReleasesUnfolds
<1>3. 0 \in T
  <2>1. a(0) = [state |-> s, freed |-> h]
    BY <1>1, <1>2
  <2>2. Sound(s, {h}, X)
    BY DEF Sound
  <2>3. Cardinality(Obj \cap s.alive) <= Cardinality(Obj)
    BY <1>1, FS_Subset
  <2>4. Cardinality(Obj \cap s.alive) \in Nat
    BY <1>1, FS_Subset, FS_CardinalityType
  <2>5. a(0).state = s /\ a(0).freed = h
    BY <2>1
  <2>6. Going(0)
    <3> HIDE DEF a
    <3> QED
      BY <1>1, <2>2, <2>3, <2>4, <2>5
  <2>7. I(0)
    <3> HIDE DEF a, Going
    <3> QED
      BY <1>1, <2>5, <2>6
  <2> HIDE DEF I
  <2> QED
    BY <2>7
<1>4. ASSUME NEW n \in T PROVE n + 1 \in T
  <2> SUFFICES ASSUME n + 1 <= N PROVE I(n + 1)
    OBVIOUS
  <2>1. I(n) /\ n \in 0..N /\ n + 1 \in 0..N /\ n + 1 # 0 /\ (n + 1) - 1 = n
    BY <1>1
  <2>2. a(n + 1) = IF a(n).freed = Nullptr THEN a(n)
                   ELSE ReleasedOne(a(n).state, a(n).freed)
    <3> HIDE DEF N, a
    <3> QED
      BY <1>2, <2>1, SMTT(20)
  <2>3. CASE Over(n)
    BY <2>1, <2>2, <2>3
  <2>4. CASE Going(n)
    <3> DEFINE st == a(n).state
               x == a(n).freed
               r == ReleasedOne(st, x)
               t == Invalidated(r.state, x)
    <3>1. x \in Owner /\ x # Nullptr /\ st \in State /\ Sound(st, {x}, X)
      BY <2>1, <2>4, OwnerAssumption DEF Owner
    <3>2. a(n + 1) = r
      BY <2>2, <3>1
    <3>3. /\ Sound(t, {r.freed}, X)
          /\ x \notin st.alive => r.state = t
          /\ \A k \in Owner \ {x} : t.ptr[k] = st.ptr[k]
          /\ \/ r.freed = Nullptr /\ t.alive = st.alive
             \/ /\ r.state = t
                /\ r.freed \in Obj \cap st.alive /\ r.freed \notin X
                /\ t.alive = st.alive \ {r.freed}
          /\ st.ptr[x] = Nullptr => r.freed = Nullptr /\ r.state = st
      <4> HIDE DEF st, x
      <4> QED
        BY <3>1, OneReleased
    <3>4. r.state \in State /\ r.state.alive = t.alive
      <4> HIDE DEF st, x
      <4>1. r.state \in State
        BY <3>1, StepTyped
      <4> QED
        BY <3>1, <4>1, InvalidatedFields
    <3>5. \A k \in Owner \ {h} : k \in t.alive => t.ptr[k] = s.ptr[k]
      <4> HIDE DEF t
      <4> QED
        BY <2>4, <3>1, <3>3, SMTT(20)
    <3>6. CASE r.freed = Nullptr
      <4>1. Sound(t, {}, X) /\ t.alive = st.alive
        BY <3>3, <3>6, OwnerAssumption, ZenonT(20) DEF Sound, Owner
      <4>2. CASE n = 0
        <5>1. x = h /\ st = s
          BY <2>4, <4>2
        <5> QED
          BY <2>1, <3>2, <3>3, <3>4, <3>5, <3>6, <4>1, <5>1
      <4>3. CASE n # 0
        <5>1. r.state = t /\ st.ptr[h] = Nullptr /\ s.ptr[h] # Nullptr
          BY <2>4, <3>3, <4>3, ZenonT(20)
        <5>2. t.ptr[h] = Nullptr /\ t.ref = t.ptr /\ t \in State
          <6> HIDE DEF t, st, x
          <6>1. CASE x = h
            BY <3>1, <3>3, <5>1, <6>1 DEF Sound
          <6>2. CASE x # h
            BY <1>1, <3>3, <5>1, <6>2 DEF Sound
          <6> QED
            BY <6>1, <6>2
        <5>3. Invalidated(r.state, h) = t
          <6> HIDE DEF t, r
          <6> QED
            BY <1>1, <5>1, <5>2, InvalidatedAlready
        <5> QED
          BY <2>1, <3>2, <3>4, <3>5, <3>6, <4>1, <5>1, <5>3, ZenonT(20)
      <4> QED
        BY <4>2, <4>3
    <3>7. CASE r.freed # Nullptr
      <4>1. /\ r.state = t
            /\ r.freed \in Obj \cap st.alive /\ r.freed \notin X
            /\ t.alive = st.alive \ {r.freed}
        BY <3>3, <3>7, ZenonT(20)
      <4>2. t.ptr[h] = Nullptr /\ s.ptr[h] # Nullptr
        <5>1. CASE n = 0
          <6>1. x = h /\ st = s
            BY <2>4, <5>1
          <6>2. t.ptr = [r.state.ptr EXCEPT ![x] = Nullptr]
            <7> HIDE DEF st, x, r
            <7> QED
              BY <3>1, <3>4, InvalidatedFields
          <6>3. t \in State
            BY <3>4, <4>1
          <6> HIDE DEF t, st, x
          <6> QED
            BY <1>1, <3>3, <3>7, <4>1, <6>1, <6>2, <6>3 DEF State
        <5>2. CASE n # 0
          <6>1. st.ptr[h] = Nullptr /\ s.ptr[h] # Nullptr
            BY <2>4, <5>2, SMTT(20)
          <6>2. x # h
            BY <3>3, <3>7, <6>1
          <6> HIDE DEF t, st, x
          <6> QED
            BY <1>1, <3>3, <6>1, <6>2
        <5> QED
          BY <5>1, <5>2
      <4>3. Cardinality(Left(n + 1)) + (n + 1) <= Cardinality(Obj)
        <5>1. Left(n + 1) = Left(n) \ {r.freed} /\ r.freed \in Left(n)
          BY <3>2, <4>1
        <5>2. IsFiniteSet(Left(n))
          BY <1>1, FS_Subset
        <5> HIDE DEF Left, r
        <5>3. Cardinality(Left(n + 1)) = Cardinality(Left(n)) - 1
          BY <5>1, <5>2, FS_RemoveElement
        <5>4. Cardinality(Left(n)) \in Nat
          BY <5>2, FS_CardinalityType
        <5> QED
          BY <1>1, <2>4, <5>3, <5>4
      <4>4. r.freed \in Owner /\ r.freed \notin r.state.alive
        BY <4>1, SMTT(20) DEF Owner
      <4>5. Going(n + 1)
        <5> HIDE DEF t, st, x, r, Left
        <5> QED
          BY <2>1, <3>2, <3>3, <3>5, <4>1, <4>2, <4>3, <4>4
      <4> HIDE DEF Going, Over
      <4> QED
        BY <2>1, <3>2, <3>4, <4>1, <4>5
    <3> QED
      BY <3>6, <3>7, SMTT(20)
  <2> QED
    BY <2>1, <2>3, <2>4, ZenonT(20)
<1>5. T = Nat
  <2> HIDE DEF T
  <2> QED
    BY <1>3, <1>4, Induct DEF T
<1>6. I(N) /\ N \in Nat /\ N # 0 /\ N > Cardinality(Obj)
  <2>1. N \in Nat /\ N # 0 /\ N > Cardinality(Obj) /\ N <= N
    BY <1>1
  <2> HIDE DEF I, N
  <2> QED
    BY <1>5, <2>1
<1>7. Over(N)
  <2>1. Cardinality(Left(N)) \in Nat
    BY <1>1, FS_Subset, FS_CardinalityType
  <2>2. Going(N) => Cardinality(Left(N)) + N <= Cardinality(Obj)
    OBVIOUS
  <2> HIDE DEF Left, N, Going, Over
  <2> QED
    BY <1>1, <1>6, <2>1, <2>2
<1>8. Invalidated(a(N).state, h).alive = a(N).state.alive
  BY <1>1, <1>6, InvalidatedFields
<1>9. a(N).state.alive \subseteq Owner
  BY <1>6 DEF State
<1> QED
  BY <1>6, <1>7, <1>8, <1>9

\* The program can only name holders that live.
LEMMA NamedAlive ==
  ASSUME NEW s, NEW X, Sound(s, {}, X)
  PROVE  Named(s) \subseteq s.alive /\ Named(s) \subseteq Owner
<1>1. /\ s.alive \in SUBSET Owner
      /\ Root \cap s.alive \subseteq s.alive
      /\ \A k \in s.alive : s.ptr[k] # Nullptr => s.ptr[k] \in s.alive
  BY DEF Sound, State
<1> QED
  BY <1>1 DEF Named

\* What a program can name outlives its own release.
LEMMA NamedStays ==
  ASSUME NEW s, NEW h, NEW X, Sound(s, {}, X),
         h \in Named(s) \cup (Root \cap s.alive)
  PROVE  LET r == Released(s, h)
         IN  /\ Sound(Invalidated(r, h), {}, X)
             /\ r \in State /\ h \in r.alive /\ h \in s.alive /\ ~ r.broken
             /\ r.alive \subseteq s.alive
             /\ s.alive \ r.alive \subseteq Obj \ X
             /\ s.ptr[h] = Nullptr => r = s
<1> DEFINE last == Releases(s, h)[Cardinality(Obj) + 1].state
           t == Invalidated(last, h)
<1>1. h \in s.alive /\ h \in Owner /\ s.alive \subseteq Owner
  BY NamedAlive DEF Sound, State
<1>2. /\ Sound(t, {}, X)
      /\ last \in State
      /\ t.alive \subseteq s.alive
      /\ s.alive \ t.alive \subseteq Obj \ X
      /\ \A k \in t.alive \ {h} : t.ptr[k] = s.ptr[k]
      /\ s.ptr[h] = Nullptr => last = s
  BY <1>1, AllReleased
<1> HIDE DEF last
<1>3. last.alive = t.alive /\ last.broken = t.broken
  BY <1>1, <1>2, InvalidatedFields
<1>4. h \in t.alive
  <2> SUFFICES ASSUME h \notin t.alive PROVE FALSE
    OBVIOUS
  <2>1. h \notin Root
    BY <1>1, <1>2, OwnerAssumption
  <2>2. t.alive \in SUBSET Owner /\ Root \cap s.alive \subseteq t.alive
    BY <1>1, <1>2, OwnerAssumption
  <2>3. \A k \in t.alive : s.ptr[k] # Nullptr => s.ptr[k] \in t.alive
    <3> HIDE DEF t
    <3> QED
      BY <1>2, <2>2 DEF Sound
  <2>4. Named(s) \subseteq t.alive
    BY <2>2, <2>3 DEF Named
  <2> QED
    BY <2>1, <2>4
<1>5. Released(s, h) = last
  BY <1>1, <1>3, <1>4 DEF Released, last
<1>6. ~ last.broken
  <2> HIDE DEF t
  <2> QED
    BY <1>2, <1>3 DEF Sound
<1> QED
  BY <1>1, <1>2, <1>3, <1>4, <1>5, <1>6
-----------------------------------------------------------------------------
\* The other operations

\* A holder that begins to live is empty, and an object without an owner.
LEMMA BornSound ==
  ASSUME NEW s, NEW k, NEW X, Sound(s, {}, X), k \in Owner \ s.alive
  PROVE  LET t == Born(s, k)
         IN  /\ Sound(t, {}, X \cup ({k} \cap Obj))
             /\ t.alive = s.alive \cup {k} /\ t.ptr = s.ptr
<1> DEFINE u == [s EXCEPT !.alive = @ \cup {k}]
           t == Born(s, k)
<1>1. s.ptr[k] = Nullptr /\ s.ref[k] = Nullptr /\ s \in State
  BY DEF Sound
<1>2. /\ u \in State /\ u.alive = s.alive \cup {k} /\ u.ptr = s.ptr
      /\ u.ref = s.ref /\ u.count = s.count /\ u.broken = s.broken
  BY <1>1 DEF State
<1>3. t = u
  BY <1>1, <1>2, InvalidatedAlready DEF Born
<1> HIDE DEF u
<1>4. \A o : OwnersOf(t, o) = OwnersOf(s, o)
  BY <1>2, <1>3 DEF OwnersOf
<1>5. OwnersOf(s, k) = {}
  BY OwnerAssumption DEF Sound, OwnersOf, Owner
<1> HIDE DEF t
<1>6. /\ t \in State /\ ~ t.broken /\ t.ref = t.ptr
      /\ \A j \in Owner : t.ptr[j] # Nullptr => j \in t.alive
      /\ \A j \in Owner : t.ptr[j] # Nullptr => t.ptr[j] \in t.alive
      /\ \A o \in Obj : t.count[o] = Cardinality(OwnersOf(t, o))
  BY <1>2, <1>3, <1>4 DEF Sound
<1>7. \A o \in Obj \cap t.alive :
        OwnersOf(t, o) = {} <=> o \in X \cup ({k} \cap Obj)
  BY <1>2, <1>3, <1>4, <1>5 DEF Sound
<1> QED
  BY <1>2, <1>3, <1>6, <1>7 DEF Sound, t

\* Who owns what when the owner h takes the object o.
LEMMA OwnersOfTaken ==
  ASSUME NEW s \in State, NEW t \in State, NEW h \in Owner, NEW o \in Obj,
         s.ptr[h] = Nullptr, t.ptr = [s.ptr EXCEPT ![h] = o]
  PROVE  /\ OwnersOf(t, o) = OwnersOf(s, o) \cup {h}
         /\ \A x \in Obj \ {o} : OwnersOf(t, x) = OwnersOf(s, x)
         /\ Cardinality(OwnersOf(t, o)) = Cardinality(OwnersOf(s, o)) + 1
<1>1. /\ OwnersOf(t, o) = OwnersOf(s, o) \cup {h}
      /\ \A x \in Obj \ {o} : OwnersOf(t, x) = OwnersOf(s, x)
      /\ h \notin OwnersOf(s, o)
  BY OwnerAssumption DEF OwnersOf, State
<1>2. Cardinality(OwnersOf(s, o) \cup {h}) = Cardinality(OwnersOf(s, o)) + 1
  BY <1>1, OwnersFinite, FS_AddElement
<1> QED
  BY <1>1, <1>2

\* An owner without an object takes one that has none, or is given a share.
LEMMA TakeSound ==
  ASSUME NEW s, NEW t \in State, NEW h \in s.alive, NEW X, NEW o \in Obj,
         Sound(s, {}, X), s.ptr[h] = Nullptr, o \in s.alive,
         t.ptr = [s.ptr EXCEPT ![h] = o], t.ref = [s.ref EXCEPT ![h] = o],
         t.count = [s.count EXCEPT ![o] = @ + 1], t.alive = s.alive,
         t.broken = s.broken
  PROVE  Sound(t, {}, X \ {o})
<1>1. s \in State /\ h \in Owner /\ s.ref = s.ptr /\ ~ s.broken
  BY DEF Sound, State
<1>2. /\ OwnersOf(t, o) = OwnersOf(s, o) \cup {h}
      /\ \A x \in Obj \ {o} : OwnersOf(t, x) = OwnersOf(s, x)
      /\ Cardinality(OwnersOf(t, o)) = Cardinality(OwnersOf(s, o)) + 1
  BY <1>1, OwnersOfTaken
<1>3. \A x \in Obj : t.count[x] = Cardinality(OwnersOf(t, x))
  <2>1. /\ t.count[o] = s.count[o] + 1
        /\ \A x \in Obj \ {o} : t.count[x] = s.count[x]
    BY <1>1 DEF State, Counter
  <2>2. \A x \in Obj : s.count[x] = Cardinality(OwnersOf(s, x))
    BY DEF Sound
  <2> QED
    BY <1>2, <2>1, <2>2
<1>4. \A x \in Obj \cap t.alive : OwnersOf(t, x) = {} <=> x \in X \ {o}
  BY <1>1, <1>2 DEF Sound
<1>5. \A k \in Owner : t.ptr[k] # Nullptr =>
        k \in t.alive /\ t.ptr[k] \in t.alive
  BY <1>1 DEF Sound, State
<1> QED
  BY <1>1, <1>3, <1>4, <1>5 DEF Sound

\* An owner that is given an object and its count.
Given(s, h, o, n) == [s EXCEPT !.ptr[h] = o, !.ref[h] = o, !.count[o] = n]

\* What takeOwnerShip() and shareOwnership() set of a state.
LEMMA GivenFields ==
  ASSUME NEW s \in State, NEW h \in Owner, NEW o \in Obj, NEW n \in Nat, NEW t,
         t = Given(s, h, o, n)
  PROVE  /\ t \in State /\ t.alive = s.alive /\ t.broken = s.broken
         /\ t.ptr = [s.ptr EXCEPT ![h] = o]
         /\ t.ref = [s.ref EXCEPT ![h] = o]
         /\ t.count = [s.count EXCEPT ![o] = n]
<1>1. /\ t.alive = s.alive /\ t.broken = s.broken
      /\ t.ptr = [s.ptr EXCEPT ![h] = o]
      /\ t.ref = [s.ref EXCEPT ![h] = o]
      /\ t.count = [s.count EXCEPT ![o] = n]
  BY DEF State, Given
<1>2. [s.ptr EXCEPT ![h] = o] \in [Owner -> Obj \cup {Nullptr}]
  BY DEF State
<1>3. [s.ref EXCEPT ![h] = o] \in [Owner -> Counter \cup {Nullptr}]
  BY DEF State, Counter
<1>4. [s.count EXCEPT ![o] = n] \in [Counter -> Nat]
  BY DEF State, Counter
<1>5. t \in State
  BY <1>2, <1>3, <1>4 DEF State, Given
<1> QED
  BY <1>1, <1>5

\* An object that had no owner is owned once by the holder that takes it
\* (138).
LEMMA TakenSound ==
  ASSUME NEW s \in State, NEW h \in s.alive, NEW o \in Obj \cup {Nullptr},
         Sound(Invalidated(s, h), {}, {o} \cap Obj), o \in Obj => o \in s.alive
  PROVE  Sound(Taken(s, h, o), {}, {})
<1> DEFINE u == Invalidated(s, h)
           t == Taken(s, h, o)
<1>1. h \in Owner
  BY DEF State
<1>2. /\ u \in State /\ u.alive = s.alive /\ u.count = s.count
      /\ u.broken = s.broken /\ u.ptr = [s.ptr EXCEPT ![h] = Nullptr]
      /\ u.ref = [s.ref EXCEPT ![h] = Nullptr]
  BY <1>1, InvalidatedFields
<1>3. CASE o = Nullptr
  <2>1. {o} \cap Obj = {} /\ t = u
    BY <1>3, OwnerAssumption DEF Taken
  <2> QED
    BY <2>1
<1>4. CASE o \in Obj
  <2>1. OwnersOf(u, o) = {} /\ {o} \cap Obj = {o} /\ o # Nullptr
    BY <1>2, <1>4, OwnerAssumption DEF Sound
  <2>2. s.count[o] = 0
    BY <1>2, <1>4, <2>1, FS_EmptySet DEF Sound
  <2>3. t = Given(s, h, o, 1)
    BY <2>1, <2>2 DEF Taken, Given
  <2>4. /\ t \in State /\ t.alive = s.alive /\ t.broken = s.broken
        /\ t.ptr = [s.ptr EXCEPT ![h] = o]
        /\ t.ref = [s.ref EXCEPT ![h] = o]
        /\ t.count = [s.count EXCEPT ![o] = 1]
    <3> HIDE DEF t
    <3> QED
      BY <1>1, <1>4, <2>3, GivenFields
  <2> HIDE DEF t, u
  <2>5. /\ t.ptr = [u.ptr EXCEPT ![h] = o]
        /\ t.ref = [u.ref EXCEPT ![h] = o]
        /\ t.count = [u.count EXCEPT ![o] = @ + 1]
        /\ u.ptr[h] = Nullptr
    BY <1>1, <1>2, <1>4, <2>2, <2>4 DEF State, Counter
  <2>6. Sound(u, {}, {o}) /\ h \in u.alive /\ o \in u.alive
    BY <1>2, <1>4, <2>1 DEF u
  <2>7. Sound(t, {}, {o} \ {o})
    BY <1>2, <1>4, <2>4, <2>5, <2>6, TakeSound
  <2> QED
    BY <2>7 DEF t
<1> QED
  BY <1>3, <1>4

\* What the new owner copies is what the other one has.
LEMMA SharedFields ==
  ASSUME NEW s \in State, NEW h \in Owner, NEW from \in s.alive,
         NEW more \in {0, 1}, NEW o, NEW t,
         o = s.ptr[from], s.ref[from] = o, o # Nullptr,
         t = Shared(s, h, from, more)
  PROVE  /\ t \in State /\ t.alive = s.alive /\ t.broken = s.broken
         /\ t.ptr = [s.ptr EXCEPT ![h] = o]
         /\ t.ref = [s.ref EXCEPT ![h] = o]
         /\ t.count = [s.count EXCEPT ![o] = s.count[o] + more]
<1>1. o \in Obj /\ from \in Owner
  BY DEF State
<1>2. t = Given(s, h, o, s.count[o] + more)
  BY <1>1 DEF Shared, Given
<1>3. s.count[o] + more \in Nat
  BY <1>1 DEF State, Counter
<1> QED
  BY <1>1, <1>2, <1>3, GivenFields

\* A holder that shares (144) what another one owns is counted.
LEMMA SharedSound ==
  ASSUME NEW s \in State, NEW h \in s.alive, NEW from \in s.alive, h # from,
         Sound(Invalidated(s, h), {}, {})
  PROVE  Sound(Shared(s, h, from, 1), {}, {})
<1> DEFINE u == Invalidated(s, h)
           t == Shared(s, h, from, 1)
           o == s.ptr[from]
<1>1. h \in Owner /\ from \in Owner
  BY DEF State
<1>2. /\ u \in State /\ u.alive = s.alive /\ u.count = s.count
      /\ u.broken = s.broken /\ u.ptr = [s.ptr EXCEPT ![h] = Nullptr]
      /\ u.ref = [s.ref EXCEPT ![h] = Nullptr]
  BY <1>1, InvalidatedFields
<1>3. u.ref[from] = s.ref[from] /\ u.ptr[from] = s.ptr[from]
  BY <1>1, <1>2 DEF State
<1>4. s.ref[from] = o /\ (o # Nullptr => o \in s.alive /\ o \in Obj)
  <2> HIDE DEF u
  <2> QED
    BY <1>1, <1>2, <1>3 DEF Sound, u, State
<1>5. CASE o = Nullptr
  BY <1>4, <1>5 DEF Shared
<1>6. CASE o # Nullptr
  <2>1. /\ t \in State /\ t.alive = s.alive /\ t.broken = s.broken
        /\ t.ptr = [s.ptr EXCEPT ![h] = o]
        /\ t.ref = [s.ref EXCEPT ![h] = o]
        /\ t.count = [s.count EXCEPT ![o] = s.count[o] + 1]
    <3> HIDE DEF t, o
    <3> QED
      BY <1>1, <1>4, <1>6, SharedFields DEF t, o
  <2> HIDE DEF t, u, o
  <2>2. /\ t.ptr = [u.ptr EXCEPT ![h] = o]
        /\ t.ref = [u.ref EXCEPT ![h] = o]
        /\ t.count = [u.count EXCEPT ![o] = @ + 1]
        /\ u.ptr[h] = Nullptr
    BY <1>1, <1>2, <2>1 DEF State
  <2>3. Sound(u, {}, {}) /\ h \in u.alive /\ o \in u.alive /\ o \in Obj
    BY <1>2, <1>4, <1>6 DEF u
  <2>4. Sound(t, {}, {} \ {o})
    BY <1>2, <2>1, <2>2, <2>3, TakeSound
  <2> QED
    BY <2>4 DEF t
<1> QED
  BY <1>5, <1>6

\* The assignment from an rvalue passes the share on, and so does one from an
\* owner to itself, which is invalidated then.
LEMMA MovedSound ==
  ASSUME NEW s \in State, NEW h \in s.alive, NEW from \in s.alive,
         Sound(Invalidated(s, h), {}, {})
  PROVE  Sound(Invalidated(Shared(s, h, from, 0), from), {}, {})
<1> DEFINE u == Invalidated(s, h)
           w == Shared(s, h, from, 0)
           t == Invalidated(w, from)
           o == s.ptr[from]
<1>1. h \in Owner /\ from \in Owner
  BY DEF State
<1>2. /\ u \in State /\ u.alive = s.alive /\ u.count = s.count
      /\ u.broken = s.broken /\ u.ptr = [s.ptr EXCEPT ![h] = Nullptr]
      /\ u.ref = [s.ref EXCEPT ![h] = Nullptr]
  BY <1>1, InvalidatedFields
<1>3. CASE s.ref[from] = Nullptr
  <2>1. w = u
    BY <1>3 DEF Shared
  <2>2. h = from => u.ptr[from] = Nullptr /\ u.ref[from] = Nullptr
    BY <1>1, <1>2 DEF State
  <2>3. u.ref[from] = Nullptr /\ u.ref = u.ptr
    <3> HIDE DEF u
    <3> QED
      BY <1>1, <1>2, <1>3, <2>2 DEF State, Sound, u
  <2>4. t = u
    <3> HIDE DEF u, w
    <3> QED
      BY <1>1, <1>2, <2>1, <2>3, InvalidatedAlready
  <2> QED
    BY <2>4
<1>4. CASE s.ref[from] # Nullptr /\ h = from
  <2>1. w = [s EXCEPT !.ptr[h] = s.ptr[h], !.ref[h] = s.ref[h],
                      !.count[s.ref[h]] = @ + 0]
    BY <1>4 DEF Shared
  <2>2. s.ref[h] \in Counter /\ s.count[s.ref[h]] + 0 = s.count[s.ref[h]]
    BY <1>1, <1>4 DEF State
  <2>3. /\ [s.ptr EXCEPT ![h] = s.ptr[h]] = s.ptr
        /\ [s.ref EXCEPT ![h] = s.ref[h]] = s.ref
        /\ [s.count EXCEPT ![s.ref[h]] = @ + 0] = s.count
    BY <1>1, <2>2 DEF State
  <2>5. s = [alive |-> s.alive, ptr |-> s.ptr, ref |-> s.ref,
             count |-> s.count, broken |-> s.broken]
    BY DEF State
  <2>6. w = [alive |-> s.alive, ptr |-> [s.ptr EXCEPT ![h] = s.ptr[h]],
             ref |-> [s.ref EXCEPT ![h] = s.ref[h]],
             count |-> [s.count EXCEPT ![s.ref[h]] = @ + 0],
             broken |-> s.broken]
    <3> HIDE DEF w
    <3> QED
      BY <2>1, <2>5
  <2>4. w = s
    <3> HIDE DEF w
    <3> QED
      BY <2>3, <2>5, <2>6
  <2> QED
    BY <1>4, <2>4
<1>5. CASE s.ref[from] # Nullptr /\ h # from
  <2>1. u.ref[from] = s.ref[from] /\ u.ptr[from] = s.ptr[from]
    BY <1>1, <1>2, <1>5 DEF State
  <2>2. s.ref[from] = o /\ o # Nullptr /\ o \in s.alive /\ o \in Obj
    <3> HIDE DEF u
    <3> QED
      BY <1>1, <1>2, <1>5, <2>1 DEF Sound, u, State
  <2>3. /\ w \in State /\ w.alive = s.alive /\ w.broken = s.broken
        /\ w.ptr = [s.ptr EXCEPT ![h] = o]
        /\ w.ref = [s.ref EXCEPT ![h] = o]
        /\ w.count = [s.count EXCEPT ![o] = s.count[o] + 0]
    <3> HIDE DEF w, o
    <3> QED
      BY <1>1, <2>2, SharedFields DEF w, o
  <2>4. /\ t \in State /\ t.alive = w.alive /\ t.count = w.count
        /\ t.broken = w.broken /\ t.ptr = [w.ptr EXCEPT ![from] = Nullptr]
        /\ t.ref = [w.ref EXCEPT ![from] = Nullptr]
    <3> HIDE DEF w
    <3> QED
      BY <1>1, <2>3, InvalidatedFields, ZenonT(20)
  <2> DEFINE v == [u EXCEPT !.ptr = [@ EXCEPT ![from] = Nullptr],
                            !.ref = [@ EXCEPT ![from] = Nullptr]]
  <2> HIDE DEF t, u, o, w
  <2>5. w.count = s.count
    BY <2>2, <2>3 DEF State, Counter
  <2>6. /\ t.alive = u.alive /\ t.count = u.count /\ t.broken = u.broken
        /\ t.ptr = [u.ptr EXCEPT ![h] = o, ![from] = Nullptr]
        /\ t.ref = [u.ref EXCEPT ![h] = o, ![from] = Nullptr]
    BY <1>1, <1>2, <1>5, <2>3, <2>4, <2>5 DEF State
  <2>7. Sound(u, {}, {}) /\ u.ptr[h] = Nullptr /\ u.ptr[from] = o
    BY <1>1, <1>2, <1>5, <2>1 DEF State, u, o
  <2>8. /\ OwnersOf(t, o) = (OwnersOf(u, o) \ {from}) \cup {h}
        /\ from \in OwnersOf(u, o) /\ h \notin OwnersOf(u, o)
        /\ \A x \in Obj \ {o} : OwnersOf(t, x) = OwnersOf(u, x)
    BY <1>1, <1>2, <1>5, <2>2, <2>6, <2>7, OwnerAssumption DEF OwnersOf, State
  <2>9. Cardinality(OwnersOf(t, o)) = Cardinality(OwnersOf(u, o))
    <3>1. /\ IsFiniteSet(OwnersOf(u, o) \ {from})
          /\ Cardinality(OwnersOf(u, o) \ {from})
               = Cardinality(OwnersOf(u, o)) - 1
      BY <2>8, OwnersFinite, FS_RemoveElement
    <3>2. h \notin OwnersOf(u, o) \ {from}
      BY <2>8
    <3>3. Cardinality((OwnersOf(u, o) \ {from}) \cup {h}) =
            Cardinality(OwnersOf(u, o) \ {from}) + 1
      BY <3>1, <3>2, FS_AddElement
    <3> QED
      BY <2>8, <3>1, <3>3, OwnersFinite
  <2>10. \A x \in Obj : t.count[x] = Cardinality(OwnersOf(t, x))
    BY <2>6, <2>7, <2>8, <2>9 DEF Sound
  <2>11. \A x \in Obj \cap t.alive : OwnersOf(t, x) # {}
    BY <2>6, <2>7, <2>8 DEF Sound
  <2>12. \A k \in Owner : t.ptr[k] # Nullptr =>
           k \in t.alive /\ t.ptr[k] \in t.alive
    BY <1>1, <1>2, <1>5, <2>2, <2>6, <2>7 DEF Sound, State
  <2>13. t.ref = t.ptr /\ ~ t.broken
    BY <2>6, <2>7 DEF Sound
  <2>14. Sound(t, {}, {})
    BY <2>4, <2>10, <2>11, <2>12, <2>13 DEF Sound
  <2> QED
    BY <2>14 DEF t, w
<1> QED
  BY <1>3, <1>4, <1>5
-----------------------------------------------------------------------------
OwnSpec == OwnInit /\ [][OwnNext]_<<own, adopted>>

\* The inductive invariant: the counts are right until a pointer is taken twice
\* or something is read after it was freed.
OwnInv == ~ adopted /\ ~ own.broken => Sound(own, {}, {})

\* At first there is neither an owner nor an object.
LEMMA OwnInitially == OwnInit => OwnInv
<1> SUFFICES ASSUME OwnInit PROVE Sound(own, {}, {})
  BY DEF OwnInv
<1>1. /\ own.alive = {} /\ own.ptr = Unset /\ own.ref = Unset
      /\ own.count = [c \in Counter |-> 0] /\ ~ own.broken
      /\ own \in State
  BY DEF OwnInit, State, Unset
<1>2. \A o \in Obj : OwnersOf(own, o) = {}
  BY <1>1, OwnerAssumption DEF OwnersOf, Unset
<1> QED
  BY <1>1, <1>2, FS_EmptySet DEF Sound, Unset, Counter

\* The state in which a step finds the owners.
LEMMA OwnerFound ==
  ASSUME OwnInv, ~ own.broken, ~ adopted
  PROVE  /\ Sound(own, {}, {}) /\ own \in State /\ own.alive \subseteq Owner
         /\ Named(own) \subseteq own.alive
         /\ Pointer \subseteq Obj \cup {Nullptr}
<1>1. Sound(own, {}, {})
  BY DEF OwnInv
<1>2. Pointer \subseteq Obj \cup {Nullptr}
  <2>1. (\E o \in Obj : Fresh(own, o)) =>
          (CHOOSE o \in Obj : Fresh(own, o)) \in Obj
    OBVIOUS
  <2> QED
    BY <2>1 DEF Pointer
<1> QED
  <2>1. Named(own) \subseteq own.alive
    BY <1>1, NamedAlive
  <2>2. own \in State /\ own.alive \subseteq Owner
    BY <1>1 DEF Sound, State
  <2> QED
    BY <1>1, <1>2, <2>1, <2>2

\* A new object, or none, has no owner yet.
LEMMA NewSound ==
  ASSUME NEW s, Sound(s, {}, {}), NEW o \in Obj \cup {Nullptr}, o \notin s.alive
  PROVE  LET t == New(s, o)
         IN  /\ Sound(t, {}, {o} \cap Obj)
             /\ t.alive = s.alive \cup ({o} \cap Obj) /\ t.ptr = s.ptr
<1>1. CASE o = Nullptr
  BY <1>1, OwnerAssumption DEF New
<1>2. CASE o \in Obj
  <2>1. o \in Owner \ s.alive /\ New(s, o) = Born(s, o)
    BY <1>2, OwnerAssumption DEF New, Owner
  <2>2. Sound(Born(s, o), {}, {} \cup ({o} \cap Obj))
        /\ Born(s, o).alive = s.alive \cup {o} /\ Born(s, o).ptr = s.ptr
    BY <2>1, BornSound
  <2> QED
    BY <1>2, <2>1, <2>2
<1> QED
  BY <1>1, <1>2

\* The constructor from a pointer (37-44) keeps the owners counted.
LEMMA ConstructStep ==
  ASSUME OwnInv, ~ own.broken, ~ adopted, NEW h, NEW o \in Pointer,
         OwnerConstruct(h, o), ~ adopted'
  PROVE  Sound(own', {}, {})
<1>1. h \in Owner \ own.alive /\ h \in Root /\ o \notin own.alive
      /\ o \in Obj \cup {Nullptr} /\ o # h
  BY OwnerFound, OwnerAssumption DEF OwnerConstruct, Adopts, Owner
<1> DEFINE a == Born(own, h)
           b == New(a, o)
<1>2. Sound(a, {}, {} \cup ({h} \cap Obj)) /\ a.alive = own.alive \cup {h}
      /\ a.ptr = own.ptr
  BY <1>1, OwnerFound, BornSound
<1>3. Sound(a, {}, {})
  <2> HIDE DEF a
  <2>1. {} \cup ({h} \cap Obj) = {}
    BY <1>1, OwnerAssumption
  <2> QED
    BY <1>2, <2>1
<1>4. o \notin a.alive
  BY <1>1, <1>2
<1> HIDE DEF a
<1>5. Sound(b, {}, {o} \cap Obj) /\ b.alive = a.alive \cup ({o} \cap Obj)
      /\ b.ptr = a.ptr
  BY <1>1, <1>3, <1>4, NewSound
<1> HIDE DEF b
<1>6. b \in State /\ b.ptr[h] = Nullptr /\ b.ref[h] = Nullptr
  BY <1>1, <1>2, <1>5, OwnerFound DEF Sound
<1>7. Invalidated(b, h) = b
  BY <1>1, <1>6, InvalidatedAlready
<1>8. Sound(Taken(b, h, o), {}, {})
  <2>1. h \in b.alive /\ (o \in Obj => o \in b.alive)
    BY <1>2, <1>5
  <2> QED
    BY <1>1, <1>5, <1>6, <1>7, <2>1, TakenSound
<1> QED
  BY <1>8 DEF OwnerConstruct, a, b

\* The copy and move constructors (51-65) keep the owners counted.
LEMMA ConstructFromStep ==
  ASSUME OwnInv, ~ own.broken, ~ adopted, NEW h, NEW k \in Named(own),
         NEW m \in BOOLEAN, OwnerConstructFrom(h, k, m)
  PROVE  Sound(own', {}, {})
<1>1. h \in Owner \ own.alive /\ h \in Root /\ k \in own.alive /\ k # h
  BY OwnerFound DEF OwnerConstructFrom, Owner
<1> DEFINE a == Born(own, h)
<1>2. Sound(a, {}, {} \cup ({h} \cap Obj)) /\ a.alive = own.alive \cup {h}
      /\ a.ptr = own.ptr
  BY <1>1, OwnerFound, BornSound
<1>3. own' = IF m THEN Invalidated(Shared(a, h, k, 0), k)
             ELSE Shared(a, h, k, 1)
  BY DEF OwnerConstructFrom
<1> HIDE DEF a
<1>4. {} \cup ({h} \cap Obj) = {}
  BY <1>1, OwnerAssumption
<1>5. Sound(a, {}, {}) /\ a \in State
      /\ a.ptr[h] = Nullptr /\ a.ref[h] = Nullptr
  BY <1>1, <1>2, <1>4, OwnerFound DEF Sound
<1>6. Invalidated(a, h) = a
  BY <1>1, <1>5, InvalidatedAlready
<1>7. h \in a.alive /\ k \in a.alive
  BY <1>1, <1>2
<1>8. Sound(Shared(a, h, k, 1), {}, {})
  BY <1>1, <1>5, <1>6, <1>7, SharedSound
<1>9. Sound(Invalidated(Shared(a, h, k, 0), k), {}, {})
  BY <1>1, <1>5, <1>6, <1>7, MovedSound
<1> QED
  BY <1>3, <1>8, <1>9

\* An assignment breaks nothing unless what it copies is gone by then.
LEMMA AssignStep ==
  ASSUME OwnInv, ~ own.broken, ~ adopted,
         NEW h \in Named(own), NEW k \in Named(own),
         OwnerAssign(h, k) \/ OwnerMoveAssign(h, k)
  PROVE  FromInside(h, k) \/ Sound(own', {}, {})
<1> DEFINE r == Released(own, h)
<1>1. /\ Sound(Invalidated(r, h), {}, {}) /\ r \in State /\ h \in r.alive
      /\ own.ptr[h] = Nullptr => r = own
  BY OwnerFound, NamedStays
<1>2. k \notin r.alive => FromInside(h, k)
  BY <1>1, OwnerFound DEF FromInside
<1>3. CASE k \in r.alive /\ OwnerMoveAssign(h, k)
  <2>1. own' = Invalidated(Shared(r, h, k, 0), k)
    BY <1>3 DEF OwnerMoveAssign, MoveAssigned
  <2> HIDE DEF r
  <2> QED
    BY <1>1, <1>3, <2>1, MovedSound
<1>4. CASE k \in r.alive /\ OwnerAssign(h, k) /\ h # k
  <2>1. own' = Shared(r, h, k, 1)
    BY <1>4 DEF OwnerAssign, Assigned
  <2> HIDE DEF r
  <2> QED
    BY <1>1, <1>4, <2>1, SharedSound
<1>5. CASE OwnerAssign(h, k) /\ h = k
  BY <1>5, OwnerFound DEF OwnerAssign, Assigned
<1> QED
  BY <1>2, <1>3, <1>4, <1>5

\* reset() (126-130) keeps the owners counted, with a pointer nobody owns.
LEMMA ResetStep ==
  ASSUME OwnInv, ~ own.broken, ~ adopted,
         NEW h \in Named(own), NEW o \in Pointer, OwnerReset(h, o), ~ adopted'
  PROVE  Sound(own', {}, {})
<1>1. o \notin own.alive /\ o \in Obj \cup {Nullptr} /\ h \in own.alive
  BY OwnerFound DEF OwnerReset, Adopts
<1> DEFINE a == New(own, o)
           r == Released(a, h)
<1>2. /\ Sound(a, {}, {o} \cap Obj)
      /\ a.alive = own.alive \cup ({o} \cap Obj) /\ a.ptr = own.ptr
  BY <1>1, OwnerFound, NewSound
<1>3. h \in Named(a)
  <2> HIDE DEF a
  <2>1. Root \cap a.alive = Root \cap own.alive
    BY <1>2, OwnerAssumption
  <2> QED
    BY <1>2, <2>1 DEF Named
<1> HIDE DEF a
<1>4. /\ Sound(Invalidated(r, h), {}, {o} \cap Obj)
      /\ r \in State /\ h \in r.alive
      /\ a.alive \ r.alive \subseteq Obj \ ({o} \cap Obj)
  BY <1>2, <1>3, NamedStays
<1> HIDE DEF r
<1>5. o \in Obj => o \in r.alive
  BY <1>2, <1>4
<1>6. Sound(Taken(r, h, o), {}, {})
  BY <1>1, <1>4, <1>5, TakenSound
<1> QED
  BY <1>6 DEF OwnerReset, a, r

\* The destructor (46-49) keeps the owners counted.
LEMMA DestroyStep ==
  ASSUME OwnInv, ~ own.broken, ~ adopted, NEW h \in Named(own), OwnerDestroy(h)
  PROVE  Sound(own', {}, {})
<1> DEFINE r == Released(own, h)
           u == [r EXCEPT !.alive = @ \ {h}]
           t == Invalidated(r, h)
<1>1. h \in Root /\ h \in Owner /\ own' = Invalidated(u, h)
  BY DEF OwnerDestroy, Owner
<1>2. /\ Sound(t, {}, {}) /\ r \in State /\ h \in r.alive
  BY OwnerFound, NamedStays
<1> HIDE DEF r
<1>3. /\ u \in State /\ u.alive = r.alive \ {h} /\ u.ptr = r.ptr
      /\ u.ref = r.ref /\ u.count = r.count /\ u.broken = r.broken
  BY <1>2 DEF State
<1>4. /\ t \in State /\ t.alive = r.alive /\ t.count = r.count
      /\ t.broken = r.broken /\ t.ptr = [r.ptr EXCEPT ![h] = Nullptr]
      /\ t.ref = [r.ref EXCEPT ![h] = Nullptr]
  BY <1>1, <1>2, InvalidatedFields
<1> HIDE DEF t, u
<1>5. /\ own' \in State /\ own'.alive = t.alive \ {h} /\ own'.ptr = t.ptr
      /\ own'.ref = t.ref /\ own'.count = t.count /\ own'.broken = t.broken
  BY <1>1, <1>3, <1>4, InvalidatedFields, SMTT(20)
<1>6. \A o : OwnersOf(own', o) = OwnersOf(t, o)
  BY <1>5 DEF OwnersOf
<1>7. t.ptr[h] = Nullptr
  BY <1>1, <1>2, <1>4 DEF State
<1>8. \A k \in Owner : t.ptr[k] # Nullptr => t.ptr[k] # h
  BY <1>1, <1>4, OwnerAssumption DEF State
<1> QED
  BY <1>2, <1>5, <1>6, <1>7, <1>8 DEF Sound

\* What a step leaves: counts that are right, or one of the two exceptions.
LEMMA OwnStep ==
  ASSUME OwnInv, OwnNext, ~ adopted'
  PROVE  \/ Sound(own', {}, {})
         \/ \E h, k \in Named(own) :
              /\ FromInside(h, k)
              /\ OwnerAssign(h, k) \/ OwnerMoveAssign(h, k)
<1>1. ~ own.broken
  BY DEF OwnNext
<1>2. ~ adopted
  BY DEF OwnNext, OwnerConstruct, OwnerConstructFrom, OwnerAssign,
         OwnerMoveAssign, OwnerReset, OwnerDestroy, Adopts
<1>3. ASSUME NEW h, NEW o \in Pointer, OwnerConstruct(h, o)
      PROVE  Sound(own', {}, {})
  BY <1>1, <1>2, <1>3, ConstructStep
<1>4. ASSUME NEW h, NEW k \in Named(own), NEW m \in BOOLEAN,
             OwnerConstructFrom(h, k, m)
      PROVE  Sound(own', {}, {})
  BY <1>1, <1>2, <1>4, ConstructFromStep
<1>5. ASSUME NEW h \in Named(own), NEW k \in Named(own),
             OwnerAssign(h, k) \/ OwnerMoveAssign(h, k)
      PROVE  FromInside(h, k) \/ Sound(own', {}, {})
  BY <1>1, <1>2, <1>5, AssignStep
<1>6. ASSUME NEW h \in Named(own), NEW o \in Pointer, OwnerReset(h, o)
      PROVE  Sound(own', {}, {})
  BY <1>1, <1>2, <1>6, ResetStep
<1>7. ASSUME NEW h \in Named(own), OwnerDestroy(h)
      PROVE  Sound(own', {}, {})
  BY <1>1, <1>2, <1>7, DestroyStep
<1> QED
  BY <1>3, <1>4, <1>5, <1>6, <1>7 DEF OwnNext

\* No operation disturbs the counts, unless it breaks something or adopts.
LEMMA OwnInvInductive == OwnInv /\ [OwnNext]_<<own, adopted>> => OwnInv'
<1> SUFFICES ASSUME OwnInv, [OwnNext]_<<own, adopted>>,
                    ~ adopted', ~ own'.broken
             PROVE  Sound(own', {}, {})
  BY DEF OwnInv
<1>1. CASE UNCHANGED <<own, adopted>>
  BY <1>1 DEF OwnInv
<1>2. CASE OwnNext
  <2>1. ASSUME NEW h \in Named(own), NEW k \in Named(own), FromInside(h, k),
               OwnerAssign(h, k) \/ OwnerMoveAssign(h, k)
        PROVE  Sound(own', {}, {})
    <3> DEFINE r == Released(own, h)
    <3>1. ~ own.broken /\ ~ adopted
      BY <1>2, <2>1 DEF OwnNext, OwnerAssign, OwnerMoveAssign
    <3>2. h \in r.alive /\ r \in State /\ k \in Owner
      BY <3>1, OwnerFound, NamedStays DEF Named
    <3>3. k \notin r.alive /\ h # k
      BY <2>1, <3>2 DEF FromInside
    <3>4. Shared(r, h, k, 0) = [r EXCEPT !.broken = TRUE]
          /\ Shared(r, h, k, 1) = [r EXCEPT !.broken = TRUE]
      BY <3>3 DEF Shared
    <3> HIDE DEF r
    <3> DEFINE bad == [r EXCEPT !.broken = TRUE]
    <3>5. bad \in State /\ bad.broken
      BY <3>2 DEF State
    <3>6. own' = bad \/ own' = Invalidated(bad, k)
      BY <2>1, <3>3, <3>4
      DEF OwnerAssign, OwnerMoveAssign, Assigned, MoveAssigned, r
    <3> HIDE DEF bad
    <3> QED
      <4>1. Invalidated(bad, k).broken = bad.broken
        BY <3>2, <3>5, InvalidatedFields
      <4> QED
        BY <3>5, <3>6, <4>1
  <2> QED
    BY <1>2, <2>1, OwnStep
<1> QED
  BY <1>1, <1>2

\* The invariant says all that CountIsOwners does.
LEMMA OwnInvTells == OwnInv => CountIsOwners
<1> SUFFICES ASSUME Sound(own, {}, {}), ~ adopted, ~ own.broken
             PROVE  CountIsOwners
  BY DEF OwnInv, CountIsOwners
<1>1. own \in State /\ own.ref = own.ptr
  BY DEF Sound
<1>2. \A o \in Obj : OwnersOf(own, o) = {k \in own.alive : own.ptr[k] = o}
  BY <1>1, OwnerAssumption DEF Sound, OwnersOf, State
<1>3. ASSUME NEW h \in own.alive, own.ptr[h] # Nullptr
      PROVE  /\ own.ptr[h] \in own.alive
             /\ own.count[own.ref[h]] =
                  Cardinality({k \in own.alive : own.ptr[k] = own.ptr[h]})
  <2>1. own.ptr[h] \in Obj
    BY <1>1, <1>3 DEF State
  <2> QED
    BY <1>1, <1>2, <1>3, <2>1 DEF Sound, State
<1>4. \A o \in Obj \cap own.alive : \E h \in own.alive : own.ptr[h] = o
  BY <1>2 DEF Sound
<1> QED
  BY <1>1, <1>3, <1>4 DEF CountIsOwners

\* An object lives as long as it has an owner, and its count says how many.
THEOREM OwnersCounted == OwnSpec => []CountIsOwners
<1>1. OwnSpec => []OwnInv
  BY OwnInitially, OwnInvInductive, PTL DEF OwnSpec
<1> QED
  BY <1>1, OwnInvTells, PTL

\* Nothing is freed twice or read after it was freed but in the two exceptions.
THEOREM OnceFreed == OwnSpec => FreedOnlyOnce
<1>1. OwnSpec => []OwnInv
  BY OwnInitially, OwnInvInductive, PTL DEF OwnSpec
<1>2. OwnInv /\ [OwnNext]_<<own, adopted>> =>
        [own'.broken => \/ adopted'
                        \/ \E h, k \in Named(own) :
                             /\ FromInside(h, k)
                             /\ OwnerAssign(h, k) \/ OwnerMoveAssign(h, k)
        ]_<<own, adopted>>
  BY OwnStep DEF Sound
<1> QED
  BY <1>1, <1>2, PTL DEF OwnSpec, FreedOnlyOnce
-----------------------------------------------------------------------------
(* CompileTime *)

\* A number is its last digit and ten times what remains, which is smaller.
LEMMA Division ==
  ASSUME NEW v \in Nat
  PROVE  /\ v \div 10 \in Nat /\ v % 10 \in 0..9
         /\ v = 10 * (v \div 10) + (v % 10)
         /\ v # 0 => v \div 10 < v
         /\ v <= 9 => v \div 10 = 0 /\ v % 10 = v
         /\ v > 9 => v \div 10 # 0
  OBVIOUS

\* What holds for 0 and for v when it holds for v \div 10 holds for all.
LEMMA ByDigits ==
  ASSUME NEW S, 0 \in S, \A v \in Nat \ {0} : v \div 10 \in S => v \in S
  PROVE  Nat \subseteq S
<1> SUFFICES ASSUME Nat \ S # {} PROVE FALSE
  OBVIOUS
<1>1. PICK m \in Nat \ S : \A n \in Nat \ S : m <= n
  BY Least
<1>2. m # 0 /\ m \div 10 \in Nat /\ m \div 10 < m
  BY Division
<1>3. m \div 10 \in S
  BY <1>1, <1>2
<1> QED
  BY <1>2, <1>3

\* A recursion over the digits is well defined.
Tenth == [v \in Nat |-> v \div 10]

\* A function of a number may be defined by its value for the number without
\* the last digit.
LEMMA DigitRecursion ==
  \A S : \A b \in [Nat -> S], g \in [S \X Nat -> S], r \in [Nat -> Nat] :
    (\A v \in Nat : r[v] = 0 \/ r[v \div 10] < r[v])
    => Defined(Nat, S, r, Tenth, b, g)
<1> SUFFICES ASSUME NEW S, NEW b \in [Nat -> S], NEW g \in [S \X Nat -> S],
                    NEW r \in [Nat -> Nat],
                    \A v \in Nat : r[v] = 0 \/ r[v \div 10] < r[v]
             PROVE  Defined(Nat, S, r, Tenth, b, g)
  OBVIOUS
<1>1. Tenth \in [Nat -> Nat]
  BY Division DEF Tenth
<1>2. \A x \in Nat : r[x] # 0 => r[Tenth[x]] < r[x]
  BY DEF Tenth
<1> QED
  BY <1>1, <1>2, Recursion

DigitSeq == Seq(0..9)

\* What a digit at the end makes of a sequence of digits.
LEMMA Appended ==
  ASSUME NEW s \in DigitSeq, NEW d \in 0..9
  PROVE  /\ Append(s, d) \in DigitSeq /\ Append(s, d) # <<>>
         /\ Len(Append(s, d)) = Len(s) + 1
         /\ Front(Append(s, d)) = s /\ Last(Append(s, d)) = d
         /\ s # <<>> => Append(s, d)[1] = s[1]
         /\ s = <<>> => Append(s, d)[1] = d
         /\ \A i \in 1..Len(s) : Append(s, d)[i] = s[i]
         /\ Append(s, d)[Len(s) + 1] = d
<1>1. /\ Append(s, d) \in DigitSeq /\ Append(s, d) # <<>>
      /\ Len(Append(s, d)) = Len(s) + 1 /\ Len(s) \in Nat
      /\ \A i \in 1..Len(s) : Append(s, d)[i] = s[i]
      /\ Append(s, d)[Len(s) + 1] = d
      /\ s # <<>> => Append(s, d)[1] = s[1]
      /\ s = <<>> => Append(s, d)[1] = d
  BY DEF DigitSeq
<1>2. Front(Append(s, d)) = s
  <2>1. Front(Append(s, d)) = SubSeq(Append(s, d), 1, Len(s))
    BY <1>1 DEF Front
  <2>2. SubSeq(Append(s, d), 1, Len(s)) = s
    BY <1>1 DEF DigitSeq
  <2> QED
    BY <2>1, <2>2
<1>3. Last(Append(s, d)) = d
  BY <1>1 DEF Last
<1> QED
  BY <1>1, <1>2, <1>3

\* explode() (30-38) puts the last digit behind the others.
LEMMA ExplodedUnfolds ==
  /\ exploded \in [Nat -> DigitSeq]
  /\ \A v \in Nat :
       exploded[v] = IF v = 0 THEN <<>>
                     ELSE Append(exploded[v \div 10], v % 10)
<1> DEFINE r == [v \in Nat |-> v]
           b == [v \in Nat |-> <<>>]
           g == [p \in DigitSeq \X Nat |-> Append(p[1], p[2] % 10)]
<1>1. b \in [Nat -> DigitSeq] /\ r \in [Nat -> Nat]
  BY DEF DigitSeq
<1>2. g \in [DigitSeq \X Nat -> DigitSeq]
  BY Division, Appended
<1>3. \A v \in Nat : r[v] = 0 \/ r[v \div 10] < r[v]
  BY Division
<1>4. PICK f \in [Nat -> DigitSeq] : \A v \in Nat :
           f[v] = IF r[v] = 0 THEN b[v] ELSE g[<<f[v \div 10], v>>]
  <2> HIDE DEF r, b, g
  <2>1. Defined(Nat, DigitSeq, r, Tenth, b, g)
    BY <1>1, <1>2, <1>3, DigitRecursion
  <2> QED
    BY <2>1 DEF Defined, Defines, Tenth
<1>5. f = [v \in Nat |-> IF v = 0 THEN <<>> ELSE Append(f[v \div 10], v % 10)]
  <2>1. \A v \in Nat : f[v \div 10] \in DigitSeq
    BY Division
  <2> QED
    BY <1>4, <2>1
<1>6. exploded = CHOOSE h : h = [v \in Nat |->
                   IF v = 0 THEN <<>> ELSE Append(h[v \div 10], v % 10)]
  BY DEF exploded
<1>7. exploded = [v \in Nat |->
            IF v = 0 THEN <<>> ELSE Append(exploded[v \div 10], v % 10)]
  BY <1>5, <1>6, Zenon
<1>8. exploded \in [Nat -> DigitSeq]
  <2>1. 0 \in {v \in Nat : exploded[v] \in DigitSeq}
    BY <1>7 DEF DigitSeq
  <2>2. ASSUME NEW v \in Nat \ {0}, exploded[v \div 10] \in DigitSeq
        PROVE  exploded[v] \in DigitSeq
    <3>1. exploded[v] = Append(exploded[v \div 10], v % 10)
      BY <1>7
    <3> QED
      BY <2>2, <3>1, Division, Appended
  <2>3. Nat \subseteq {v \in Nat : exploded[v] \in DigitSeq}
    BY <2>1, <2>2, ByDigits
  <2> QED
    BY <1>7, <2>3
<1> QED
  BY <1>7, <1>8, Zenon

\* UintToStrImpl (56-83) does so down to the first digit.
LEMMA UintToStrUnfolds ==
  /\ UintToStrImpl \in [Nat -> DigitSeq]
  /\ \A v \in Nat :
       UintToStrImpl[v] = IF v > 9 THEN Append(UintToStrImpl[v \div 10], v % 10)
                          ELSE <<v>>
<1> DEFINE r == [v \in Nat |-> IF v > 9 THEN v ELSE 0]
           b == [v \in Nat |-> IF v > 9 THEN <<>> ELSE <<v>>]
           g == [p \in DigitSeq \X Nat |-> Append(p[1], p[2] % 10)]
<1>1. b \in [Nat -> DigitSeq] /\ r \in [Nat -> Nat]
  BY DEF DigitSeq
<1>2. g \in [DigitSeq \X Nat -> DigitSeq]
  BY Division, Appended
<1>3. \A v \in Nat : r[v] = 0 \/ r[v \div 10] < r[v]
  BY Division
<1>4. PICK f \in [Nat -> DigitSeq] : \A v \in Nat :
           f[v] = IF r[v] = 0 THEN b[v] ELSE g[<<f[v \div 10], v>>]
  <2> HIDE DEF r, b, g
  <2>1. Defined(Nat, DigitSeq, r, Tenth, b, g)
    BY <1>1, <1>2, <1>3, DigitRecursion
  <2> QED
    BY <2>1 DEF Defined, Defines, Tenth
<1>5. f = [v \in Nat |-> IF HasMoreDigits(v) THEN Append(f[v \div 10], v % 10)
                         ELSE <<v>>]
  <2>1. \A v \in Nat : f[v \div 10] \in DigitSeq
    BY Division
  <2>2. ASSUME NEW v \in Nat
        PROVE  f[v] = IF HasMoreDigits(v) THEN Append(f[v \div 10], v % 10)
                      ELSE <<v>>
    <3>1. CASE v > 9
      <4>1. r[v] # 0
        BY <3>1
      <4>2. f[v] = g[<<f[v \div 10], v>>]
        BY <1>4, <4>1
      <4> QED
        BY <2>1, <3>1, <4>2 DEF HasMoreDigits
    <3>2. CASE ~ v > 9
      BY <1>4, <3>2 DEF HasMoreDigits
    <3> QED
      BY <3>1, <3>2
  <2> QED
    BY <1>4, <2>2
<1>6. UintToStrImpl = CHOOSE h : h = [v \in Nat |->
          IF HasMoreDigits(v) THEN Append(h[v \div 10], v % 10) ELSE <<v>>]
  BY DEF UintToStrImpl
<1>7. UintToStrImpl = [v \in Nat |->
          IF HasMoreDigits(v) THEN Append(UintToStrImpl[v \div 10], v % 10)
          ELSE <<v>>]
  BY <1>5, <1>6, Zenon
<1>8. UintToStrImpl \in [Nat -> DigitSeq]
  <2> DEFINE T == {v \in Nat : UintToStrImpl[v] \in DigitSeq}
  <2>1. 0 \in T
    BY <1>7 DEF DigitSeq, HasMoreDigits
  <2>2. ASSUME NEW v \in Nat \ {0}, v \div 10 \in T
        PROVE  v \in T
    <3>1. CASE v > 9
      <4>1. UintToStrImpl[v] = Append(UintToStrImpl[v \div 10], v % 10)
        BY <1>7, <3>1 DEF HasMoreDigits
      <4>2. UintToStrImpl[v \div 10] \in DigitSeq /\ v % 10 \in 0..9
        BY <2>2, Division
      <4>3. Append(UintToStrImpl[v \div 10], v % 10) \in DigitSeq
        BY <4>2, Appended
      <4> QED
        BY <4>1, <4>3
    <3>2. CASE ~ v > 9
      <4>1. UintToStrImpl[v] = <<v>> /\ v \in 0..9
        BY <1>7, <3>2 DEF HasMoreDigits
      <4>2. <<v>> \in DigitSeq
        BY <4>1 DEF DigitSeq
      <4> QED
        BY <4>1, <4>2
    <3> QED
      BY <3>1, <3>2
  <2>3. Nat \subseteq T
    BY <2>1, <2>2, ByDigits
  <2> QED
    BY <1>7, <2>3
<1> QED
  <2>1. \A v \in Nat : UintToStrImpl[v] =
          IF HasMoreDigits(v) THEN Append(UintToStrImpl[v \div 10], v % 10)
          ELSE <<v>>
    BY <1>7, Zenon
  <2> QED
    BY <1>8, <2>1 DEF HasMoreDigits

\* length() (98-103) counts the divisions by ten.
LEMMA LengthUnfolds ==
  /\ lengthOf \in [Nat -> Nat]
  /\ \A v \in Nat :
       lengthOf[v] = IF v = 0 THEN 0 ELSE 1 + lengthOf[v \div 10]
<1> DEFINE r == [v \in Nat |-> v]
           b == [v \in Nat |-> 0]
           g == [p \in Nat \X Nat |-> 1 + p[1]]
<1>1. b \in [Nat -> Nat] /\ r \in [Nat -> Nat] /\ g \in [Nat \X Nat -> Nat]
  OBVIOUS
<1>2. \A v \in Nat : r[v] = 0 \/ r[v \div 10] < r[v]
  BY Division
<1>3. PICK f \in [Nat -> Nat] : \A v \in Nat :
           f[v] = IF r[v] = 0 THEN b[v] ELSE g[<<f[v \div 10], v>>]
  <2> HIDE DEF r, b, g
  <2>1. Defined(Nat, Nat, r, Tenth, b, g)
    BY <1>1, <1>2, DigitRecursion
  <2> QED
    BY <2>1 DEF Defined, Defines, Tenth
<1>4. f = [v \in Nat |-> IF v = 0 THEN 0 ELSE 1 + f[v \div 10]]
  <2>1. \A v \in Nat : f[v \div 10] \in Nat
    BY Division
  <2> QED
    BY <1>3, <2>1
<1>5. lengthOf = CHOOSE h :
        h = [v \in Nat |-> IF v = 0 THEN 0 ELSE 1 + h[v \div 10]]
  BY DEF lengthOf
<1>6. lengthOf = [v \in Nat |-> IF v = 0 THEN 0 ELSE 1 + lengthOf[v \div 10]]
  BY <1>4, <1>5, Zenon
<1>7. \A v \in Nat : lengthOf[v] = IF v = 0 THEN 0 ELSE 1 + lengthOf[v \div 10]
  BY <1>6, Zenon
<1>8. lengthOf \in [Nat -> Nat]
  <2> DEFINE T == {v \in Nat : lengthOf[v] \in Nat}
  <2>1. 0 \in T
    BY <1>7
  <2>2. ASSUME NEW v \in Nat \ {0}, v \div 10 \in T PROVE v \in T
    BY <1>7, <2>2
  <2>3. Nat \subseteq T
    BY <2>1, <2>2, ByDigits
  <2> QED
    BY <1>6, <2>3
<1> QED
  BY <1>7, <1>8, Zenon

\* A number with a digit more is a number.
LEMMA TimesTen ==
  ASSUME NEW n \in Nat, NEW d \in 0..9
  PROVE  n * 10 + d \in Nat
  OBVIOUS

\* The last digit of a sequence, and those before it.
LEMMA FrontDigits ==
  ASSUME NEW s \in DigitSeq, s # <<>>
  PROVE  /\ Front(s) \in DigitSeq /\ Len(Front(s)) = Len(s) - 1
         /\ Last(s) \in 0..9 /\ Len(s) \in Nat /\ Len(s) # 0
<1>1. Len(s) \in Nat /\ Len(s) # 0
  BY DEF DigitSeq
<1>2. Front(s) \in DigitSeq /\ Len(Front(s)) = Len(s) - 1
  <2>1. \A i \in 1..(Len(s) - 1) : s[i] \in 0..9
    BY DEF DigitSeq
  <2>2. /\ SubSeq(s, 1, Len(s) - 1) \in Seq(0..9)
        /\ Len(SubSeq(s, 1, Len(s) - 1)) =
             IF 1 <= Len(s) - 1 THEN (Len(s) - 1) - 1 + 1 ELSE 0
    BY <1>1, <2>1, SubSeqProperties
  <2>3. Len(SubSeq(s, 1, Len(s) - 1)) = Len(s) - 1
    <3> DEFINE n == Len(s)
               u == SubSeq(s, 1, n - 1)
    <3>1. Len(u) = IF 1 <= n - 1 THEN n - 1 ELSE 0
      <4>1. n - 1 \in Int /\ (n - 1) - 1 + 1 = n - 1
        BY <1>1
      <4> QED
        BY <2>2, <4>1
    <3> HIDE DEF n, u
    <3>2. n \in Nat /\ n # 0
      BY <1>1 DEF n
    <3>3. Len(u) = n - 1
      BY <3>1, <3>2
    <3> QED
      BY <3>3 DEF n, u
  <2>4. Front(s) = SubSeq(s, 1, Len(s) - 1)
    BY DEF Front
  <2> QED
    BY <2>2, <2>3, <2>4 DEF DigitSeq
<1>3. Last(s) \in 0..9
  BY <1>1 DEF Last, DigitSeq
<1> QED
  BY <1>1, <1>2, <1>3

\* The value of a sequence of digits is that without the last, times ten,
\* and the last.
LEMMA ValueUnfolds ==
  /\ ValueOf \in [DigitSeq -> Nat]
  /\ \A s \in DigitSeq :
       ValueOf[s] = IF s = <<>> THEN 0 ELSE ValueOf[Front(s)] * 10 + Last(s)
<1> DEFINE r == [s \in DigitSeq |-> Len(s)]
           d == [s \in DigitSeq |-> IF s = <<>> THEN <<>> ELSE Front(s)]
           b == [s \in DigitSeq |-> 0]
           g == [p \in Nat \X DigitSeq |->
                   IF p[2] = <<>> THEN 0 ELSE p[1] * 10 + Last(p[2])]
           Typed(h) == \A s \in DigitSeq : h[s] =
                         IF s = <<>> THEN 0 ELSE h[Front(s)] * 10 + Last(s)
<1>1. /\ r \in [DigitSeq -> Nat] /\ b \in [DigitSeq -> Nat]
      /\ d \in [DigitSeq -> DigitSeq]
  <2>1. \A s \in DigitSeq : Len(s) \in Nat
    BY DEF DigitSeq
  <2>2. <<>> \in DigitSeq
    BY DEF DigitSeq
  <2> QED
    BY <2>1, <2>2, FrontDigits
<1>2. g \in [Nat \X DigitSeq -> Nat]
  <2>1. \A n \in Nat, s \in DigitSeq : s # <<>> => n * 10 + Last(s) \in Nat
    BY FrontDigits, TimesTen
  <2> QED
    BY <2>1
<1>3. \A s \in DigitSeq : r[s] # 0 => r[d[s]] < r[s]
  <2> SUFFICES ASSUME NEW s \in DigitSeq, Len(s) # 0
               PROVE  r[d[s]] < Len(s)
    OBVIOUS
  <2>1. s # <<>>
    OBVIOUS
  <2> QED
    BY <2>1, FrontDigits
<1>4. PICK f \in [DigitSeq -> Nat] : \A s \in DigitSeq :
        f[s] = IF r[s] = 0 THEN b[s] ELSE g[<<f[d[s]], s>>]
  <2> HIDE DEF r, b, g, d
  <2>1. Defined(DigitSeq, Nat, r, d, b, g)
    BY <1>1, <1>2, <1>3, Recursion
  <2> QED
    BY <2>1 DEF Defined, Defines
<1>5. f = [s \in DigitSeq |->
             IF s = <<>> THEN 0 ELSE f[Front(s)] * 10 + Last(s)]
  <2>1. ASSUME NEW s \in DigitSeq
        PROVE  f[s] = IF s = <<>> THEN 0 ELSE f[Front(s)] * 10 + Last(s)
    <3>1. CASE s = <<>>
      <4>1. r[s] = 0
        BY <3>1
      <4> QED
        BY <1>4, <3>1, <4>1
    <3>2. CASE s # <<>>
      <4>1. r[s] # 0 /\ f[Front(s)] \in Nat /\ d[s] = Front(s)
        BY <3>2, FrontDigits
      <4> QED
        BY <1>4, <3>2, <4>1
    <3> QED
      BY <3>1, <3>2
  <2> QED
    BY <2>1
<1>6. ValueOf = CHOOSE h : h = [s \in DigitSeq |->
                    IF s = <<>> THEN 0 ELSE h[Front(s)] * 10 + Last(s)]
  BY DEF ValueOf, DigitSeq
<1>7. ValueOf = [s \in DigitSeq |->
                    IF s = <<>> THEN 0 ELSE ValueOf[Front(s)] * 10 + Last(s)]
  BY <1>5, <1>6, Zenon
<1>8. \A s \in DigitSeq : ValueOf[s] =
        IF s = <<>> THEN 0 ELSE ValueOf[Front(s)] * 10 + Last(s)
  BY <1>7, Zenon
<1>9. ASSUME NEW s \in DigitSeq PROVE ValueOf[s] \in Nat
  <2> DEFINE T == {n \in Nat : \A q \in DigitSeq :
                                 Len(q) = n => ValueOf[q] \in Nat}
  <2>1. 0 \in T
    <3>1. \A q \in DigitSeq : Len(q) = 0 => q = <<>>
      BY DEF DigitSeq
    <3> QED
      BY <1>8, <3>1
  <2>2. ASSUME NEW n \in T PROVE n + 1 \in T
    <3> SUFFICES ASSUME NEW q \in DigitSeq, Len(q) = n + 1
                 PROVE  ValueOf[q] \in Nat
      OBVIOUS
    <3>1. q # <<>>
      OBVIOUS
    <3>2. Front(q) \in DigitSeq /\ Len(Front(q)) = n /\ Last(q) \in 0..9
      BY <3>1, FrontDigits
    <3>3. ValueOf[Front(q)] \in Nat
      BY <3>2
    <3>4. ValueOf[Front(q)] * 10 + Last(q) \in Nat
      BY <3>2, <3>3, TimesTen
    <3> QED
      BY <1>8, <3>1, <3>4
  <2>3. T = Nat
    <3> HIDE DEF T
    <3> QED
      BY <2>1, <2>2, Induct DEF T
  <2>4. Len(s) \in T
    BY <2>3 DEF DigitSeq
  <2> QED
    BY <2>4
<1> QED
  BY <1>7, <1>8, <1>9

\* The loop (120-125) divides val by ten in each round.
LEMMA RemainingUnfolds ==
  ASSUME NEW v \in Nat
  PROVE  /\ Remaining(v) \in [Nat -> Nat]
         /\ Remaining(v)[0] = v
         /\ \A k \in Nat : Remaining(v)[k + 1] = Remaining(v)[k] \div 10
<1> DEFINE r == [k \in Nat |-> k]
           d == [k \in Nat |-> IF k = 0 THEN 0 ELSE k - 1]
           b == [k \in Nat |-> v]
           g == [p \in Nat \X Nat |-> p[1] \div 10]
<1>1. /\ r \in [Nat -> Nat] /\ b \in [Nat -> Nat] /\ d \in [Nat -> Nat]
      /\ g \in [Nat \X Nat -> Nat]
  BY Division
<1>2. \A k \in Nat : r[k] # 0 => r[d[k]] < r[k]
  OBVIOUS
<1>3. PICK f \in [Nat -> Nat] : \A k \in Nat :
        f[k] = IF r[k] = 0 THEN b[k] ELSE g[<<f[d[k]], k>>]
  <2> HIDE DEF r, b, g, d
  <2>1. Defined(Nat, Nat, r, d, b, g)
    BY <1>1, <1>2, Recursion
  <2> QED
    BY <2>1 DEF Defined, Defines
<1>4. f = [k \in Nat |-> IF k = 0 THEN v ELSE f[k - 1] \div 10]
  <2>1. \A k \in Nat : f[d[k]] \in Nat /\ (k # 0 => d[k] = k - 1)
    BY <1>1, <1>3
  <2> QED
    BY <1>3, <2>1, ZenonT(20)
<1>5. Remaining(v) = CHOOSE h :
        h = [k \in Nat |-> IF k = 0 THEN v ELSE h[k - 1] \div 10]
  BY DEF Remaining
<1>6. Remaining(v) =
        [k \in Nat |-> IF k = 0 THEN v ELSE Remaining(v)[k - 1] \div 10]
  BY <1>4, <1>5, Zenon
<1>7. \A k \in Nat :
        Remaining(v)[k] = IF k = 0 THEN v ELSE Remaining(v)[k - 1] \div 10
  BY <1>6, Zenon
<1>8. \A k \in Nat : Remaining(v)[k + 1] = Remaining(v)[k] \div 10
  BY <1>7
<1>9. Remaining(v) \in [Nat -> Nat]
  <2> DEFINE T == {k \in Nat : Remaining(v)[k] \in Nat}
  <2>1. 0 \in T
    BY <1>7
  <2>2. ASSUME NEW k \in T PROVE k + 1 \in T
    BY <1>8, Division
  <2>3. T = Nat
    <3> HIDE DEF T
    <3> QED
      BY <2>1, <2>2, Induct DEF T
  <2> QED
    <3> DEFINE R == Remaining(v)
    <3>1. R = [k \in Nat |-> IF k = 0 THEN v ELSE R[k - 1] \div 10]
      BY <1>6
    <3>2. \A k \in Nat : R[k] \in Nat
      BY <2>3
    <3> HIDE DEF R
    <3>3. R \in [Nat -> Nat]
      BY <3>1, <3>2
    <3> QED
      BY <3>3 DEF R
<1> QED
  BY <1>7, <1>8, <1>9

\* The digits of a number that is not 0.
LEMMA ExplodedReads ==
  \A v \in Nat \ {0} :
    /\ exploded[v] \in DigitSeq /\ exploded[v] # <<>>
    /\ exploded[v][1] # 0
    /\ ValueOf[exploded[v]] = v
    /\ UintToStrImpl[v] = exploded[v]
<1> DEFINE P(v) == /\ exploded[v] \in DigitSeq /\ exploded[v] # <<>>
                   /\ exploded[v][1] # 0
                   /\ ValueOf[exploded[v]] = v
                   /\ UintToStrImpl[v] = exploded[v]
           T == {v \in Nat : v # 0 => P(v)}
<1>1. 0 \in T
  OBVIOUS
<1>2. ASSUME NEW v \in Nat \ {0}, v \div 10 \in T PROVE v \in T
  <2> DEFINE w == v \div 10
             d == v % 10
  <2>1. w \in Nat /\ d \in 0..9 /\ v = w * 10 + d /\ (v <= 9 => w = 0 /\ d = v)
        /\ (v > 9 => w # 0)
    BY Division
  <2>2. exploded[v] = Append(exploded[w], d) /\ exploded[w] \in DigitSeq
    BY <2>1, ExplodedUnfolds
  <2>3. /\ exploded[v] \in DigitSeq /\ exploded[v] # <<>>
        /\ Front(exploded[v]) = exploded[w] /\ Last(exploded[v]) = d
    <3> DEFINE e == exploded[w]
    <3> HIDE DEF w, d, e
    <3>1. e \in DigitSeq /\ d \in 0..9
      BY <2>1, <2>2 DEF e
    <3>2. /\ Append(e, d) \in DigitSeq /\ Append(e, d) # <<>>
          /\ Front(Append(e, d)) = e /\ Last(Append(e, d)) = d
      BY <3>1, Appended
    <3> QED
      BY <2>2, <3>2 DEF e
  <2>4. ValueOf[exploded[v]] = ValueOf[exploded[w]] * 10 + d
    BY <2>3, ValueUnfolds
  <2>5. CASE w = 0
    <3>1. exploded[w] = <<>> /\ <<>> \in DigitSeq
      BY <2>2, <2>5, ExplodedUnfolds
    <3>2. ValueOf[exploded[w]] = 0
      BY <3>1, ValueUnfolds
    <3>3. d = v /\ v <= 9
      BY <2>1, <2>5
    <3>4. exploded[v] = <<v>>
      BY <2>2, <3>1, <3>3
    <3>5. UintToStrImpl[v] = <<v>>
      BY <3>3, UintToStrUnfolds
    <3>6. ValueOf[exploded[v]] = v
      BY <2>4, <3>2, <3>3
    <3> QED
      BY <2>3, <3>4, <3>5, <3>6
  <2>6. CASE w # 0
    <3>1. P(w)
      BY <1>2, <2>1, <2>6
    <3>2. v > 9
      BY <2>1, <2>6
    <3>3. UintToStrImpl[v] = Append(UintToStrImpl[w], d)
      BY <3>2, UintToStrUnfolds
    <3>4. exploded[v][1] = exploded[w][1]
      BY <2>1, <2>2, <3>1, Appended
    <3>5. ValueOf[exploded[v]] = w * 10 + d
      BY <2>4, <3>1
    <3> HIDE DEF w, d
    <3> QED
      BY <2>1, <2>2, <2>3, <3>1, <3>3, <3>4, <3>5
  <2> QED
    BY <2>5, <2>6
<1>3. Nat \subseteq T
  <2> HIDE DEF T
  <2> QED
    BY <1>1, <1>2, ByDigits
<1> QED
  BY <1>3

\* One round of the loop more is one from the tenth part.
LEMMA RemainingShifts ==
  ASSUME NEW v \in Nat
  PROVE  \A k \in Nat : Remaining(v)[k + 1] = Remaining(v \div 10)[k]
<1> DEFINE w == v \div 10
           T == {k \in Nat : Remaining(v)[k + 1] = Remaining(w)[k]}
<1>1. w \in Nat
  BY Division
<1>2. 0 \in T
  <2>1. Remaining(v)[0 + 1] = Remaining(v)[0] \div 10
    BY RemainingUnfolds
  <2> QED
    BY <1>1, <2>1, RemainingUnfolds
<1>3. ASSUME NEW k \in T PROVE k + 1 \in T
  <2>1. Remaining(v)[(k + 1) + 1] = Remaining(v)[k + 1] \div 10
    <3> DEFINE j == k + 1
    <3>1. j \in Nat
      OBVIOUS
    <3> HIDE DEF j
    <3>2. Remaining(v)[j + 1] = Remaining(v)[j] \div 10
      BY <3>1, RemainingUnfolds
    <3> QED
      BY <3>2 DEF j
  <2>2. Remaining(w)[k + 1] = Remaining(w)[k] \div 10
    BY <1>1, RemainingUnfolds
  <2> QED
    BY <2>1, <2>2
<1>4. T = Nat
  <2> HIDE DEF T
  <2> QED
    BY <1>2, <1>3, Induct DEF T
<1> QED
  BY <1>4

\* The digits that the loop finds from the last one down.
LEMMA RoundsExplode ==
  \A v \in Nat :
    /\ Len(exploded[v]) = lengthOf[v]
    /\ \A d \in 1..lengthOf[v] :
         exploded[v][d] = Remaining(v)[lengthOf[v] - d] % 10
<1> DEFINE P(v) == /\ Len(exploded[v]) = lengthOf[v]
                   /\ \A d \in 1..lengthOf[v] :
                        exploded[v][d] = Remaining(v)[lengthOf[v] - d] % 10
           T == {v \in Nat : P(v)}
<1>1. 0 \in T
  <2>1. exploded[0] = <<>> /\ lengthOf[0] = 0
    BY ExplodedUnfolds, LengthUnfolds
  <2> QED
    BY <2>1
<1>2. ASSUME NEW v \in Nat \ {0}, v \div 10 \in T PROVE v \in T
  <2> DEFINE w == v \div 10
  <2>1. w \in Nat /\ v % 10 \in 0..9 /\ P(w)
    BY <1>2, Division
  <2>2. exploded[v] = Append(exploded[w], v % 10) /\ exploded[w] \in DigitSeq
    BY <2>1, ExplodedUnfolds
  <2>3. lengthOf[v] = 1 + lengthOf[w] /\ lengthOf[w] \in Nat
    BY <2>1, LengthUnfolds
  <2>4. /\ Len(exploded[v]) = lengthOf[w] + 1
        /\ \A i \in 1..lengthOf[w] : exploded[v][i] = exploded[w][i]
        /\ exploded[v][lengthOf[w] + 1] = v % 10
    BY <2>1, <2>2, Appended
  <2>5. ASSUME NEW d \in 1..lengthOf[v]
        PROVE  exploded[v][d] = Remaining(v)[lengthOf[v] - d] % 10
    <3>1. CASE d = lengthOf[w] + 1
      <4>1. lengthOf[v] - d = 0
        BY <2>3, <3>1
      <4>2. Remaining(v)[0] = v
        BY RemainingUnfolds
      <4> QED
        BY <2>4, <3>1, <4>1, <4>2
    <3>2. CASE d # lengthOf[w] + 1
      <4> DEFINE k == lengthOf[w] - d
      <4>1. d \in 1..lengthOf[w] /\ k \in Nat /\ lengthOf[v] - d = k + 1
        BY <2>3, <3>2
      <4>2. Remaining(v)[k + 1] = Remaining(w)[k]
        BY <4>1, RemainingShifts
      <4>3. exploded[w][d] = Remaining(w)[k] % 10
        BY <2>1, <4>1
      <4> QED
        BY <2>4, <4>1, <4>2, <4>3
    <3> QED
      BY <3>1, <3>2
  <2> QED
    BY <2>3, <2>4, <2>5
<1>3. Nat \subseteq T
  <2> HIDE DEF T
  <2> QED
    BY <1>1, <1>2, ByDigits
<1> QED
  BY <1>3

\* An int has ten digits at most.
Short(m, k) == \A v \in Nat : v < m => lengthOf[v] <= k

\* Ten times as large a number has at most one digit more.
LEMMA OneDigitMore ==
  ASSUME NEW m \in Nat, NEW k \in Nat, NEW n \in Nat, n = 10 * m, Short(m, k)
  PROVE  Short(n, k + 1)
<1> SUFFICES ASSUME NEW v \in Nat, v < 10 * m PROVE lengthOf[v] <= k + 1
  BY DEF Short
<1>1. v \div 10 \in Nat /\ v \div 10 < m
  BY Division
<1>2. lengthOf[v \div 10] <= k /\ lengthOf[v \div 10] \in Nat
  BY <1>1, LengthUnfolds DEF Short
<1>3. CASE v = 0
  BY <1>3, LengthUnfolds
<1>4. CASE v # 0
  BY <1>2, <1>4, LengthUnfolds
<1> QED
  BY <1>3, <1>4

\* A hundred times as large a number has at most two digits more.
LEMMA TwoDigitsMore ==
  ASSUME NEW m \in Nat, NEW k \in Nat, NEW n \in Nat, n = 100 * m, Short(m, k)
  PROVE  Short(n, k + 2)
<1> DEFINE p == 10 * m
           j == k + 1
<1>1. p \in Nat /\ j \in Nat /\ n = 10 * p /\ j + 1 = k + 2
  OBVIOUS
<1>2. Short(p, j)
  BY <1>1, OneDigitMore
<1> HIDE DEF p, j
<1>3. Short(n, j + 1)
  BY <1>1, <1>2, OneDigitMore
<1> QED
  BY <1>1, <1>3

\* Ten thousand times as large a number has at most four digits more.
LEMMA FourDigitsMore ==
  ASSUME NEW m \in Nat, NEW k \in Nat, NEW n \in Nat, n = 10000 * m,
         Short(m, k)
  PROVE  Short(n, k + 4)
<1> DEFINE p == 100 * m
           j == k + 2
<1>1. p \in Nat /\ j \in Nat /\ n = 100 * p /\ j + 2 = k + 4
  OBVIOUS
<1>2. Short(p, j)
  BY <1>1, TwoDigitsMore
<1> HIDE DEF p, j
<1>3. Short(n, j + 2)
  BY <1>1, <1>2, TwoDigitsMore
<1> QED
  BY <1>1, <1>3

\* An int has at most ten digits, fewer than the array has elements (127).
LEMMA LengthOfInt ==
  \A v \in Nat : v \div 65536 < 32768 => lengthOf[v] <= 10
<1> DEFINE m == 10000 * 10000
           n == 100 * m
<1>1. Short(1, 0)
  BY LengthUnfolds DEF Short
<1>2. Short(10000, 0 + 4)
  BY <1>1, FourDigitsMore
<1>3. m \in Nat /\ n \in Nat /\ 0 + 4 = 4 /\ 4 + 4 = 8 /\ 8 + 2 = 10
  OBVIOUS
<1>4. Short(m, 4 + 4)
  BY <1>2, <1>3, FourDigitsMore
<1> HIDE DEF m
<1>5. Short(n, 8 + 2)
  BY <1>3, <1>4, TwoDigitsMore
<1>6. \A v \in Nat : v \div 65536 < 32768 => v < n
  BY DEF m
<1> QED
  BY <1>3, <1>5, <1>6 DEF Short

\* The digits in str are the ones of approach1.
LEMMA FilledExplodes ==
  ASSUME NEW n \in Int, cabs(n) \div 65536 < 32768
  PROVE  /\ n # 0 => Filled(n) = explode(n) /\ WritesInside(n)
         /\ n = 0 => Filled(n) = <<>> /\ ~ WritesInside(n)
<1> DEFINE v == cabs(n)
           l == lengthOf[v]
           first == IF n < 0 THEN 1 ELSE 0
<1>1. v \in Nat /\ v \div 65536 < 32768 /\ (n = 0 <=> v = 0)
  BY DEF cabs
<1>2. l \in Nat /\ l <= 10 /\ length(n) = l
  BY <1>1, LengthUnfolds, LengthOfInt DEF length
<1>3. CASE n = 0
  <2>1. length(n) = 0
    BY <1>1, <1>3, LengthUnfolds DEF length
  <2>2. Last16(n) = 65535
    BY <1>3, <2>1 DEF Last16
  <2>3. Filled(n) = <<>>
    BY <1>3, <2>1 DEF Filled, Signed
  <2> QED
    BY <1>3, <2>2, <2>3 DEF WritesInside, StrSize
<1>4. CASE n # 0
  <2>1. l # 0
    BY <1>1, <1>4, LengthUnfolds
  <2>2. Last16(n) = first + l - 1
    <3>1. (l - 1) % 65536 = l - 1
      BY <1>2, <2>1
    <3> HIDE DEF l
    <3> QED
      BY <1>2, <3>1 DEF Last16
  <2>3. WritesInside(n)
    BY <1>2, <2>1, <2>2 DEF WritesInside, StrSize
  <2> DEFINE e == exploded[v]
             s == [d \in 1..length(n) |->
                     Remaining(v)[Last16(n) - (first + d - 1)] % 10]
  <2>4. e \in Seq(0..9) /\ Len(e) = l
    <3>1. e \in DigitSeq
      BY <1>1, ExplodedUnfolds
    <3>2. Len(e) = l
      BY <1>1, RoundsExplode
    <3> QED
      BY <3>1, <3>2 DEF DigitSeq
  <2>5. ASSUME NEW d \in 1..l PROVE s[d] = e[d]
    <3>1. Last16(n) - (first + d - 1) = l - d
      <4> HIDE DEF l
      <4> QED
        BY <1>2, <2>2
    <3>2. e[d] = Remaining(v)[l - d] % 10
      BY <1>1, RoundsExplode
    <3> HIDE DEF l, v, first
    <3> QED
      BY <1>2, <3>1, <3>2
  <2>6. s = e
    <3> DEFINE N == l
    <3>1. s = [d \in 1..N |-> s[d]]
      BY <1>2
    <3> HIDE DEF e, s, N
    <3>2. e = [d \in 1..N |-> e[d]]
      BY <2>4 DEF N
    <3>3. \A d \in 1..N : s[d] = e[d]
      BY <2>5 DEF N
    <3> QED
      BY <3>1, <3>2, <3>3
  <2>7. Filled(n) = Signed(n, s) /\ explode(n) = Signed(n, e)
    BY DEF Filled, explode
  <2> QED
    BY <1>4, <2>3, <2>6, <2>7
<1> QED
  BY <1>3, <1>4

\* A string with the sign is read as the digits after it.
LEMMA SignedReads ==
  ASSUME NEW n \in Int, NEW s \in DigitSeq, s # <<>>,
         s[1] = 0 => Len(s) = 1, ValueOf[s] = cabs(n)
  PROVE  Reads(Signed(n, s), n)
<1> DEFINE q == Signed(n, s)
           digits == IF n < 0 THEN Tail(q) ELSE q
<1>1. digits = s
  <2>1. CASE n < 0
    <3>1. q = <<Minus>> \o s /\ digits = Tail(q)
      BY <2>1 DEF Signed
    <3>2. Tail(<<Minus>> \o s) = s
      <4>1. s \in Seq({Minus} \cup 0..9) /\ <<Minus>> \in Seq({Minus} \cup 0..9)
        BY DEF DigitSeq
      <4> QED
        BY <4>1
    <3> QED
      BY <3>1, <3>2, ZenonT(20)
  <2>2. CASE ~ n < 0
    BY <2>2 DEF Signed
  <2> QED
    BY <2>1, <2>2
<1>2. q = Signed(n, digits)
  BY <1>1
<1>3. s # <<>> /\ s \in Seq(0..9)
  BY DEF DigitSeq
<1> HIDE DEF q
<1>4. Reads(q, n) <=> /\ q = Signed(n, digits)
                      /\ digits # <<>> /\ digits \in Seq(0..9)
                      /\ digits[1] = 0 => Len(digits) = 1
                      /\ ValueOf[digits] = cabs(n)
  BY DEF Reads
<1> HIDE DEF digits
<1>5. Reads(q, n)
  BY <1>1, <1>2, <1>3, <1>4
<1> QED
  BY <1>5 DEF q

\* What the three conversions print.
LEMMA Printed ==
  ASSUME CompileInit PROVE PrintsTheNumber
<1>1. number \in Int /\ cabs(number) \div 65536 < 32768
  BY NumberAssumption DEF CompileInit
<1> DEFINE v == cabs(number)
<1>2. v \in Nat /\ (number = 0 <=> v = 0)
  BY <1>1 DEF cabs
<1>3. CASE number = 0
  <2>1. UintToStrImpl[v] = <<0>> /\ exploded[v] = <<>>
    BY <1>2, <1>3, UintToStrUnfolds, ExplodedUnfolds
  <2>2. explode(0) = <<>>
    BY <1>3, <2>1 DEF explode, Signed
  <2>3. <<0>> \in DigitSeq /\ <<>> \in DigitSeq /\ <<0>> # <<>>
    BY DEF DigitSeq
  <2>4. ValueOf[<<0>>] = 0
    <3>1. Front(<<0>>) = <<>> /\ Last(<<0>>) = 0
      BY DEF Front, Last
    <3>2. ValueOf[<<>>] = 0
      BY <2>3, ValueUnfolds
    <3> QED
      BY <2>3, <3>1, <3>2, ValueUnfolds
  <2>5. Reads(UintToStr(number), number)
    <3>1. cabs(number) = 0
      BY <1>2, <1>3
    <3> HIDE DEF v
    <3> QED
      BY <1>1, <2>1, <2>3, <2>4, <3>1, SignedReads DEF UintToStr, v
  <2> QED
    BY <1>1, <1>3, <2>2, <2>5, FilledExplodes DEF PrintsTheNumber
<1>4. CASE number # 0
  <2>1. /\ exploded[v] \in DigitSeq /\ exploded[v] # <<>>
        /\ exploded[v][1] # 0
        /\ ValueOf[exploded[v]] = cabs(number)
        /\ UintToStrImpl[v] = exploded[v]
    BY <1>2, <1>4, ExplodedReads
  <2>2. Reads(Signed(number, exploded[v]), number)
    BY <1>1, <2>1, SignedReads
  <2>3. explode(number) = Signed(number, exploded[v])
        /\ UintToStr(number) = Signed(number, exploded[v])
    BY <2>1 DEF explode, UintToStr
  <2>4. Filled(number) = explode(number) /\ WritesInside(number)
    BY <1>1, <1>4, FilledExplodes
  <2> QED
    BY <1>4, <2>2, <2>3, <2>4 DEF PrintsTheNumber
<1> QED
  BY <1>3, <1>4
-----------------------------------------------------------------------------
\* RemoveDuplicates of a list from i on is made from that of the list from i
\* + 1 on.
LEMMA DeduplicatedUnfolds ==
  ASSUME NEW E, NEW s \in Seq(E)
  PROVE  \A i \in 1..(Len(s) + 1) :
           /\ Deduplicated(s)[i] \in Seq(E)
           /\ Deduplicated(s)[i] =
                IF i > Len(s) THEN <<>>
                ELSE IF DuplicateAhead(s, i) THEN Deduplicated(s)[i + 1]
                ELSE <<s[i]>> \o Deduplicated(s)[i + 1]
<1> DEFINE L == Len(s)
           D == 1..(L + 1)
           r == [i \in D |-> L + 1 - i]
           d == [i \in D |-> IF i > L THEN i ELSE i + 1]
           b == [i \in D |-> <<>>]
           g == [p \in Seq(E) \X D |->
                   IF p[2] > L THEN <<>>
                   ELSE IF DuplicateAhead(s, p[2]) THEN p[1]
                   ELSE <<s[p[2]]>> \o p[1]]
<1>1. L \in Nat
  OBVIOUS
<1>2. r \in [D -> Nat] /\ d \in [D -> D] /\ b \in [D -> Seq(E)]
  BY <1>1
<1>3. g \in [Seq(E) \X D -> Seq(E)]
  <2>1. ASSUME NEW t \in Seq(E), NEW i \in D, ~ i > L
        PROVE  <<s[i]>> \o t \in Seq(E)
    <3>1. s[i] \in E
      BY <1>1, <2>1
    <3> QED
      BY <3>1
  <2> HIDE DEF L, D
  <2> QED
    BY <2>1
<1>4. \A i \in D : r[i] # 0 => r[d[i]] < r[i]
  BY <1>1
<1>5. PICK f \in [D -> Seq(E)] : \A i \in D :
        f[i] = IF r[i] = 0 THEN b[i] ELSE g[<<f[d[i]], i>>]
  <2> HIDE DEF r, b, g, d, D
  <2>1. Defined(D, Seq(E), r, d, b, g)
    BY <1>2, <1>3, <1>4, Recursion
  <2> QED
    BY <2>1 DEF Defined, Defines
<1>6. f = [i \in D |->
             IF i > L THEN <<>>
             ELSE IF DuplicateAhead(s, i) THEN f[i + 1]
              ELSE <<s[i]>> \o f[i + 1]]
  <2>1. ASSUME NEW i \in D
        PROVE  f[i] = IF i > L THEN <<>>
                      ELSE IF DuplicateAhead(s, i) THEN f[i + 1]
                      ELSE <<s[i]>> \o f[i + 1]
    <3>1. CASE i > L
      <4>1. r[i] = 0
        BY <1>1, <3>1
      <4> HIDE DEF r, g, d, L
      <4> QED
        BY <1>5, <3>1, <4>1
    <3>2. CASE ~ i > L
      <4>1. r[i] # 0 /\ d[i] = i + 1 /\ i + 1 \in D
        BY <1>1, <3>2
      <4>2. f[i + 1] \in Seq(E)
        BY <4>1
      <4>3. f[i] = g[<<f[i + 1], i>>]
        <5> HIDE DEF r, g, d, L
        <5> QED
          BY <1>5, <4>1
      <4> HIDE DEF L, D
      <4> QED
        BY <3>2, <4>2, <4>3
    <3> QED
      BY <3>1, <3>2
  <2> HIDE DEF L, D
  <2> QED
    BY <2>1
<1>7. Deduplicated(s) = CHOOSE h : h = [i \in D |->
             IF i > L THEN <<>>
             ELSE IF DuplicateAhead(s, i) THEN h[i + 1]
              ELSE <<s[i]>> \o h[i + 1]]
  BY DEF Deduplicated
<1> HIDE DEF D, L
<1>8. Deduplicated(s) = [i \in D |->
        IF i > L THEN <<>>
        ELSE IF DuplicateAhead(s, i) THEN Deduplicated(s)[i + 1]
        ELSE <<s[i]>> \o Deduplicated(s)[i + 1]]
  BY <1>6, <1>7, Zenon
<1>9. \A i \in D : Deduplicated(s)[i] =
        IF i > L THEN <<>>
        ELSE IF DuplicateAhead(s, i) THEN Deduplicated(s)[i + 1]
        ELSE <<s[i]>> \o Deduplicated(s)[i + 1]
  BY <1>8, Zenon
<1>10. ASSUME NEW i \in D PROVE Deduplicated(s)[i] \in Seq(E)
  <2> DEFINE T == {n \in Nat : \A j \in D : L + 1 - j = n =>
                                   Deduplicated(s)[j] \in Seq(E)}
  <2>1. 0 \in T
    <3> SUFFICES ASSUME NEW j \in D, L + 1 - j = 0
                 PROVE  Deduplicated(s)[j] \in Seq(E)
      OBVIOUS
    <3>1. j > L
      BY <1>1 DEF D
    <3>2. Deduplicated(s)[j] = <<>>
      BY <1>9, <3>1
    <3> QED
      BY <3>2
  <2>2. ASSUME NEW n \in T PROVE n + 1 \in T
    <3> SUFFICES ASSUME NEW j \in D, L + 1 - j = n + 1
                 PROVE  Deduplicated(s)[j] \in Seq(E)
      OBVIOUS
    <3>1. ~ j > L /\ j + 1 \in D /\ L + 1 - (j + 1) = n /\ j \in 1..L
      BY <1>1 DEF D
    <3>2. Deduplicated(s)[j + 1] \in Seq(E)
      BY <3>1
    <3>3. s[j] \in E
      BY <3>1 DEF L
    <3>4. <<s[j]>> \o Deduplicated(s)[j + 1] \in Seq(E)
      BY <3>2, <3>3
    <3> QED
      BY <1>9, <3>1, <3>2, <3>4
  <2>3. T = Nat
    <3> HIDE DEF T
    <3> QED
      BY <2>1, <2>2, Induct DEF T
  <2>4. L + 1 - i \in Nat
    BY <1>1 DEF D
  <2> QED
    BY <2>3, <2>4
<1> QED
  BY <1>9, <1>10 DEF D, L

\* Where the runs of the list from i on start, and their number up to j.
Starts(s, i) == {j \in i..Len(s) : j = i \/ s[j - 1] # s[j]}
Rank(s, i, j) == Cardinality({k \in Starts(s, i) : k <= j})

\* The runs of a list can be counted.
LEMMA StartsFinite ==
  ASSUME NEW E, NEW s \in Seq(E), NEW i \in Nat, NEW j
  PROVE  /\ IsFiniteSet(Starts(s, i))
         /\ IsFiniteSet({k \in Starts(s, i) : k <= j})
         /\ Rank(s, i, j) \in Nat /\ Rank(s, i, j) <= Cardinality(Starts(s, i))
         /\ Cardinality(Starts(s, i)) \in Nat
<1>1. IsFiniteSet(i..Len(s))
  BY FS_Interval
<1>2. IsFiniteSet(Starts(s, i))
  BY <1>1, FS_Subset DEF Starts
<1> QED
  BY <1>2, FS_Subset, FS_CardinalityType DEF Rank

\* From every position on, RemoveDuplicates has the first elements of the
\* runs.
LEMMA Runs ==
  ASSUME NEW E, NEW s \in Seq(E)
  PROVE  \A i \in 1..(Len(s) + 1) :
           /\ Len(Deduplicated(s)[i]) = Cardinality(Starts(s, i))
           /\ \A j \in Starts(s, i) : Deduplicated(s)[i][Rank(s, i, j)] = s[j]
<1> DEFINE L == Len(s)
           f == Deduplicated(s)
           P(i) == /\ Len(f[i]) = Cardinality(Starts(s, i))
                   /\ \A j \in Starts(s, i) : f[i][Rank(s, i, j)] = s[j]
           T == {n \in Nat : \A i \in 1..(L + 1) : L + 1 - i = n => P(i)}
<1>1. L \in Nat
  OBVIOUS
<1>2. 0 \in T
  <2> SUFFICES ASSUME NEW i \in 1..(L + 1), L + 1 - i = 0 PROVE P(i)
    OBVIOUS
  <2>1. i > L
    BY <1>1
  <2>2. f[i] = <<>>
    BY <2>1, DeduplicatedUnfolds
  <2>3. Starts(s, i) = {}
    BY <1>1, <2>1 DEF Starts
  <2> QED
    BY <2>2, <2>3, FS_EmptySet
<1>3. ASSUME NEW n \in T PROVE n + 1 \in T
  <2> SUFFICES ASSUME NEW i \in 1..(L + 1), L + 1 - i = n + 1 PROVE P(i)
    OBVIOUS
  <2>1. i \in 1..L /\ i + 1 \in 1..(L + 1) /\ L + 1 - (i + 1) = n /\ ~ i > L
        /\ i \in Nat /\ i + 1 \in Nat
    BY <1>1
  <2>2. P(i + 1)
    BY <2>1
  <2> DEFINE t == f[i + 1]
             A == Starts(s, i)
             B == Starts(s, i + 1)
  <2>3. t \in Seq(E) /\ f[i] \in Seq(E) /\ s[i] \in E
        /\ f[i] = IF DuplicateAhead(s, i) THEN t ELSE <<s[i]>> \o t
    <3>1. s[i] \in E
      BY <2>1
    <3>2. i \in 1..(Len(s) + 1) /\ i + 1 \in 1..(Len(s) + 1) /\ ~ i > Len(s)
      BY <2>1
    <3>3. Deduplicated(s)[i] \in Seq(E) /\ Deduplicated(s)[i + 1] \in Seq(E)
      BY <3>2, DeduplicatedUnfolds
    <3>4. Deduplicated(s)[i] =
            IF DuplicateAhead(s, i) THEN Deduplicated(s)[i + 1]
            ELSE <<s[i]>> \o Deduplicated(s)[i + 1]
      BY <3>2, DeduplicatedUnfolds
    <3> QED
      BY <3>1, <3>3, <3>4
  <2>4. IsFiniteSet(A) /\ IsFiniteSet(B)
    BY <2>1, StartsFinite
  <2>5. i \in A /\ i \notin B /\ A \subseteq Int /\ B \subseteq Int
        /\ \A j \in B : j > i
    BY <1>1, <2>1 DEF Starts
  <2>6. {k \in A : k <= i} = {i} /\ Rank(s, i, i) = 1
    <3>1. {k \in A : k <= i} = {i}
      BY <1>1, <2>1 DEF Starts
    <3> QED
      BY <3>1, FS_Singleton DEF Rank
  <2>7. CASE DuplicateAhead(s, i)
    <3>1. i + 1 \in B /\ s[i] = s[i + 1]
      BY <1>1, <2>1, <2>7 DEF Starts, DuplicateAhead
    <3>2. A = (B \ {i + 1}) \cup {i}
      BY <1>1, <2>1, <2>7, <3>1 DEF Starts, DuplicateAhead
    <3>3. Cardinality(A) = Cardinality(B)
      <4>1. IsFiniteSet(B \ {i + 1})
            /\ Cardinality(B \ {i + 1}) = Cardinality(B) - 1
        BY <2>4, <3>1, FS_RemoveElement
      <4>2. Cardinality(A) = Cardinality(B \ {i + 1}) + 1
        BY <2>5, <3>2, <4>1, FS_AddElement, ZenonT(20)
      <4> QED
        BY <2>4, <4>1, <4>2, FS_CardinalityType
    <3>4. {k \in B : k <= i + 1} = {i + 1} /\ Rank(s, i + 1, i + 1) = 1
      <4>1. {k \in B : k <= i + 1} = {i + 1}
        BY <1>1, <2>1, <3>1 DEF Starts
      <4> QED
        BY <4>1, FS_Singleton DEF Rank
    <3>5. ASSUME NEW j \in A, j # i PROVE Rank(s, i, j) = Rank(s, i + 1, j)
      <4> DEFINE X == {k \in A : k <= j}
                 Y == {k \in B : k <= j}
      <4>1. j \in B /\ j # i + 1 /\ j > i + 1
        BY <2>1, <2>5, <3>2, <3>5
      <4>2. X = (Y \ {i + 1}) \cup {i} /\ i + 1 \in Y /\ i \notin Y
        BY <2>1, <2>5, <3>1, <3>2, <4>1
      <4>3. IsFiniteSet(Y)
        BY <2>4, FS_Subset
      <4> HIDE DEF X, Y
      <4>4. IsFiniteSet(Y \ {i + 1})
            /\ Cardinality(Y \ {i + 1}) = Cardinality(Y) - 1
        BY <4>2, <4>3, FS_RemoveElement
      <4>5. Cardinality(X) = Cardinality(Y \ {i + 1}) + 1
        BY <4>2, <4>4, FS_AddElement
      <4>6. Cardinality(X) = Cardinality(Y)
        BY <4>3, <4>4, <4>5, FS_CardinalityType
      <4> QED
        BY <4>6 DEF X, Y, Rank
    <3>6. f[i] = t
      BY <2>3, <2>7
    <3>7. ASSUME NEW j \in A PROVE f[i][Rank(s, i, j)] = s[j]
      <4>1. CASE j = i
        <5>1. t[1] = s[i + 1]
          BY <2>2, <3>1, <3>4
        <5> QED
          BY <2>6, <3>1, <3>6, <4>1, <5>1
      <4>2. CASE j # i
        <5>1. j \in B
          BY <3>2, <4>2
        <5> HIDE DEF f, t
        <5> QED
          BY <2>2, <3>5, <3>6, <4>2, <5>1 DEF t
      <4> QED
        BY <4>1, <4>2
    <3> QED
      BY <2>2, <3>3, <3>6, <3>7
  <2>8. CASE ~ DuplicateAhead(s, i)
    <3>1. A = B \cup {i}
      BY <1>1, <2>1, <2>8, SMTT(20) DEF Starts, DuplicateAhead
    <3>2. Cardinality(A) = Cardinality(B) + 1
      BY <2>4, <2>5, <3>1, FS_AddElement
    <3>3. f[i] = <<s[i]>> \o t
      BY <2>3, <2>8
    <3>4. Len(f[i]) = 1 + Len(t) /\ f[i][1] = s[i]
          /\ \A k \in 1..Len(t) : f[i][k + 1] = t[k]
      BY <2>3, <3>3
    <3>5. ASSUME NEW j \in B
          PROVE  /\ Rank(s, i, j) = Rank(s, i + 1, j) + 1
                 /\ Rank(s, i + 1, j) \in 1..Len(t)
      <4> DEFINE X == {k \in A : k <= j}
                 Y == {k \in B : k <= j}
      <4>1. X = Y \cup {i} /\ i \notin Y /\ j \in Y
        BY <2>1, <2>5, <3>1
      <4>2. IsFiniteSet(Y)
        BY <2>4, FS_Subset
      <4>3. Rank(s, i + 1, j) \in Nat
            /\ Rank(s, i + 1, j) <= Cardinality(B)
        BY <2>1, StartsFinite
      <4> HIDE DEF X, Y
      <4>4. Cardinality(X) = Cardinality(Y) + 1
        BY <4>1, <4>2, FS_AddElement
      <4>5. Cardinality(Y) # 0
        BY <4>1, <4>2, FS_EmptySet
      <4>6. Rank(s, i, j) = Cardinality(X) /\ Rank(s, i + 1, j) = Cardinality(Y)
        BY DEF X, Y, Rank
      <4> QED
        BY <2>2, <4>3, <4>4, <4>5, <4>6
    <3>6. ASSUME NEW j \in A PROVE f[i][Rank(s, i, j)] = s[j]
      <4>1. CASE j = i
        BY <2>6, <3>4, <4>1
      <4>2. CASE j # i
        <5>1. j \in B
          BY <3>1, <4>2
        <5>2. t[Rank(s, i + 1, j)] = s[j]
          BY <2>2, <5>1
        <5> HIDE DEF f, t, A, B
        <5> QED
          BY <3>4, <3>5, <5>1, <5>2
      <4> QED
        BY <4>1, <4>2
    <3> QED
      BY <2>2, <2>4, <3>2, <3>4, <3>6, FS_CardinalityType
  <2> QED
    BY <2>7, <2>8
<1>4. T = Nat
  <2> HIDE DEF T
  <2> QED
    BY <1>2, <1>3, Induct DEF T
<1>5. \A i \in 1..(L + 1) : L + 1 - i \in Nat
  BY <1>1
<1>6. \A i \in 1..(L + 1) : P(i)
  <2> HIDE DEF P
  <2> QED
    BY <1>4, <1>5
<1> QED
  BY <1>6

\* RemoveDuplicates leaves one element of every run.
LEMMA OneLeft ==
  ASSUME CompileInit PROVE OneOfEachRun
<1>1. vector \in Seq(Element)
  <2>1. PICK m \in 0..MaxLength : vector \in [1..m -> Element]
    BY DEF CompileInit, SeqOf
  <2> QED
    BY <2>1, NumberAssumption
<1> DEFINE starts == {i \in DOMAIN vector : i = 1 \/ vector[i - 1] # vector[i]}
<1>2. starts = Starts(vector, 1) /\ 1 \in 1..(Len(vector) + 1)
  BY <1>1 DEF Starts
<1>3. /\ Len(Deduplicated(vector)[1]) = Cardinality(Starts(vector, 1))
      /\ \A j \in Starts(vector, 1) :
           Deduplicated(vector)[1][Rank(vector, 1, j)] = vector[j]
  BY <1>1, <1>2, Runs
<1> QED
  BY <1>2, <1>3 DEF OneOfEachRun, RemoveDuplicates, Rank

CompileSpec == CompileInit /\ [][FALSE]_<<number, vector>>

\* The three conversions print every number in decimal notation, and the third
\* writes inside of its array, but for 0, which the first (36) and the third
\* (116, 118) print as nothing; and RemoveDuplicates (12-43) leaves one element
\* of each run of equal ones, in order, of every list.
THEOREM TemplatesCompute == CompileSpec => []TemplateInv
<1>1. CompileInit => TemplateInv
  BY Printed, OneLeft DEF TemplateInv
<1>2. TemplateInv /\ UNCHANGED <<number, vector>> => TemplateInv'
  BY ZenonT(20) DEF TemplateInv, PrintsTheNumber, OneOfEachRun
<1> QED
  BY <1>1, <1>2, PTL DEF CompileSpec
-----------------------------------------------------------------------------
(* LinkedList *)

\* A list whose nodes, from _head on, are p.
Links == [data : Data, next : ChainNode \cup {NullNode}]
IsChain(s, p) ==
  /\ s = [mem |-> s.mem, head |-> s.head, tail |-> s.tail, count |-> s.count]
  /\ p \in Seq(ChainNode)
  /\ \A i, j \in 1..Len(p) : p[i] = p[j] => i = j
  /\ s.mem \in [{p[i] : i \in 1..Len(p)} -> Links]
  /\ \A i \in 1..Len(p) :
       s.mem[p[i]].next = IF i = Len(p) THEN NullNode ELSE p[i + 1]
  /\ s.head = IF Len(p) = 0 THEN NullNode ELSE p[1]
  /\ s.tail = IF Len(p) = 0 THEN NullNode ELSE p[Len(p)]
  /\ s.count = Len(p)

\* A chain is no longer than there are nodes.
LEMMA ChainCounted ==
  ASSUME NEW s, NEW p, IsChain(s, p)
  PROVE  /\ Cardinality(DOMAIN s.mem) = Len(p)
         /\ DOMAIN s.mem \subseteq ChainNode
         /\ Len(p) <= Cardinality(ChainNode)
         /\ Len(p) \in Nat /\ Cardinality(ChainNode) \in Nat
<1> DEFINE R == {p[i] : i \in 1..Len(p)}
<1>1. DOMAIN s.mem = R /\ R \subseteq ChainNode /\ Len(p) \in Nat
  BY DEF IsChain
<1>2. p \in Bijection(1..Len(p), R)
  <2>1. p \in [1..Len(p) -> R]
    BY DEF IsChain
  <2>2. \A i, j \in 1..Len(p) : p[i] = p[j] => i = j
    BY DEF IsChain
  <2> QED
    BY <2>1, <2>2 DEF Bijection, Injection, Surjection, IsInjective
<1>3. Cardinality(R) = Len(p)
  BY <1>1, <1>2, FS_CountingElements DEF ExistsBijection
<1>4. Cardinality(R) <= Cardinality(ChainNode) /\ Cardinality(ChainNode) \in Nat
  BY <1>1, FS_Subset, FS_CardinalityType, ChainAssumption, SMTT(20)
<1> QED
  BY <1>1, <1>3, <1>4, ZenonT(20)

\* The walk over a chain goes from a node to its successor.
LEMMA VisitedUnfolds ==
  \A s : \A i \in 0..Cardinality(ChainNode) :
    Visited(s)[i] = IF i = 0 THEN s.head
                    ELSE IF Visited(s)[i - 1] = NullNode THEN NullNode
                    ELSE s.mem[Visited(s)[i - 1]].next
<1> SUFFICES ASSUME NEW s
             PROVE  \A i \in 0..Cardinality(ChainNode) :
    Visited(s)[i] = IF i = 0 THEN s.head
                    ELSE IF Visited(s)[i - 1] = NullNode THEN NullNode
                    ELSE s.mem[Visited(s)[i - 1]].next
  OBVIOUS
<1> DEFINE N == Cardinality(ChainNode)
           Step(h, i) == IF i = 0 THEN s.head
                    ELSE IF h[i - 1] = NullNode THEN NullNode
                    ELSE s.mem[h[i - 1]].next
           T == {n \in Nat : \E h : h = [i \in 0..n |-> Step(h, i)]}
<1>0. N \in Nat
  BY FS_CardinalityType, ChainAssumption
<1>1. 0 \in T
  <2> DEFINE h == [i \in 0..0 |-> s.head]
  <2>1. \A i \in 0..0 : h[i] = Step(h, i)
    OBVIOUS
  <2>2. h = [i \in 0..0 |-> h[i]]
    OBVIOUS
  <2> HIDE DEF h
  <2>3. h = [i \in 0..0 |-> Step(h, i)]
    BY <2>1, <2>2
  <2> QED
    BY <2>3
<1>2. ASSUME NEW n \in T PROVE n + 1 \in T
  <2>1. PICK h : h = [i \in 0..n |-> Step(h, i)]
    OBVIOUS
  <2> DEFINE g == [i \in 0..(n + 1) |-> IF i <= n THEN h[i] ELSE
                     IF h[n] = NullNode THEN NullNode ELSE s.mem[h[n]].next]
  <2>2. ASSUME NEW i \in 0..(n + 1) PROVE g[i] = Step(g, i)
    <3>1. CASE i = 0
      BY <2>1, <3>1
    <3>2. CASE i # 0
      <4>1. i - 1 \in 0..n /\ g[i - 1] = h[i - 1]
        BY <3>2
      <4>2. CASE i <= n
        <5>1. h[i] = Step(h, i) /\ g[i] = h[i]
          BY <2>1, <4>2
        <5> HIDE DEF g
        <5> QED
          BY <5>1, <4>1, <4>2
      <4>3. CASE i = n + 1
        BY <4>1, <4>3, <3>2
      <4> QED
        BY <4>2, <4>3
    <3> QED
      BY <3>1, <3>2
  <2>3. g = [i \in 0..(n + 1) |-> g[i]]
    OBVIOUS
  <2> HIDE DEF g
  <2>4. g = [i \in 0..(n + 1) |-> Step(g, i)]
    BY <2>2, <2>3
  <2> QED
    BY <2>4
<1>3. T = Nat
  <2> HIDE DEF T
  <2> QED
    BY <1>1, <1>2, Induct DEF T
<1>4. \E h : h = [i \in 0..N |-> Step(h, i)]
  BY <1>3, <1>0
<1>5. Visited(s) = CHOOSE h : h = [i \in 0..N |-> Step(h, i)]
  BY Zenon DEF Visited
<1>6. Visited(s) = [i \in 0..N |-> Step(Visited(s), i)]
  <2> HIDE DEF Step, N
  <2> QED
    BY <1>4, <1>5, Zenon
<1> QED
  BY <1>6

\* What _next leads to are the nodes of the list.
LEMMA NodesOfChain ==
  ASSUME NEW s, NEW p, IsChain(s, p)
  PROVE  ChainNodes(s) = p
<1> DEFINE N == Cardinality(ChainNode)
           v == Visited(s)
           n == Len(p)
           T == {k \in Nat : k <= N =>
                   v[k] = IF k < n THEN p[k + 1] ELSE NullNode}
<1>0. N \in Nat /\ n \in Nat /\ n <= N
  BY ChainCounted
<1>1. \A k \in 0..N : v[k] = IF k = 0 THEN s.head
                    ELSE IF v[k - 1] = NullNode THEN NullNode
                    ELSE s.mem[v[k - 1]].next
  BY VisitedUnfolds
<1>2. \A i \in 1..n : /\ p[i] \in ChainNode /\ p[i] # NullNode
                      /\ s.mem[p[i]].next = IF i = n THEN NullNode ELSE p[i + 1]
  BY ChainAssumption DEF IsChain
<1>3. s.head = IF n = 0 THEN NullNode ELSE p[1]
  BY DEF IsChain
<1> HIDE DEF v, N, n
<1>4. 0 \in T
  BY <1>0, <1>1, <1>3
<1>5. ASSUME NEW k \in T PROVE k + 1 \in T
  <2> SUFFICES ASSUME k + 1 <= N
               PROVE  v[k + 1] = IF k + 1 < n THEN p[k + 2] ELSE NullNode
    OBVIOUS
  <2>1. v[k] = IF k < n THEN p[k + 1] ELSE NullNode
    BY <1>0
  <2>2. v[k + 1] = IF v[k] = NullNode THEN NullNode ELSE s.mem[v[k]].next
    BY <1>0, <1>1
  <2>3. CASE k < n
    <3>1. k + 1 \in 1..n
      BY <2>3, <1>0
    <3> QED
      BY <3>1, <2>1, <2>2, <1>2, <1>0, <2>3
  <2>4. CASE ~ (k < n)
    BY <2>1, <2>2, <2>4, <1>0
  <2> QED
    BY <2>3, <2>4
<1>6. T = Nat
  <2> HIDE DEF T
  <2> QED
    BY <1>4, <1>5, Induct DEF T
<1>7. \A k \in 0..N : v[k] = IF k < n THEN p[k + 1] ELSE NullNode
  BY <1>6, <1>0
<1>8. {j \in 1..(N + 1) : v[j - 1] # NullNode} = 1..n
  BY <1>7, <1>2, <1>0
<1>9. ChainNodes(s) = [i \in 1..n |-> v[i - 1]]
  BY <1>8 DEF ChainNodes, v, N
<1>10. \A i \in 1..n : v[i - 1] = p[i]
  BY <1>7, <1>0
<1>11. p = [i \in 1..n |-> p[i]]
  BY DEF IsChain, n
<1> QED
  BY <1>9, <1>10, <1>11

\* The fields of what the helpers return.
ChainRecord(s) ==
  /\ s = [mem |-> s.mem, head |-> s.head, tail |-> s.tail, count |-> s.count]
  /\ DOMAIN s.mem \subseteq ChainNode
  /\ s.mem \in [DOMAIN s.mem -> Links]
  /\ s.count \in Int

\* What a new _next changes of a list.
LEMMA LinkedIs ==
  ASSUME NEW s, ChainRecord(s), NEW n \in DOMAIN s.mem,
         NEW next \in ChainNode \cup {NullNode}, NEW t, t = Linked(s, n, next)
  PROVE  /\ ChainRecord(t)
         /\ DOMAIN t.mem = DOMAIN s.mem
         /\ t.head = s.head /\ t.tail = s.tail /\ t.count = s.count
         /\ t.mem[n].next = next
         /\ \A m \in DOMAIN s.mem \ {n} : t.mem[m].next = s.mem[m].next
         /\ \A m \in DOMAIN s.mem : t.mem[m].data = s.mem[m].data
<1> DEFINE l == [s.mem[n] EXCEPT !.next = next]
           M == [s.mem EXCEPT ![n] = l]
<1>1. s.mem[n] \in Links
  BY DEF ChainRecord
<1>2. l \in Links /\ l.next = next /\ l.data = s.mem[n].data
  BY <1>1 DEF Links
<1>3. t = [s EXCEPT !.mem = M]
  BY DEF Linked
<1> HIDE DEF l
<1>4. /\ M \in [DOMAIN s.mem -> Links] /\ M[n] = l
      /\ \A m \in DOMAIN s.mem \ {n} : M[m] = s.mem[m]
  BY <1>2 DEF ChainRecord
<1> HIDE DEF M
<1>5. t = [mem |-> M, head |-> s.head, tail |-> s.tail, count |-> s.count]
  BY <1>3 DEF ChainRecord
<1>6. /\ t.mem = M /\ t.head = s.head /\ t.tail = s.tail /\ t.count = s.count
      /\ t = [mem |-> t.mem, head |-> t.head, tail |-> t.tail,
               count |-> t.count]
  BY <1>5
<1> QED
  BY <1>2, <1>4, <1>6 DEF ChainRecord

\* What new ends change of a list.
LEMMA EndsIs ==
  ASSUME NEW s, ChainRecord(s), NEW h, NEW l, NEW t, t = Ends(s, h, l)
  PROVE  /\ ChainRecord(t)
         /\ t.head = h /\ t.tail = l /\ t.count = s.count /\ t.mem = s.mem
<1>1. t = [mem |-> s.mem, head |-> h, tail |-> l, count |-> s.count]
  BY DEF ChainRecord, Ends
<1>2. /\ t.mem = s.mem /\ t.head = h /\ t.tail = l /\ t.count = s.count
      /\ t = [mem |-> t.mem, head |-> t.head, tail |-> t.tail,
               count |-> t.count]
  BY <1>1
<1> QED
  BY <1>2 DEF ChainRecord

\* What _createNode() (27-32) changes of a list.
LEMMA CreateIs ==
  ASSUME NEW s, ChainRecord(s), NEW n \in ChainNode, NEW d \in Data,
         NEW t, t = CreateNode(s, n, d)
  PROVE  /\ ChainRecord(t)
         /\ DOMAIN t.mem = DOMAIN s.mem \cup {n}
         /\ t.head = s.head /\ t.tail = s.tail /\ t.count = s.count + 1
         /\ t.mem[n].next = NullNode /\ t.mem[n].data = d
         /\ \A m \in DOMAIN s.mem \ {n} : t.mem[m] = s.mem[m]
<1> DEFINE M == [m \in DOMAIN s.mem \cup {n} |->
                   IF m = n THEN [data |-> d, next |-> NullNode]
                   ELSE s.mem[m]]
<1>1. t = [s EXCEPT !.count = s.count + 1, !.mem = M]
  BY DEF CreateNode
<1>2. [data |-> d, next |-> NullNode] \in Links
  BY DEF Links
<1>3. /\ M \in [DOMAIN s.mem \cup {n} -> Links]
      /\ M[n].next = NullNode /\ M[n].data = d
      /\ \A m \in DOMAIN s.mem \ {n} : M[m] = s.mem[m]
  BY <1>2 DEF ChainRecord
<1> HIDE DEF M
<1>4. t = [mem |-> M, head |-> s.head, tail |-> s.tail, count |-> s.count + 1]
  BY <1>1 DEF ChainRecord
<1>5. /\ t.mem = M /\ t.head = s.head /\ t.tail = s.tail
      /\ t.count = s.count + 1
      /\ t = [mem |-> t.mem, head |-> t.head, tail |-> t.tail,
               count |-> t.count]
  BY <1>4
<1> QED
  BY <1>3, <1>5 DEF ChainRecord

\* What _releaseNode() (34-38) changes of a list.
LEMMA ReleaseIs ==
  ASSUME NEW s, ChainRecord(s), NEW n, NEW t, t = ReleaseNode(s, n)
  PROVE  /\ ChainRecord(t)
         /\ DOMAIN t.mem = DOMAIN s.mem \ {n}
         /\ t.head = s.head /\ t.tail = s.tail /\ t.count = s.count - 1
         /\ \A m \in DOMAIN s.mem \ {n} : t.mem[m] = s.mem[m]
<1> DEFINE M == [m \in DOMAIN s.mem \ {n} |-> s.mem[m]]
<1>1. t = [s EXCEPT !.count = s.count - 1, !.mem = M]
  BY DEF ReleaseNode
<1>3. /\ M \in [DOMAIN s.mem \ {n} -> Links]
      /\ \A m \in DOMAIN s.mem \ {n} : M[m] = s.mem[m]
  BY DEF ChainRecord
<1> HIDE DEF M
<1>4. t = [mem |-> M, head |-> s.head, tail |-> s.tail, count |-> s.count - 1]
  BY <1>1 DEF ChainRecord
<1>5. /\ t.mem = M /\ t.head = s.head /\ t.tail = s.tail
      /\ t.count = s.count - 1
      /\ t = [mem |-> t.mem, head |-> t.head, tail |-> t.tail,
               count |-> t.count]
  BY <1>4
<1> QED
  BY <1>3, <1>5 DEF ChainRecord

\* A chain, field by field.
LinkFollows(p, s, i) ==
  s.mem[p[i]].next = IF i = Len(p) THEN NullNode ELSE p[i + 1]
Distinctly(p) == \A i, j \in 1..Len(p) : p[i] = p[j] => i = j

\* The parts of IsChain, one by one.
LEMMA ChainFields ==
  ASSUME NEW s, NEW p \in Seq(ChainNode)
  PROVE  IsChain(s, p)
         <=> /\ ChainRecord(s)
             /\ Distinctly(p)
             /\ DOMAIN s.mem = {p[i] : i \in 1..Len(p)}
             /\ \A i \in 1..Len(p) : LinkFollows(p, s, i)
             /\ s.head = IF Len(p) = 0 THEN NullNode ELSE p[1]
             /\ s.tail = IF Len(p) = 0 THEN NullNode ELSE p[Len(p)]
             /\ s.count = Len(p)
<1>1. {p[i] : i \in 1..Len(p)} \subseteq ChainNode /\ Len(p) \in Int
  OBVIOUS
<1>2. s.mem \in [{p[i] : i \in 1..Len(p)} -> Links]
      => DOMAIN s.mem = {p[i] : i \in 1..Len(p)}
  OBVIOUS
<1> QED
  BY <1>1, <1>2 DEF IsChain, ChainRecord, LinkFollows, Distinctly

\* A node that is allocated is none of the list's.
LEMMA NewNodeIsNew ==
  ASSUME NEW s, Room(s)
  PROVE  NewNode(s) \in ChainNode \ DOMAIN s.mem
BY DEF Room, NewNode

\* push_back() (201-211) puts a node behind the chain.
LEMMA PushBackChain ==
  ASSUME NEW s, NEW p, IsChain(s, p), Room(s), NEW d \in Data
  PROVE  IsChain(PushedBack(s, d), Append(p, NewNode(s)))
<1> DEFINE n == NewNode(s)
           q == Append(p, n)
           c == CreateNode(s, n, d)
           t == PushedBack(s, d)
<1>1. n \in ChainNode /\ n \notin DOMAIN s.mem
  BY NewNodeIsNew
<1>2. p \in Seq(ChainNode)
  BY DEF IsChain
<1> HIDE DEF n
<1>3. /\ ChainRecord(s) /\ Distinctly(p)
      /\ DOMAIN s.mem = {p[i] : i \in 1..Len(p)}
      /\ \A i \in 1..Len(p) : LinkFollows(p, s, i)
      /\ s.head = IF Len(p) = 0 THEN NullNode ELSE p[1]
      /\ s.tail = IF Len(p) = 0 THEN NullNode ELSE p[Len(p)]
      /\ s.count = Len(p)
  BY <1>2, ChainFields
<1>4. /\ q \in Seq(ChainNode) /\ Len(q) = Len(p) + 1 /\ Len(p) \in Nat
      /\ q[Len(p) + 1] = n /\ \A i \in 1..Len(p) : q[i] = p[i]
  BY <1>1, <1>2
<1>5. {q[i] : i \in 1..Len(q)} = DOMAIN s.mem \cup {n}
  BY <1>3, <1>4
<1>6. Distinctly(q)
  BY <1>1, <1>3, <1>4 DEF Distinctly
<1> HIDE DEF q
<1>7. /\ ChainRecord(c)
      /\ DOMAIN c.mem = DOMAIN s.mem \cup {n}
      /\ c.head = s.head /\ c.tail = s.tail /\ c.count = s.count + 1
      /\ c.mem[n].next = NullNode
      /\ \A m \in DOMAIN s.mem : c.mem[m] = s.mem[m]
  BY <1>1, <1>3, CreateIs
<1>8. \A i \in 1..Len(p) : p[i] # NullNode /\ p[i] \in DOMAIN s.mem
  BY <1>2, <1>3, ChainAssumption
<1> HIDE DEF c
<1>9. CASE Len(p) = 0
  <2>1. t = Ends(c, n, n)
    BY <1>3, <1>9 DEF PushedBack, c, n
  <2> HIDE DEF t
  <2>2. /\ ChainRecord(t) /\ t.head = n /\ t.tail = n
        /\ t.count = c.count /\ t.mem = c.mem
    BY <2>1, <1>7, EndsIs
  <2>3. \A i \in 1..Len(q) : LinkFollows(q, t, i)
    BY <2>2, <1>7, <1>4, <1>9 DEF LinkFollows
  <2>4. q \in Seq(ChainNode) /\ Len(q) = 1 /\ q[1] = n /\ t.count = 1
        /\ DOMAIN t.mem = {q[i] : i \in 1..Len(q)}
    <3>1. DOMAIN t.mem = {q[i] : i \in 1..Len(q)}
      BY <1>5, <1>7, <2>2
    <3>2. q \in Seq(ChainNode) /\ Len(q) = 1 /\ q[1] = n /\ t.count = 1
      BY <1>3, <1>4, <1>7, <1>9, <2>2
    <3> QED
      BY <3>1, <3>2
  <2>5. Len(q) # 0 /\ t.head = q[1] /\ t.tail = q[Len(q)] /\ t.count = Len(q)
    BY <2>2, <2>4
  <2>6. IsChain(t, q)
    BY <2>2, <2>3, <2>4, <2>5, <1>6, ChainFields
  <2> QED
    BY <2>6 DEF t, q, n
<1>10. CASE Len(p) # 0
  <2> DEFINE l == Linked(c, s.tail, n)
  <2>0. s.tail = p[Len(p)] /\ s.head = p[1] /\ s.tail \in DOMAIN s.mem
        /\ s.head # NullNode /\ s.tail # n
    BY <1>3, <1>4, <1>8, <1>10, <1>1
  <2>1. t = Ends(l, s.head, n)
    BY <2>0 DEF PushedBack, c, n
  <2>2. /\ ChainRecord(l) /\ DOMAIN l.mem = DOMAIN c.mem
        /\ l.count = c.count /\ l.mem[s.tail].next = n
        /\ \A m \in DOMAIN c.mem \ {s.tail} : l.mem[m].next = c.mem[m].next
    BY <2>0, <1>1, <1>7, LinkedIs
  <2> HIDE DEF l, t
  <2>3. /\ ChainRecord(t) /\ t.head = s.head /\ t.tail = n
        /\ t.count = l.count /\ t.mem = l.mem
    BY <2>1, <2>2, EndsIs
  <2>4. ASSUME NEW i \in 1..Len(q) PROVE LinkFollows(q, t, i)
    <3>1. CASE i = Len(p) + 1
      BY <3>1, <2>0, <2>2, <2>3, <1>4, <1>7 DEF LinkFollows
    <3>2. CASE i = Len(p)
      BY <3>2, <2>0, <2>2, <2>3, <1>4, <1>7 DEF LinkFollows
    <3>3. CASE i < Len(p)
      <4>1. i \in 1..Len(p) /\ Len(p) \in 1..Len(p)
        BY <3>3, <1>4
      <4>2. p[i] # s.tail /\ p[i] \in DOMAIN s.mem
        BY <4>1, <3>3, <1>3, <1>8, <2>0 DEF Distinctly
      <4>3. s.mem[p[i]].next = p[i + 1]
        BY <4>1, <3>3, <1>3 DEF LinkFollows
      <4> QED
        BY <4>1, <4>2, <4>3, <3>3, <2>2, <2>3, <1>4, <1>7 DEF LinkFollows
    <3> QED
      BY <3>1, <3>2, <3>3, <1>4
  <2>5. IsChain(t, q)
    BY <2>0, <2>2, <2>3, <2>4, <1>3, <1>4, <1>5, <1>6, <1>7, <1>10, ChainFields
  <2> QED
    BY <2>5 DEF t, q, n
<1> QED
  BY <1>9, <1>10

\* push_front() (213-223) puts a node before the chain.
LEMMA PushFrontChain ==
  ASSUME NEW s, NEW p, IsChain(s, p), Room(s), NEW d \in Data
  PROVE  IsChain(PushedFront(s, d), <<NewNode(s)>> \o p)
<1> DEFINE n == NewNode(s)
           q == <<n>> \o p
           c == CreateNode(s, n, d)
           t == PushedFront(s, d)
<1>1. n \in ChainNode /\ n \notin DOMAIN s.mem
  BY NewNodeIsNew
<1>2. p \in Seq(ChainNode)
  BY DEF IsChain
<1> HIDE DEF n
<1>3. /\ ChainRecord(s) /\ Distinctly(p)
      /\ DOMAIN s.mem = {p[i] : i \in 1..Len(p)}
      /\ \A i \in 1..Len(p) : LinkFollows(p, s, i)
      /\ s.head = IF Len(p) = 0 THEN NullNode ELSE p[1]
      /\ s.tail = IF Len(p) = 0 THEN NullNode ELSE p[Len(p)]
      /\ s.count = Len(p)
  BY <1>2, ChainFields
<1>4. /\ q \in Seq(ChainNode) /\ Len(q) = Len(p) + 1 /\ Len(p) \in Nat
      /\ q[1] = n /\ \A i \in 2..Len(q) : q[i] = p[i - 1]
  BY <1>1, <1>2
<1>5. {q[i] : i \in 1..Len(q)} = DOMAIN s.mem \cup {n}
  <2> HIDE DEF q
  <2>1. \A i \in 1..Len(q) : i = 1 \/ (i \in 2..Len(q) /\ i - 1 \in 1..Len(p))
    BY <1>4
  <2>2. \A i \in 1..Len(p) : i + 1 \in 2..Len(q) /\ i + 1 \in 1..Len(q)
                             /\ q[i + 1] = p[i]
    BY <1>4
  <2>3. 1 \in 1..Len(q)
    BY <1>4
  <2> QED
    BY <1>3, <1>4, <2>1, <2>2, <2>3, SMTT(20)
<1>6. Distinctly(q)
  <2> HIDE DEF q
  <2> SUFFICES ASSUME NEW i \in 1..Len(q), NEW j \in 1..Len(q), q[i] = q[j]
               PROVE  i = j
    BY DEF Distinctly
  <2>1. \A k \in 1..Len(q) : k # 1 => /\ k - 1 \in 1..Len(p)
                                      /\ q[k] = p[k - 1] /\ q[k] # n
    BY <1>1, <1>3, <1>4
  <2>2. CASE i = 1 \/ j = 1
    BY <2>1, <2>2, <1>4
  <2>3. CASE i # 1 /\ j # 1
    <3>1. i - 1 = j - 1
      BY <2>1, <2>3, <1>3 DEF Distinctly
    <3> QED
      BY <3>1, <1>4
  <2> QED
    BY <2>2, <2>3
<1> HIDE DEF q
<1>7. /\ ChainRecord(c)
      /\ DOMAIN c.mem = DOMAIN s.mem \cup {n}
      /\ c.head = s.head /\ c.tail = s.tail /\ c.count = s.count + 1
      /\ c.mem[n].next = NullNode
      /\ \A m \in DOMAIN s.mem : c.mem[m] = s.mem[m]
  BY <1>1, <1>3, CreateIs
<1>8. \A i \in 1..Len(p) : /\ p[i] # NullNode /\ p[i] \in DOMAIN s.mem
                           /\ p[i] \in ChainNode
  BY <1>2, <1>3, ChainAssumption
<1> HIDE DEF c
<1>9. CASE Len(p) = 0
  <2>1. t = Ends(c, n, n)
    BY <1>3, <1>9 DEF PushedFront, c, n
  <2> HIDE DEF t
  <2>2. /\ ChainRecord(t) /\ t.head = n /\ t.tail = n
        /\ t.count = c.count /\ t.mem = c.mem
    BY <2>1, <1>7, EndsIs
  <2>3. \A i \in 1..Len(q) : LinkFollows(q, t, i)
    BY <2>2, <1>7, <1>4, <1>9 DEF LinkFollows
  <2>4. q \in Seq(ChainNode) /\ Len(q) = 1 /\ q[1] = n /\ t.count = 1
        /\ DOMAIN t.mem = {q[i] : i \in 1..Len(q)}
    <3>1. DOMAIN t.mem = {q[i] : i \in 1..Len(q)}
      BY <1>5, <1>7, <2>2
    <3>2. q \in Seq(ChainNode) /\ Len(q) = 1 /\ q[1] = n /\ t.count = 1
      BY <1>3, <1>4, <1>7, <1>9, <2>2
    <3> QED
      BY <3>1, <3>2
  <2>5. Len(q) # 0 /\ t.head = q[1] /\ t.tail = q[Len(q)] /\ t.count = Len(q)
    BY <2>2, <2>4
  <2>6. IsChain(t, q)
    BY <2>2, <2>3, <2>4, <2>5, <1>6, ChainFields
  <2> QED
    BY <2>6 DEF t, q, n
<1>10. CASE Len(p) # 0
  <2> DEFINE l == Linked(c, n, s.head)
  <2>0. s.tail = p[Len(p)] /\ s.head = p[1] /\ s.head \in DOMAIN s.mem
        /\ s.head # NullNode /\ s.head # n /\ s.head \in ChainNode
        /\ Len(p) \in 1..Len(p)
    BY <1>3, <1>4, <1>8, <1>10, <1>1
  <2>1. t = Ends(l, n, s.tail)
    BY <2>0 DEF PushedFront, c, n
  <2>2. /\ ChainRecord(l) /\ DOMAIN l.mem = DOMAIN c.mem
        /\ l.count = c.count /\ l.mem[n].next = s.head
        /\ \A m \in DOMAIN c.mem \ {n} : l.mem[m].next = c.mem[m].next
    BY <2>0, <1>1, <1>7, LinkedIs
  <2> HIDE DEF l, t
  <2>3. /\ ChainRecord(t) /\ t.head = n /\ t.tail = s.tail
        /\ t.count = l.count /\ t.mem = l.mem
    BY <2>1, <2>2, EndsIs
  <2>4. ASSUME NEW i \in 1..Len(q) PROVE LinkFollows(q, t, i)
    <3>1. CASE i = 1
      <4>1. q[2] = p[1] /\ Len(q) # 1
        BY <1>4, <1>10
      <4> QED
        BY <4>1, <3>1, <2>0, <2>2, <2>3, <1>4 DEF LinkFollows
    <3>2. CASE i # 1
      <4>1. i - 1 \in 1..Len(p) /\ q[i] = p[i - 1]
        BY <3>2, <1>4
      <4>2. q[i] \in DOMAIN s.mem /\ q[i] # n
        BY <4>1, <1>8, <1>1
      <4>3. s.mem[q[i]].next = IF i - 1 = Len(p) THEN NullNode ELSE p[i - 1 + 1]
        BY <4>1, <1>3 DEF LinkFollows
      <4>4. t.mem[q[i]].next = s.mem[q[i]].next
        BY <4>2, <2>2, <2>3, <1>7
      <4>5. i # Len(q) => q[i + 1] = p[i]
        BY <3>2, <1>4
      <4> QED
        BY <4>3, <4>4, <4>5, <1>4, <3>2 DEF LinkFollows
    <3> QED
      BY <3>1, <3>2
  <2>5. /\ DOMAIN t.mem = {q[i] : i \in 1..Len(q)} /\ t.count = Len(q)
    BY <1>3, <1>4, <1>5, <1>7, <2>2, <2>3
  <2>6. q[Len(q)] = s.tail /\ Len(q) # 0
    BY <2>0, <1>4, <1>10
  <2>7. IsChain(t, q)
    BY <2>3, <2>4, <2>5, <2>6, <1>4, <1>6, ChainFields
  <2> QED
    BY <2>7 DEF t, q, n
<1> QED
  BY <1>9, <1>10

\* The chain without its i-th node.
Without(p, i) ==
  [j \in 1..(Len(p) - 1) |-> IF j < i THEN p[j] ELSE p[j + 1]]

IsWithout(q, p, i) ==
  /\ Len(q) = Len(p) - 1
  /\ Distinctly(q)
  /\ \A j \in 1..Len(q) : q[j] = IF j < i THEN p[j] ELSE p[j + 1]
  /\ {q[j] : j \in 1..Len(q)} = {p[j] : j \in 1..Len(p)} \ {p[i]}

\* A sequence without its i-th element.
LEMMA WithoutIs ==
  ASSUME NEW S, NEW p \in Seq(S), Distinctly(p), NEW i \in 1..Len(p),
         NEW q, q = Without(p, i)
  PROVE  q \in Seq(S) /\ IsWithout(q, p, i)
<1>0. Len(p) \in Nat /\ Len(p) - 1 \in Nat
  OBVIOUS
<1>1. /\ q \in Seq(S) /\ Len(q) = Len(p) - 1
      /\ \A j \in 1..Len(q) : q[j] = IF j < i THEN p[j] ELSE p[j + 1]
  <2>1. \A j \in 1..(Len(p) - 1) :
          (IF j < i THEN p[j] ELSE p[j + 1]) \in S
    OBVIOUS
  <2> QED
    BY <2>1, <1>0 DEF Without
<1>2. ASSUME NEW j \in 1..Len(q)
      PROVE  \E k \in 1..Len(p) : k # i /\ k = (IF j < i THEN j ELSE j + 1)
                                  /\ q[j] = p[k]
  <2>1. CASE j < i
    <3>1. j \in 1..Len(p) /\ q[j] = p[j]
      BY <2>1, <1>0, <1>1
    <3> QED
      BY <3>1, <2>1
  <2>2. CASE ~ (j < i)
    <3>1. j + 1 \in 1..Len(p) /\ j + 1 # i /\ q[j] = p[j + 1]
      BY <2>2, <1>0, <1>1
    <3> QED
      BY <3>1, <2>2
  <2> QED
    BY <2>1, <2>2
<1>3. ASSUME NEW k \in 1..Len(p), k # i
      PROVE  \E j \in 1..Len(q) : q[j] = p[k]
  <2>1. CASE k < i
    <3>1. k \in 1..Len(q) /\ q[k] = p[k]
      BY <2>1, <1>0, <1>1
    <3> QED
      BY <3>1
  <2>2. CASE k > i
    <3>1. k - 1 \in 1..Len(q) /\ q[k - 1] = p[k - 1 + 1]
      BY <2>2, <1>0, <1>1
    <3>2. k - 1 + 1 = k
      OBVIOUS
    <3> QED
      BY <3>1, <3>2
  <2> QED
    BY <2>1, <2>2, <1>3
<1>4. Distinctly(q)
  <2> SUFFICES ASSUME NEW j \in 1..Len(q), NEW k \in 1..Len(q), q[j] = q[k]
               PROVE  j = k
    BY DEF Distinctly
  <2>1. PICK jj \in 1..Len(p) : jj = (IF j < i THEN j ELSE j + 1)
                                /\ q[j] = p[jj]
    BY <1>2
  <2>2. PICK kk \in 1..Len(p) : kk = (IF k < i THEN k ELSE k + 1)
                                /\ q[k] = p[kk]
    BY <1>2
  <2>3. jj = kk
    BY <2>1, <2>2 DEF Distinctly
  <2> QED
    BY <2>1, <2>2, <2>3
<1>5. {q[j] : j \in 1..Len(q)} = {p[j] : j \in 1..Len(p)} \ {p[i]}
  <2>1. \A k \in 1..Len(p) : p[k] = p[i] => k = i
    BY DEF Distinctly
  <2>2. \A j \in 1..Len(q) : \E k \in 1..Len(p) : k # i /\ q[j] = p[k]
    BY <1>2
  <2> DEFINE Q == {q[j] : j \in 1..Len(q)}
             R == {p[j] : j \in 1..Len(p)}
  <2>3. ASSUME NEW x \in Q PROVE x \in R \ {p[i]}
    <3>1. PICK j \in 1..Len(q) : x = q[j]
      OBVIOUS
    <3>2. PICK k \in 1..Len(p) : k # i /\ q[j] = p[k]
      BY <2>2
    <3> QED
      BY <3>1, <3>2, <2>1
  <2>4. ASSUME NEW x \in R \ {p[i]} PROVE x \in Q
    <3>1. PICK k \in 1..Len(p) : x = p[k] /\ k # i
      OBVIOUS
    <3>2. PICK j \in 1..Len(q) : q[j] = p[k]
      BY <1>3, <3>1
    <3> QED
      BY <3>1, <3>2
  <2> QED
    BY <2>3, <2>4
<1> QED
  BY <1>1, <1>4, <1>5 DEF IsWithout

\* Where a node leads to in the chain p.
After(p, i) == IF i = Len(p) THEN NullNode ELSE p[i + 1]

\* What is left of the chain p when its i-th node is unlinked.
WithoutLink(u, s, p, i) ==
  /\ ChainRecord(u)
  /\ DOMAIN u.mem = DOMAIN s.mem
  /\ u.count = s.count
  /\ u.head = IF Len(p) = 1 THEN NullNode ELSE IF i = 1 THEN p[2] ELSE p[1]
  /\ u.tail = IF Len(p) = 1 THEN NullNode
              ELSE IF i = Len(p) THEN p[i - 1] ELSE p[Len(p)]
  /\ i # 1 => u.mem[p[i - 1]].next = After(p, i)
  /\ \A k \in 1..Len(p) : k # i - 1 => u.mem[p[k]].next = After(p, k)

\* _removeNode() (42-52) links the neighbours of the node with one another.
LEMMA UnlinkedIs ==
  ASSUME NEW s, NEW p, IsChain(s, p), NEW i \in 1..Len(p), NEW parent,
         i # 1 => parent = p[i - 1], NEW u, u = Unlinked(s, p[i], parent)
  PROVE  WithoutLink(u, s, p, i)
<1>1. p \in Seq(ChainNode) /\ Len(p) \in Nat
  BY DEF IsChain
<1>2. /\ ChainRecord(s) /\ Distinctly(p)
      /\ DOMAIN s.mem = {p[k] : k \in 1..Len(p)}
      /\ s.head = p[1]
      /\ s.tail = p[Len(p)]
      /\ s.count = Len(p)
      /\ 1 \in 1..Len(p) /\ Len(p) \in 1..Len(p)
  BY <1>1, ChainFields
<1>3. \A k \in 1..Len(p) : s.mem[p[k]].next = After(p, k)
  BY <1>1, ChainFields DEF LinkFollows, After
<1>4. /\ (p[i] = s.head) <=> (i = 1)
      /\ (p[i] = s.tail) <=> (i = Len(p))
  BY <1>2 DEF Distinctly
<1>5. CASE Len(p) = 1
  <2>1. i = 1
    BY <1>5
  <2>2. u = Ends(s, NullNode, NullNode)
    BY <2>1, <1>4, <1>5 DEF Unlinked
  <2> QED
    BY <2>1, <2>2, <1>2, <1>3, <1>5, EndsIs DEF WithoutLink
<1>6. CASE i = 1 /\ Len(p) # 1
  <2>0. p[i] = s.head /\ p[i] # s.tail
    BY <1>4, <1>6
  <2>1. u = Ends(s, s.mem[p[i]].next, s.tail)
    BY <2>0 DEF Unlinked
  <2>2. s.mem[p[i]].next = p[2]
    <3>1. s.mem[p[i]].next = After(p, i)
      BY <1>3
    <3>2. After(p, i) = p[2]
      BY <1>1, <1>6 DEF After
    <3> QED
      BY <3>1, <3>2
  <2> QED
    BY <2>1, <2>2, <1>1, <1>2, <1>3, <1>6, EndsIs DEF WithoutLink
<1>7. CASE i # 1
  <2> DEFINE next == After(p, i)
             l == Linked(s, parent, next)
  <2>1. /\ i - 1 \in 1..Len(p) /\ parent = p[i - 1] /\ parent \in DOMAIN s.mem
        /\ Len(p) # 1
    BY <1>1, <1>2, <1>7
  <2>l. l = Linked(s, parent, next)
    OBVIOUS
  <2>2. next \in ChainNode \cup {NullNode}
    <3>1. i # Len(p) => i + 1 \in 1..Len(p)
      BY <1>1
    <3> QED
      BY <3>1, <1>1 DEF After
  <2>3. u = IF i = Len(p) THEN Ends(l, s.head, parent) ELSE l
    BY <1>3, <1>4, <1>7 DEF Unlinked, After
  <2> HIDE DEF next, l
  <2>4. /\ ChainRecord(l) /\ DOMAIN l.mem = DOMAIN s.mem
        /\ l.head = s.head /\ l.tail = s.tail /\ l.count = s.count
        /\ l.mem[parent].next = next
        /\ \A m \in DOMAIN s.mem \ {parent} : l.mem[m].next = s.mem[m].next
    <3>1. parent \in DOMAIN s.mem /\ ChainRecord(s)
      BY <2>1, <1>2
    <3> QED
      BY <3>1, <2>2, <2>l, LinkedIs
  <2>5. /\ ChainRecord(u) /\ u.mem = l.mem /\ u.count = s.count
        /\ u.head = s.head
        /\ u.tail = IF i = Len(p) THEN parent ELSE s.tail
    BY <2>3, <2>4, EndsIs
  <2>6. ASSUME NEW k \in 1..Len(p), k # i - 1
        PROVE  u.mem[p[k]].next = After(p, k)
    <3>1. p[k] # parent /\ p[k] \in DOMAIN s.mem
      BY <2>1, <2>6, <1>2 DEF Distinctly
    <3> QED
      BY <3>1, <2>4, <2>5, <1>3
  <2>7. u.mem[p[i - 1]].next = After(p, i)
    BY <2>1, <2>4, <2>5 DEF next
  <2> QED
    BY <2>1, <2>4, <2>5, <2>6, <2>7, <1>2, <1>7 DEF WithoutLink
<1> QED
  BY <1>5, <1>6, <1>7

\* A removed node leaves the chain of the others, for any parent of the
\* first.
LEMMA RemoveChain ==
  ASSUME NEW s, NEW p, IsChain(s, p), NEW i \in 1..Len(p), NEW parent,
         i # 1 => parent = p[i - 1]
  PROVE  IsChain(RemovedNode(s, i, parent), Without(p, i))
<1> DEFINE u == Unlinked(s, p[i], parent)
           t == ReleaseNode(u, p[i])
           q == Without(p, i)
<1>1. p \in Seq(ChainNode) /\ Len(p) \in Nat
  BY DEF IsChain
<1>2. RemovedNode(s, i, parent) = t
  BY NodesOfChain DEF RemovedNode
<1>3. /\ Distinctly(p) /\ s.count = Len(p)
      /\ DOMAIN s.mem = {p[k] : k \in 1..Len(p)}
  BY <1>1, ChainFields
<1>a. u = Unlinked(s, p[i], parent) /\ q = Without(p, i)
  OBVIOUS
<1> HIDE DEF u, q
<1>b. WithoutLink(u, s, p, i)
  BY <1>a, UnlinkedIs
<1>4. /\ ChainRecord(u)
      /\ DOMAIN u.mem = DOMAIN s.mem
      /\ u.count = s.count
      /\ u.head = IF Len(p) = 1 THEN NullNode ELSE IF i = 1 THEN p[2] ELSE p[1]
      /\ u.tail = IF Len(p) = 1 THEN NullNode
                  ELSE IF i = Len(p) THEN p[i - 1] ELSE p[Len(p)]
      /\ i # 1 => u.mem[p[i - 1]].next = After(p, i)
      /\ \A k \in 1..Len(p) : k # i - 1 => u.mem[p[k]].next = After(p, k)
  BY <1>b DEF WithoutLink
<1>5. /\ ChainRecord(t)
      /\ DOMAIN t.mem = DOMAIN u.mem \ {p[i]}
      /\ t.head = u.head /\ t.tail = u.tail /\ t.count = u.count - 1
      /\ \A m \in DOMAIN u.mem \ {p[i]} : t.mem[m] = u.mem[m]
  BY <1>4, ReleaseIs
<1>c. q \in Seq(ChainNode) /\ IsWithout(q, p, i)
  BY <1>a, <1>1, <1>3, WithoutIs
<1>6. /\ q \in Seq(ChainNode)
      /\ Len(q) = Len(p) - 1
      /\ Distinctly(q)
      /\ \A j \in 1..Len(q) : q[j] = IF j < i THEN p[j] ELSE p[j + 1]
      /\ {q[j] : j \in 1..Len(q)} = {p[j] : j \in 1..Len(p)} \ {p[i]}
  BY <1>c DEF IsWithout
<1> HIDE DEF t
<1>7. ASSUME NEW j \in 1..Len(q) PROVE LinkFollows(q, t, j)
  <2>1. q[j] \in DOMAIN u.mem \ {p[i]}
    BY <1>3, <1>4, <1>6
  <2>2. t.mem[q[j]].next = u.mem[q[j]].next
    BY <2>1, <1>5
  <2>3. CASE j >= i
    <3>1. j + 1 \in 1..Len(p) /\ j + 1 # i - 1 /\ q[j] = p[j + 1]
      BY <2>3, <1>1, <1>6
    <3>2. u.mem[q[j]].next = After(p, j + 1)
      BY <3>1, <1>4
    <3>3. j # Len(q) => q[j + 1] = p[j + 2] /\ j + 1 # Len(p)
      <4>1. /\ Len(q) \in Nat /\ Len(q) = Len(p) - 1
            /\ j \in 1..Len(q) /\ i \in Int
        BY <1>1, <1>6
      <4>2. j # Len(q) => j + 1 \in 1..Len(q) /\ ~ (j + 1 < i)
        BY <4>1, <2>3
      <4>3. j # Len(q) => q[j + 1] = p[j + 1 + 1]
        BY <4>2, <1>6
      <4> QED
        BY <4>1, <4>3
    <3>4. j = Len(q) => j + 1 = Len(p)
      BY <1>1, <1>6
    <3>5. j + 1 + 1 = j + 2
      OBVIOUS
    <3> QED
      BY <2>2, <3>2, <3>3, <3>4, <3>5 DEF After, LinkFollows
  <2>4. CASE j = i - 1
    <3>1. q[j] = p[i - 1] /\ i # 1
      BY <2>4, <1>6
    <3>2. u.mem[q[j]].next = After(p, i)
      BY <3>1, <1>4
    <3>3. j # Len(q) => q[j + 1] = p[i + 1] /\ i # Len(p)
      BY <2>4, <1>1, <1>6
    <3>4. j = Len(q) => i = Len(p)
      BY <2>4, <1>1, <1>6
    <3> QED
      BY <2>2, <3>2, <3>3, <3>4 DEF After, LinkFollows
  <2>5. CASE j < i - 1
    <3>1. j \in 1..Len(p) /\ j # i - 1 /\ q[j] = p[j]
      BY <2>5, <1>1, <1>6
    <3>2. u.mem[q[j]].next = After(p, j)
      BY <3>1, <1>4
    <3>3. j # Len(q) /\ q[j + 1] = p[j + 1] /\ j # Len(p)
      BY <2>5, <1>1, <1>6
    <3> QED
      BY <2>2, <3>2, <3>3 DEF After, LinkFollows
  <2> QED
    BY <2>3, <2>4, <2>5, <1>1, <1>6
<1>8. DOMAIN t.mem = {q[j] : j \in 1..Len(q)} /\ t.count = Len(q)
  BY <1>3, <1>4, <1>5, <1>6
<1>9. t.head = IF Len(q) = 0 THEN NullNode ELSE q[1]
  <2>1. CASE Len(p) = 1
    BY <2>1, <1>4, <1>5, <1>6
  <2>2. CASE Len(p) # 1
    <3>1. 1 \in 1..Len(q) /\ Len(q) # 0
      BY <2>2, <1>1, <1>6
    <3>2. q[1] = IF 1 < i THEN p[1] ELSE p[2]
      BY <3>1, <1>6
    <3> QED
      BY <2>2, <3>1, <3>2, <1>4, <1>5
  <2> QED
    BY <2>1, <2>2
<1>10. t.tail = IF Len(q) = 0 THEN NullNode ELSE q[Len(q)]
  <2>1. CASE Len(p) = 1
    BY <2>1, <1>4, <1>5, <1>6
  <2>2. CASE Len(p) # 1
    <3>1. Len(q) \in 1..Len(q) /\ Len(q) # 0
      BY <2>2, <1>1, <1>6
    <3>2. q[Len(q)] = IF Len(q) < i THEN p[Len(q)] ELSE p[Len(q) + 1]
      BY <3>1, <1>6
    <3>3. Len(q) = Len(p) - 1 /\ Len(q) + 1 = Len(p)
          /\ (Len(q) < i <=> i = Len(p))
      BY <1>6, <1>1
    <3> QED
      BY <2>2, <3>1, <3>2, <3>3, <1>4, <1>5
  <2> QED
    BY <2>1, <2>2
<1>11. IsChain(t, q)
  BY <1>5, <1>6, <1>7, <1>8, <1>9, <1>10, ChainFields
<1> QED
  BY <1>2, <1>11 DEF q

\* remove() of the i-th node answers with what comes after it.
LEMMA ReturnedIs ==
  ASSUME NEW s, NEW p, IsChain(s, p), NEW i \in 1..Len(p)
  PROVE  Returned(s, p[i], ParentOf(s, i))
           = IF i = 1 THEN NullNode ELSE s.mem[p[i]].next
<1>1. CASE i = 1
  BY <1>1 DEF Returned, ParentOf
<1>2. CASE i # 1
  <2> DEFINE u == Unlinked(s, p[i], p[i - 1])
  <2>1. ParentOf(s, i) = p[i - 1] /\ p[i - 1] # NullNode
    <3>1. i - 1 \in 1..Len(p) /\ p \in Seq(ChainNode)
      BY <1>2 DEF IsChain
    <3> QED
      BY <3>1, <1>2, NodesOfChain, ChainAssumption DEF ParentOf
  <2>2. u.mem[p[i - 1]].next = After(p, i)
    BY <1>2, UnlinkedIs DEF WithoutLink
  <2>3. s.mem[p[i]].next = After(p, i)
    BY DEF IsChain, After
  <2> QED
    BY <1>2, <2>1, <2>2, <2>3 DEF Returned
<1> QED
  BY <1>1, <1>2

\* A new list is a chain of no nodes.
LEMMA EmptyIsChain == IsChain(EmptyChain, <<>>)
BY DEF IsChain, EmptyChain, Links

\* clear() (276-286) releases every node.
LEMMA ClearIsEmpty ==
  ASSUME NEW s, NEW p, IsChain(s, p)
  PROVE  ClearedChain(s) = EmptyChain
<1>1. p \in Seq(ChainNode) /\ DOMAIN s.mem = {p[i] : i \in 1..Len(p)}
  BY DEF IsChain
<1>2. DOMAIN s.mem \ {p[i] : i \in DOMAIN p} = {}
  BY <1>1
<1> DEFINE D == DOMAIN s.mem \ {p[i] : i \in DOMAIN p}
           f == [n \in D |-> s.mem[n]]
<1>3. f = <<>>
  <2>1. D = 1..0
    BY <1>2
  <2> HIDE DEF D
  <2>2. f = [n \in 1..0 |-> s.mem[n]]
    BY <2>1
  <2>3. [n \in 1..0 |-> s.mem[n]] \in Seq({}) /\ DOMAIN f = 1..0
    BY <2>2
  <2> HIDE DEF f
  <2> QED
    BY <2>2, <2>3
<1>4. ChainNodes(s) = p
  BY NodesOfChain
<1>5. ClearedChain(s) = [mem |-> f, head |-> NullNode, tail |-> NullNode,
                         count |-> 0]
  BY <1>4, Zenon DEF ClearedChain
<1> HIDE DEF f
<1> QED
  BY <1>3, <1>5 DEF EmptyChain

\* A list is copied by as many calls of push_back(), each of which has room.
LEMMA CopyIsChain ==
  ASSUME NEW s, NEW p, IsChain(s, p)
  PROVE  \E q : IsChain(ChainOf(ChainData(s)), q)
<1> DEFINE v == ChainData(s)
           n == Len(p)
           Step(h, k) == IF k = 0 THEN EmptyChain
                         ELSE PushedBack(h[k - 1], v[k])
           T == {m \in Nat : \E h : h = [k \in 0..m |-> Step(h, k)]}
<1>1. n \in Nat /\ v \in Seq(Data) /\ Len(v) = n
      /\ \A k \in 1..n : v[k] \in Data
  <2>1. p \in Seq(ChainNode) /\ n \in Nat
    BY DEF IsChain
  <2>2. \A k \in 1..n : s.mem[p[k]].data \in Data
    BY DEF IsChain, Links
  <2>3. v = [k \in 1..n |-> s.mem[p[k]].data]
    BY <2>1, NodesOfChain DEF ChainData
  <2> QED
    BY <2>1, <2>2, <2>3
<1> HIDE DEF v, n
<1>2. 0 \in T
  <2> DEFINE h == [k \in 0..0 |-> EmptyChain]
  <2>1. \A k \in 0..0 : h[k] = Step(h, k)
    OBVIOUS
  <2>2. h = [k \in 0..0 |-> h[k]]
    OBVIOUS
  <2> HIDE DEF h
  <2>3. h = [k \in 0..0 |-> Step(h, k)]
    BY <2>1, <2>2
  <2> QED
    BY <2>3
<1>3. ASSUME NEW m \in T PROVE m + 1 \in T
  <2>1. PICK h : h = [k \in 0..m |-> Step(h, k)]
    OBVIOUS
  <2> DEFINE g == [k \in 0..(m + 1) |-> IF k <= m THEN h[k] ELSE
                     PushedBack(h[m], v[m + 1])]
  <2>2. ASSUME NEW k \in 0..(m + 1) PROVE g[k] = Step(g, k)
    <3>1. CASE k = 0
      BY <2>1, <3>1
    <3>2. CASE k # 0
      <4>1. k - 1 \in 0..m /\ g[k - 1] = h[k - 1]
        BY <3>2
      <4>2. CASE k <= m
        <5>1. h[k] = Step(h, k)
          BY <2>1, <4>2
        <5> QED
          BY <5>1, <4>1, <4>2
      <4>3. CASE k = m + 1
        BY <4>1, <4>3, <3>2
      <4> QED
        BY <4>2, <4>3
    <3> QED
      BY <3>1, <3>2
  <2>3. g = [k \in 0..(m + 1) |-> g[k]]
    OBVIOUS
  <2> HIDE DEF g
  <2>4. g = [k \in 0..(m + 1) |-> Step(g, k)]
    BY <2>2, <2>3
  <2> QED
    BY <2>4
<1>4. T = Nat
  <2> HIDE DEF T
  <2> QED
    BY <1>2, <1>3, Induct DEF T
<1>5. \E h : h = [k \in 0..n |-> Step(h, k)]
  BY <1>4, <1>1
<1> DEFINE f == CHOOSE h : h = [k \in 0..n |-> Step(h, k)]
<1>6. ChainOf(v) = f[n]
  BY <1>1, Zenon DEF ChainOf
<1>7. f = [k \in 0..n |-> Step(f, k)]
  <2> HIDE DEF Step
  <2> QED
    BY <1>5, Zenon
<1> HIDE DEF f
<1>8. f[0] = EmptyChain /\ \A k \in 1..n : f[k] = PushedBack(f[k - 1], v[k])
  BY <1>7, <1>1
<1> DEFINE U == {k \in Nat : k <= n => \E q : IsChain(f[k], q) /\ Len(q) = k}
<1>9. 0 \in U
  BY <1>8, EmptyIsChain
<1>10. ASSUME NEW k \in U PROVE k + 1 \in U
  <2> SUFFICES ASSUME k + 1 <= n
               PROVE  \E q : IsChain(f[k + 1], q) /\ Len(q) = k + 1
    OBVIOUS
  <2>1. PICK q : IsChain(f[k], q) /\ Len(q) = k
    BY <1>1
  <2>2. Room(f[k])
    <3>1. Cardinality(DOMAIN f[k].mem) = k
          /\ DOMAIN f[k].mem \subseteq ChainNode
      BY <2>1, ChainCounted
    <3>2. n <= Cardinality(ChainNode) /\ Cardinality(ChainNode) \in Nat
      BY ChainCounted DEF n
    <3>3. DOMAIN f[k].mem # ChainNode
      BY <3>1, <3>2, <1>1
    <3> QED
      BY <3>1, <3>3 DEF Room
  <2>3. f[k + 1] = PushedBack(f[k], v[k + 1]) /\ v[k + 1] \in Data
    BY <1>1, <1>8
  <2>4. IsChain(f[k + 1], Append(q, NewNode(f[k])))
    BY <2>1, <2>2, <2>3, PushBackChain
  <2>5. Len(Append(q, NewNode(f[k]))) = k + 1
    BY <2>1 DEF IsChain
  <2> QED
    BY <2>4, <2>5
<1>11. U = Nat
  <2> HIDE DEF U
  <2> QED
    BY <1>9, <1>10, Induct DEF U
<1> QED
  BY <1>1, <1>6, <1>11 DEF v

ChainSpec == ChainInit /\ [][ChainNext]_chainVars

\* Each list is a chain.
AreChains == chains \in [Chain -> {chains[x] : x \in Chain}]
             /\ \A x \in Chain : \E p : IsChain(chains[x], p)

\* A list that becomes a chain leaves the other as it was.
LEMMA BecomesChain ==
  ASSUME AreChains, NEW x \in Chain, NEW s, NEW p, IsChain(s, p),
         chains' = [chains EXCEPT ![x] = s]
  PROVE  AreChains'
<1>1. DOMAIN chains = Chain
  BY DEF AreChains
<1>2. chains' = [y \in Chain |-> IF y = x THEN s ELSE chains[y]]
  BY <1>1
<1>3. \A y \in Chain : \E q : IsChain(chains'[y], q)
  BY <1>2 DEF AreChains
<1> QED
  BY <1>2, <1>3 DEF AreChains

\* No operation breaks a chain.
LEMMA ChainStep == AreChains /\ [ChainNext]_chainVars => AreChains'
<1> SUFFICES ASSUME AreChains, [ChainNext]_chainVars PROVE AreChains'
  OBVIOUS
<1>0. CASE UNCHANGED chainVars
  BY <1>0 DEF AreChains, chainVars
<1>1. ASSUME NEW x \in Chain, NEW d \in Data, PushBack(x, d)
      PROVE  AreChains'
  <2>1. PICK p : IsChain(chains[x], p)
    BY DEF AreChains
  <2> QED
    BY <1>1, <2>1, PushBackChain, BecomesChain DEF PushBack, ChainBecomes
<1>2. ASSUME NEW x \in Chain, NEW d \in Data, PushFront(x, d)
      PROVE  AreChains'
  <2>1. PICK p : IsChain(chains[x], p)
    BY DEF AreChains
  <2> QED
    BY <1>2, <2>1, PushFrontChain, BecomesChain DEF PushFront, ChainBecomes
<1>3. ASSUME NEW x \in Chain, NEW i \in DOMAIN ChainNodes(chains[x]),
             NEW parent,
             i # 1 => parent = ParentOf(chains[x], i),
             chains' = [chains EXCEPT ![x] = RemovedNode(chains[x], i, parent)]
      PROVE  AreChains'
  <2>1. PICK p : IsChain(chains[x], p)
    BY DEF AreChains
  <2>2. ChainNodes(chains[x]) = p
    BY <2>1, NodesOfChain
  <2>3. i \in 1..Len(p) /\ (i # 1 => parent = p[i - 1])
    BY <2>1, <2>2, <1>3 DEF ParentOf, IsChain
  <2> QED
    BY <1>3, <2>1, <2>3, RemoveChain, BecomesChain
<1>4. ASSUME NEW x \in Chain, NEW d, RemoveFirstOf(x, d)
      PROVE  AreChains'
  <2>1. PICK i \in DOMAIN ChainNodes(chains[x]) :
          \E parent \in IF i = 1 THEN ChainNode \cup {NullNode, Junk}
                        ELSE {ParentOf(chains[x], i)} :
            chains' = [chains EXCEPT ![x] = RemovedNode(chains[x], i, parent)]
    BY <1>4, Zenon DEF RemoveFirstOf
  <2>2. PICK parent \in IF i = 1 THEN ChainNode \cup {NullNode, Junk}
                        ELSE {ParentOf(chains[x], i)} :
          chains' = [chains EXCEPT ![x] = RemovedNode(chains[x], i, parent)]
    BY <2>1
  <2>3. i # 1 => parent = ParentOf(chains[x], i)
    BY <2>2
  <2> QED
    BY <1>3, <2>2, <2>3
<1>5. ASSUME NEW x \in Chain, RemoveAtNode(x)
      PROVE  AreChains'
  BY <1>3, <1>5 DEF RemoveAtNode, ChainBecomes
<1>6. ASSUME NEW x \in Chain, ClearChain(x)
      PROVE  AreChains'
  <2>1. PICK p : IsChain(chains[x], p)
    BY DEF AreChains
  <2> QED
    BY <1>6, <2>1, ClearIsEmpty, EmptyIsChain, BecomesChain
    DEF ClearChain, ChainBecomes
<1>7. ASSUME NEW x \in Chain, NEW y \in Chain, ChainCopyAssign(x, y)
      PROVE  AreChains'
  <2>1. PICK p : IsChain(chains[y], p)
    BY DEF AreChains
  <2> QED
    BY <1>7, <2>1, CopyIsChain, BecomesChain DEF ChainCopyAssign, ChainBecomes
<1>8. ASSUME NEW x \in Chain, NEW y \in Chain, ChainMoveAssign(x, y)
      PROVE  AreChains'
  <2>1. DOMAIN chains = Chain
    BY DEF AreChains
  <2>2. chains' = [z \in Chain |-> IF z = y THEN EmptyChain
                                   ELSE IF z = x THEN chains[y] ELSE chains[z]]
    BY <2>1, <1>8 DEF ChainMoveAssign
  <2>3. \A z \in Chain : \E q : IsChain(chains'[z], q)
    BY <2>2, EmptyIsChain DEF AreChains
  <2> QED
    BY <2>2, <2>3 DEF AreChains
<1> QED
  BY <1>0, <1>1, <1>2, <1>4, <1>5, <1>6, <1>7, <1>8 DEF ChainNext

\* Lists that are chains are all that ChainInv says.
LEMMA ChainsTell == AreChains => ChainInv
<1> SUFFICES ASSUME AreChains PROVE ChainInv
  OBVIOUS
<1>1. ChainEndsAtTail
  <2> SUFFICES ASSUME NEW x \in Chain
               PROVE  LET s == chains[x]
                          nodes == ChainNodes(s)
                      IN  /\ {nodes[i] : i \in DOMAIN nodes} = DOMAIN s.mem
                          /\ s.count = Len(nodes)
                          /\ s.tail = IF s.count = 0 THEN NullNode
                                      ELSE nodes[s.count]
                          /\ s.tail # NullNode => s.mem[s.tail].next = NullNode
    BY DEF ChainEndsAtTail
  <2>1. PICK p : IsChain(chains[x], p)
    BY DEF AreChains
  <2> DEFINE s == chains[x]
  <2>2. ChainNodes(s) = p
    BY <2>1, NodesOfChain
  <2>3. p \in Seq(ChainNode) /\ DOMAIN p = 1..Len(p) /\ Len(p) \in Nat
    BY <2>1 DEF IsChain
  <2> HIDE DEF s
  <2>4. /\ DOMAIN s.mem = {p[i] : i \in 1..Len(p)}
        /\ \A i \in 1..Len(p) : s.mem[p[i]].next =
                                  IF i = Len(p) THEN NullNode ELSE p[i + 1]
        /\ s.tail = IF Len(p) = 0 THEN NullNode ELSE p[Len(p)]
        /\ s.count = Len(p)
    BY <2>1 DEF IsChain, s
  <2>5. CASE Len(p) = 0
    <3>1. s.tail = NullNode /\ s.count = 0
      BY <2>4, <2>5
    <3>2. {p[i] : i \in DOMAIN p} = DOMAIN s.mem
      BY <2>3, <2>4, ZenonT(20)
    <3> QED
      BY <3>1, <3>2, <2>2, <2>5 DEF s
  <2>6. CASE Len(p) # 0
    <3>1. Len(p) \in 1..Len(p)
      BY <2>3, <2>6
    <3>2. s.mem[p[Len(p)]].next = NullNode
      BY <3>1, <2>4
    <3>3. s.tail = p[Len(p)] /\ s.count = Len(p)
      BY <2>4, <2>6
    <3>4. {p[i] : i \in DOMAIN p} = DOMAIN s.mem
      BY <2>3, <2>4, ZenonT(20)
    <3> QED
      BY <3>2, <3>3, <3>4, <2>2, <2>6 DEF s
  <2> QED
    BY <2>5, <2>6
<1>2. RemoveAnswersNext
  <2> SUFFICES ASSUME NEW x \in Chain, NEW i \in DOMAIN ChainNodes(chains[x])
               PROVE  Returned(chains[x], ChainNodes(chains[x])[i],
                               ParentOf(chains[x], i))
                      = IF i = 1 THEN NullNode
                        ELSE chains[x].mem[ChainNodes(chains[x])[i]].next
    BY DEF RemoveAnswersNext
  <2>1. PICK p : IsChain(chains[x], p)
    BY DEF AreChains
  <2>2. ChainNodes(chains[x]) = p
    BY <2>1, NodesOfChain
  <2>3. i \in 1..Len(p)
    BY <2>1, <2>2 DEF IsChain
  <2> QED
    BY <2>1, <2>2, <2>3, ReturnedIs
<1> QED
  BY <1>1, <1>2 DEF ChainInv

\* Every chain is a path from its head to its tail through each of its nodes
\* once, with as many nodes as the count says, and no node is in two chains,
\* after any sequence of the operations (201-303) on any number of chains.
THEOREM ChainsAreWhole == ChainSpec => []ChainInv
<1>1. ChainInit => AreChains
  BY EmptyIsChain DEF ChainInit, AreChains
<1> QED
  BY <1>1, ChainStep, ChainsTell, PTL DEF ChainSpec
-----------------------------------------------------------------------------
(* UnorderedMap *)

Entry == [key : Key, value : Value \cup {Default}]

\* An array of that many buckets, with every key where find() looks for it.
InPlace(b, size) ==
  /\ size \in Nat \ {0}
  /\ b \in [0..(size - 1) -> Seq(Entry)]
  /\ \A i \in 0..(size - 1) : \A m, n \in 1..Len(b[i]) :
       /\ Index(b[i][n].key, size) = i
       /\ b[i][m].key = b[i][n].key => m = n

\* The types of the buckets.
LEMMA SizeIs ==
  ASSUME NEW b, NEW size, InPlace(b, size)
  PROVE  /\ SizeOf(b) = size /\ size \in Nat \ {0} /\ DOMAIN b = 0..(size - 1)
         /\ \A i \in 0..(size - 1) : /\ b[i] \in Seq(Entry)
                                     /\ DOMAIN b[i] = 1..Len(b[i])
                                     /\ Len(b[i]) \in Nat
<1>1. DOMAIN b = 0..(size - 1) /\ size \in Nat \ {0}
  BY DEF InPlace
<1>2. Cardinality(0..(size - 1)) = size
  BY <1>1, FS_Interval
<1>3. \A i \in 0..(size - 1) : b[i] \in Seq(Entry)
  BY DEF InPlace
<1> QED
  BY <1>1, <1>2, <1>3 DEF SizeOf

\* A key has a bucket.
LEMMA IndexIs ==
  ASSUME NEW key \in Key, NEW size \in Nat \ {0}
  PROVE  Index(key, size) \in 0..(size - 1)
BY MapAssumption DEF Index

\* find() finds the key, if it is there.
LEMMA AtIs ==
  ASSUME NEW s \in Seq(Entry), NEW key
  PROVE  \/ At(s, key) = 0 /\ \A n \in 1..Len(s) : s[n].key # key
         \/ At(s, key) \in 1..Len(s) /\ s[At(s, key)].key = key
<1>1. CASE \A n \in 1..Len(s) : s[n].key # key
  BY <1>1 DEF At
<1>2. CASE \E n \in 1..Len(s) : s[n].key = key
  <2> DEFINE T == {n \in 1..Len(s) : s[n].key = key}
  <2>1. PICK n \in T : \A m \in T : n <= m
    <3>1. T \subseteq Nat /\ T # {}
      BY <1>2
    <3> HIDE DEF T
    <3> QED
      BY <3>1, Least
  <2>2. \A m \in 1..(n - 1) : s[m].key # key
    BY <2>1
  <2>3. \E k \in DOMAIN s : s[k].key = key
        /\ \A m \in 1..(k - 1) : s[m].key # key
    BY <2>1, <2>2
  <2>4. At(s, key) = CHOOSE k \in DOMAIN s :
                       s[k].key = key /\ \A m \in 1..(k - 1) : s[m].key # key
    BY <1>2 DEF At
  <2>5. At(s, key) \in DOMAIN s /\ s[At(s, key)].key = key
    BY <2>3, <2>4
  <2> QED
    BY <2>5
<1> QED
  BY <1>1, <1>2

\* The place of an element.
IsPlace(b, size, it) ==
  /\ it.index \in 0..(size - 1) /\ it.pos \in 1..Len(b[it.index])
  /\ it = [index |-> it.index, pos |-> it.pos]

\* The iterators of a map, by their two parts.
LEMMA PlacesAre ==
  ASSUME NEW b, NEW size, InPlace(b, size)
  PROVE  \A it : it \in Places(b) <=> IsPlace(b, size, it)
<1>1. DOMAIN b = 0..(size - 1)
      /\ \A i \in 0..(size - 1) : DOMAIN b[i] = 1..Len(b[i])
  BY SizeIs
<1>2. \A it : it \in Places(b)
              <=> \E i \in DOMAIN b : \E n \in DOMAIN b[i] :
                    it = [index |-> i, pos |-> n]
  BY DEF Places
<1>3. ASSUME NEW it, it \in Places(b) PROVE IsPlace(b, size, it)
  <2>1. PICK i \in DOMAIN b : \E n \in DOMAIN b[i] :
               it = [index |-> i, pos |-> n]
    BY <1>2, <1>3
  <2>2. PICK n \in DOMAIN b[i] : it = [index |-> i, pos |-> n]
    BY <2>1
  <2> QED
    BY <2>2, <1>1 DEF IsPlace
<1>4. ASSUME NEW it, IsPlace(b, size, it) PROVE it \in Places(b)
  BY <1>1, <1>2, <1>4 DEF IsPlace
<1> QED
  BY <1>3, <1>4

\* A position of a bucket is an iterator.
LEMMA PlaceIn ==
  ASSUME NEW b, NEW size, InPlace(b, size),
         NEW i \in 0..(size - 1), NEW n \in 1..Len(b[i])
  PROVE  [index |-> i, pos |-> n] \in Places(b)
BY PlacesAre DEF IsPlace

\* What is in a bucket is in the map.
LEMMA ElementIn ==
  ASSUME NEW b, NEW size, InPlace(b, size),
         NEW i \in 0..(size - 1), NEW n \in 1..Len(b[i])
  PROVE  b[i][n] \in Elements(b)
<1> DEFINE it == [index |-> i, pos |-> n]
<1>1. it \in Places(b) /\ it.index = i /\ it.pos = n
  BY PlaceIn
<1> QED
  BY <1>1 DEF Elements

\* Where an element is.
HasPlace(b, size, x) ==
  \E i \in 0..(size - 1) : \E n \in 1..Len(b[i]) : x = b[i][n]

\* What is in the map is in a bucket, the one of its key.
LEMMA ElementOf ==
  ASSUME NEW b, NEW size, InPlace(b, size), NEW x \in Elements(b)
  PROVE  HasPlace(b, size, x) /\ x \in Entry
<1>1. PICK it \in Places(b) : x = b[it.index][it.pos]
  BY DEF Elements
<1>2. it.index \in 0..(size - 1) /\ it.pos \in 1..Len(b[it.index])
  BY PlacesAre DEF IsPlace
<1>3. b[it.index] \in Seq(Entry)
  BY <1>2, SizeIs
<1> QED
  BY <1>1, <1>2, <1>3 DEF HasPlace

\* No two elements have the same key.
LEMMA KeysDiffer ==
  ASSUME NEW b, NEW size, InPlace(b, size),
         NEW i \in 0..(size - 1), NEW j \in 0..(size - 1),
         NEW m \in 1..Len(b[i]), NEW n \in 1..Len(b[j]),
         b[i][m].key = b[j][n].key
  PROVE  i = j /\ m = n
BY DEF InPlace

\* One bucket changes.
Fits(s, i, size) ==
  \A m, n \in 1..Len(s) : /\ Index(s[n].key, size) = i
                          /\ s[m].key = s[n].key => m = n
Changed(t, b, size, i, s) ==
  InPlace(t, size) /\ t[i] = s /\ \A j \in 0..(size - 1) : j # i => t[j] = b[j]

\* A change of one bucket leaves the keys in their places.
LEMMA BucketChanges ==
  ASSUME NEW b, NEW size, InPlace(b, size), NEW i \in 0..(size - 1),
         NEW s \in Seq(Entry), Fits(s, i, size), NEW t, t = [b EXCEPT ![i] = s]
  PROVE  Changed(t, b, size, i, s)
<1>1. /\ t \in [0..(size - 1) -> Seq(Entry)]
      /\ t[i] = s /\ \A j \in 0..(size - 1) : j # i => t[j] = b[j]
  BY DEF InPlace
<1>2. \A j \in 0..(size - 1) : \A m, n \in 1..Len(t[j]) :
       /\ Index(t[j][n].key, size) = j
       /\ t[j][m].key = t[j][n].key => m = n
  BY <1>1 DEF InPlace, Fits
<1> QED
  BY <1>1, <1>2 DEF InPlace, Changed

\* insertOrUpdate(): the key's element, and no other, is there or replaced.
IsInserted(t, b, size, e) ==
  LET i == Index(e.key, size)
  IN  /\ InPlace(t, size)
      /\ Elements(t) = {x \in Elements(b) : x.key # e.key} \cup {e}
      /\ IF At(b[i], e.key) = 0
         THEN /\ \A x \in Elements(b) : x.key # e.key
              /\ Places(t) = Places(b)
                             \cup {[index |-> i, pos |-> Len(b[i]) + 1]}
              /\ t = [b EXCEPT ![i] = Append(b[i], e)]
         ELSE /\ \E x \in Elements(b) : x.key = e.key
              /\ Places(t) = Places(b)

\* A pair of a new key goes behind those of its bucket (647).
LEMMA AppendedIn ==
  ASSUME NEW b, NEW size, InPlace(b, size), NEW e \in Entry, NEW i,
         i = Index(e.key, size), At(b[i], e.key) = 0,
         NEW t, t = [b EXCEPT ![i] = Append(b[i], e)]
  PROVE  IsInserted(t, b, size, e)
<1> DEFINE s == Append(b[i], e)
           l == Len(b[i])
<1>1. size \in Nat \ {0} /\ e.key \in Key
  BY SizeIs DEF Entry
<1>2. i \in 0..(size - 1)
  BY <1>1, IndexIs
<1>3. b[i] \in Seq(Entry) /\ l \in Nat
  BY <1>2, SizeIs
<1>4. /\ s \in Seq(Entry) /\ Len(s) = l + 1 /\ s[l + 1] = e
      /\ \A n \in 1..l : s[n] = b[i][n]
  BY <1>3
<1>5. \A n \in 1..l : b[i][n].key # e.key
  BY <1>3, AtIs
<1> HIDE DEF s, l
<1>6. Fits(s, i, size)
  <2> SUFFICES ASSUME NEW m \in 1..Len(s), NEW n \in 1..Len(s)
               PROVE  Index(s[n].key, size) = i
                      /\ (s[m].key = s[n].key => m = n)
    BY DEF Fits
  <2>0. Fits(b[i], i, size)
    BY <1>2 DEF InPlace, Fits
  <2>1. ASSUME NEW k \in 1..l
        PROVE  Index(s[k].key, size) = i /\ s[k].key # e.key
    <3>1. s[k] = b[i][k] /\ k \in 1..Len(b[i])
      BY <1>4 DEF l
    <3> QED
      BY <3>1, <2>0, <1>5 DEF Fits
  <2>2. ASSUME m \in 1..l, n \in 1..l, s[m].key = s[n].key PROVE m = n
    <3>1. s[m] = b[i][m] /\ m \in 1..Len(b[i])
          /\ s[n] = b[i][n] /\ n \in 1..Len(b[i])
      BY <2>2, <1>4 DEF l
    <3> QED
      BY <3>1, <2>0, <2>2 DEF Fits
  <2>3. (m \in 1..l \/ m = l + 1) /\ (n \in 1..l \/ n = l + 1)
    BY <1>3, <1>4
  <2> QED
    BY <2>1, <2>2, <2>3, <1>4
<1>7. t = [b EXCEPT ![i] = s]
  BY DEF s
<1>a. Changed(t, b, size, i, s)
  BY <1>2, <1>4, <1>6, <1>7, BucketChanges
<1>8. InPlace(t, size) /\ t[i] = s
      /\ \A j \in 0..(size - 1) : j # i => t[j] = b[j]
  BY <1>a DEF Changed
<1>9. \A x \in Elements(b) : x.key # e.key
  <2> SUFFICES ASSUME NEW j \in 0..(size - 1), NEW n \in 1..Len(b[j]),
                      b[j][n].key = e.key
               PROVE  FALSE
    BY ElementOf DEF HasPlace
  <2>1. j = i
    BY DEF InPlace
  <2> QED
    BY <2>1, <1>5 DEF l
<1>10. Elements(t) = Elements(b) \cup {e}
  <2>1. ASSUME NEW x \in Elements(t) PROVE x \in Elements(b) \cup {e}
    <3>a. HasPlace(t, size, x)
      BY <1>8, ElementOf
    <3>0. PICK j \in 0..(size - 1) : \E n \in 1..Len(t[j]) : x = t[j][n]
      BY <3>a DEF HasPlace
    <3>1. PICK n \in 1..Len(t[j]) : x = t[j][n]
      BY <3>0
    <3>2. CASE j # i
      <4>1. x = b[j][n] /\ n \in 1..Len(b[j])
        BY <3>1, <3>2, <1>8
      <4> QED
        BY <4>1, ElementIn
    <3>3. CASE j = i
      <4>1. x = s[n] /\ (n \in 1..l \/ n = l + 1)
        BY <3>1, <3>3, <1>3, <1>4, <1>8
      <4>2. n \in 1..l => x = b[i][n] /\ n \in 1..Len(b[i])
        BY <4>1, <1>4 DEF l
      <4> QED
        BY <4>1, <4>2, <1>2, <1>4, ElementIn
    <3> QED
      BY <3>2, <3>3
  <2>2. ASSUME NEW x \in Elements(b) PROVE x \in Elements(t)
    <3>a. HasPlace(b, size, x)
      BY ElementOf
    <3>0. PICK j \in 0..(size - 1) : \E n \in 1..Len(b[j]) : x = b[j][n]
      BY <3>a DEF HasPlace
    <3>1. PICK n \in 1..Len(b[j]) : x = b[j][n]
      BY <3>0
    <3>2. n \in 1..Len(t[j]) /\ t[j][n] = x
      BY <3>1, <1>3, <1>4, <1>8 DEF l
    <3> QED
      BY <3>2, <1>8, ElementIn
  <2>3. e \in Elements(t)
    <3>1. l + 1 \in 1..Len(t[i]) /\ t[i][l + 1] = e
      BY <1>3, <1>4, <1>8
    <3> QED
      <4>1. t[i][l + 1] \in Elements(t)
        BY <3>1, <1>2, <1>8, ElementIn
      <4> QED
        BY <4>1, <3>1
  <2> QED
    BY <2>1, <2>2, <2>3
<1>11. Places(t) = Places(b) \cup {[index |-> i, pos |-> l + 1]}
  <2> DEFINE new == [index |-> i, pos |-> l + 1]
  <2>1. ASSUME NEW it \in Places(t) PROVE it \in Places(b) \cup {new}
    <3>1. /\ it.index \in 0..(size - 1) /\ it.pos \in 1..Len(t[it.index])
          /\ it = [index |-> it.index, pos |-> it.pos]
      BY <1>8, PlacesAre DEF IsPlace
    <3>2. CASE it.index # i \/ it.pos # l + 1
      <4>1. it.pos \in 1..Len(b[it.index])
        BY <3>1, <3>2, <1>3, <1>4, <1>8 DEF l
      <4> QED
        BY <3>1, <4>1, PlacesAre DEF IsPlace
    <3> QED
      BY <3>1, <3>2
  <2>2. ASSUME NEW it \in Places(b) PROVE it \in Places(t)
    <3>1. /\ it.index \in 0..(size - 1) /\ it.pos \in 1..Len(b[it.index])
          /\ it = [index |-> it.index, pos |-> it.pos]
      BY PlacesAre DEF IsPlace
    <3>2. it.pos \in 1..Len(t[it.index])
      BY <3>1, <1>3, <1>4, <1>8 DEF l
    <3> QED
      BY <3>1, <3>2, <1>8, PlacesAre DEF IsPlace
  <2>3. new \in Places(t)
    <3>1. l + 1 \in 1..Len(t[i])
      BY <1>3, <1>4, <1>8
    <3> QED
      BY <3>1, <1>2, <1>8, PlacesAre DEF IsPlace
  <2> QED
    BY <2>1, <2>2, <2>3
<1> QED
  BY <1>8, <1>9, <1>10, <1>11 DEF IsInserted, l

\* An element is replaced by one of the same key.
IsReplaced(t, b, size, e) ==
  /\ InPlace(t, size)
  /\ Elements(t) = {x \in Elements(b) : x.key # e.key} \cup {e}
  /\ \E x \in Elements(b) : x.key = e.key
  /\ Places(t) = Places(b)

\* A pair of a known key takes the place of the old one.
LEMMA ReplacedIn ==
  ASSUME NEW b, NEW size, InPlace(b, size), NEW e \in Entry,
         NEW i \in 0..(size - 1), NEW at \in 1..Len(b[i]), b[i][at].key = e.key,
         NEW t, t = [b EXCEPT ![i][at] = e]
  PROVE  IsReplaced(t, b, size, e)
<1> DEFINE s == [b[i] EXCEPT ![at] = e]
<1>2. i \in 0..(size - 1)
  OBVIOUS
<1>3. b[i] \in Seq(Entry) /\ Len(b[i]) \in Nat
  BY <1>2, SizeIs
<1>4. at \in 1..Len(b[i]) /\ b[i][at].key = e.key
  OBVIOUS
<1>5. /\ s \in Seq(Entry) /\ Len(s) = Len(b[i]) /\ s[at] = e
      /\ \A n \in 1..Len(s) : n # at => s[n] = b[i][n]
  BY <1>3, <1>4
<1> HIDE DEF s
<1>6. Fits(s, i, size)
  <2> SUFFICES ASSUME NEW m \in 1..Len(s), NEW n \in 1..Len(s)
               PROVE  Index(s[n].key, size) = i
                      /\ (s[m].key = s[n].key => m = n)
    BY DEF Fits
  <2>0. Fits(b[i], i, size)
    BY <1>2 DEF InPlace, Fits
  <2>1. \A k \in 1..Len(s) : s[k].key = b[i][k].key
    BY <1>4, <1>5
  <2> QED
    BY <2>0, <2>1, <1>5 DEF Fits
<1>7. t = [b EXCEPT ![i] = s]
  BY DEF s
<1>a. Changed(t, b, size, i, s)
  BY <1>2, <1>5, <1>6, <1>7, BucketChanges
<1>8. InPlace(t, size) /\ t[i] = s
      /\ \A j \in 0..(size - 1) : j # i => t[j] = b[j]
  BY <1>a DEF Changed
<1>9. \E x \in Elements(b) : x.key = e.key
  BY <1>2, <1>4, ElementIn
<1>10. Elements(t) = {x \in Elements(b) : x.key # e.key} \cup {e}
  <2>1. ASSUME NEW x \in Elements(t)
        PROVE  x = e \/ (x \in Elements(b) /\ x.key # e.key)
    <3>a. HasPlace(t, size, x)
      BY <1>8, ElementOf
    <3>0. PICK j \in 0..(size - 1) : \E n \in 1..Len(t[j]) : x = t[j][n]
      BY <3>a DEF HasPlace
    <3>1. PICK n \in 1..Len(t[j]) : x = t[j][n]
      BY <3>0
    <3>2. CASE j = i /\ n = at
      BY <3>1, <3>2, <1>5, <1>8
    <3>3. CASE ~ (j = i /\ n = at)
      <4>1. x = b[j][n] /\ n \in 1..Len(b[j])
        BY <3>1, <3>3, <1>5, <1>8
      <4>2. x.key # e.key
        BY <4>1, <3>3, <1>2, <1>4, KeysDiffer
      <4> QED
        BY <4>1, <4>2, ElementIn
    <3> QED
      BY <3>2, <3>3
  <2>2. ASSUME NEW x \in Elements(b), x.key # e.key PROVE x \in Elements(t)
    <3>a. HasPlace(b, size, x)
      BY ElementOf
    <3>0. PICK j \in 0..(size - 1) : \E n \in 1..Len(b[j]) : x = b[j][n]
      BY <3>a DEF HasPlace
    <3>1. PICK n \in 1..Len(b[j]) : x = b[j][n]
      BY <3>0
    <3>2. n \in 1..Len(t[j]) /\ t[j][n] = x
      BY <3>1, <2>2, <1>4, <1>5, <1>8
    <3> QED
      BY <3>2, <1>8, ElementIn
  <2>3. e \in Elements(t)
    <3>1. at \in 1..Len(t[i]) /\ t[i][at] = e
      BY <1>4, <1>5, <1>8
    <3>2. t[i][at] \in Elements(t)
      BY <3>1, <1>2, <1>8, ElementIn
    <3> QED
      BY <3>1, <3>2
  <2> QED
    BY <2>1, <2>2, <2>3
<1>11. Places(t) = Places(b)
  <2>1. \A j \in 0..(size - 1) : Len(t[j]) = Len(b[j])
    BY <1>5, <1>8
  <2>2. DOMAIN t = DOMAIN b /\ DOMAIN b = 0..(size - 1)
        /\ \A j \in 0..(size - 1) : DOMAIN t[j] = DOMAIN b[j]
    BY <2>1, <1>8, SizeIs
  <2> QED
    BY <2>2 DEF Places
<1> QED
  BY <1>4, <1>8, <1>9, <1>10, <1>11 DEF IsReplaced

\* insertOrUpdate() (629-656) puts a pair in the place of any of its key.
LEMMA InsertOrUpdateIs ==
  ASSUME NEW b, NEW size, InPlace(b, size), NEW e \in Entry,
         NEW t, t = InsertOrUpdate(b, e)
  PROVE  IsInserted(t, b, size, e)
<1> DEFINE i == Index(e.key, size)
           at == At(b[i], e.key)
<1>1. SizeOf(b) = size
  BY SizeIs
<1>2. t = IF at = 0 THEN [b EXCEPT ![i] = Append(b[i], e)]
                    ELSE [b EXCEPT ![i][at] = e]
  BY <1>1 DEF InsertOrUpdate
<1> HIDE DEF i, at
<1>3. i = Index(e.key, size) /\ at = At(b[i], e.key)
  BY DEF i, at
<1>4. CASE at = 0
  BY <1>2, <1>3, <1>4, AppendedIn
<1>5. CASE at # 0
  <2>1. size \in Nat \ {0} /\ e.key \in Key
    BY SizeIs DEF Entry
  <2>2. i \in 0..(size - 1)
    BY <2>1, <1>3, IndexIs
  <2>3. b[i] \in Seq(Entry)
    BY <2>2, SizeIs
  <2>4. at \in 1..Len(b[i]) /\ b[i][at].key = e.key
    BY <2>3, <1>3, <1>5, AtIs
  <2>5. t = [b EXCEPT ![i][at] = e]
    BY <1>2, <1>5
  <2>6. IsReplaced(t, b, size, e)
    BY <2>2, <2>4, <2>5, ReplacedIn
  <2> QED
    BY <2>6, <1>3, <1>5 DEF IsReplaced, IsInserted
<1> QED
  BY <1>4, <1>5

\* As many places as elements, and finitely many.
Finite(b) == IsFiniteSet(Places(b))

\* There are as many iterators as elements, since no element is there twice.
LEMMA PlacesCounted ==
  ASSUME NEW b, NEW size, InPlace(b, size), Finite(b)
  PROVE  /\ Cardinality(Places(b)) = Cardinality(Elements(b))
         /\ Cardinality(Places(b)) \in Nat
         /\ IsFiniteSet(Elements(b))
<1> DEFINE f == [it \in Places(b) |-> b[it.index][it.pos]]
<1>1. f \in [Places(b) -> Elements(b)]
  BY DEF Elements
<1>2. \A x \in Elements(b) : \E it \in Places(b) : f[it] = x
  BY DEF Elements
<1>3. ASSUME NEW it \in Places(b), NEW other \in Places(b), f[it] = f[other]
      PROVE  it = other
  <2>1. IsPlace(b, size, it) /\ IsPlace(b, size, other)
    BY PlacesAre
  <2>2. b[it.index][it.pos].key = b[other.index][other.pos].key
    BY <1>3
  <2>3. /\ it.index \in 0..(size - 1) /\ other.index \in 0..(size - 1)
        /\ it.pos \in 1..Len(b[it.index])
        /\ other.pos \in 1..Len(b[other.index])
    BY <2>1 DEF IsPlace
  <2>4. it.index = other.index
    <3>1. Index(b[it.index][it.pos].key, size) = it.index
      BY <2>3 DEF InPlace
    <3>2. Index(b[other.index][other.pos].key, size) = other.index
      BY <2>3 DEF InPlace
    <3> QED
      BY <3>1, <3>2, <2>2
  <2>5. it.pos = other.pos
    BY <2>2, <2>3, <2>4 DEF InPlace
  <2> QED
    BY <2>1, <2>4, <2>5 DEF IsPlace
<1> HIDE DEF f
<1>4. f \in Bijection(Places(b), Elements(b))
  BY <1>1, <1>2, <1>3 DEF Bijection, Injection, Surjection, IsInjective
<1> QED
  BY <1>4, FS_Bijection, FS_CardinalityType DEF Finite, ExistsBijection

\* An insertion adds at most one place.
LEMMA InsertedFinite ==
  ASSUME NEW b, NEW size, NEW t, NEW e, IsInserted(t, b, size, e), Finite(b)
  PROVE  Finite(t)
<1> DEFINE i == Index(e.key, size)
           new == [index |-> i, pos |-> Len(b[i]) + 1]
<1>1. Places(t) = Places(b) \/ Places(t) = Places(b) \cup {new}
  BY DEF IsInserted
<1> HIDE DEF new
<1> QED
  BY <1>1, FS_AddElement DEF Finite

\* A map of empty buckets has no element.
LEMMA BucketsAre ==
  ASSUME NEW size \in Nat \ {0}
  PROVE  /\ InPlace(Buckets(size), size) /\ Finite(Buckets(size))
         /\ Places(Buckets(size)) = {} /\ Elements(Buckets(size)) = {}
<1>1. InPlace(Buckets(size), size)
  <2>1. \A i \in 0..(size - 1) : Buckets(size)[i] = <<>>
    BY DEF Buckets
  <2>2. Buckets(size) \in [0..(size - 1) -> Seq(Entry)]
    BY DEF Buckets
  <2> QED
    BY <2>1, <2>2 DEF InPlace
<1>2. Places(Buckets(size)) = {}
  <2> SUFFICES ASSUME NEW it \in Places(Buckets(size)) PROVE FALSE
    OBVIOUS
  <2>1. IsPlace(Buckets(size), size, it)
    BY <1>1, PlacesAre
  <2> QED
    BY <2>1 DEF IsPlace, Buckets
<1>3. Elements(Buckets(size)) = {}
  BY <1>2 DEF Elements
<1> QED
  BY <1>1, <1>2, <1>3, FS_EmptySet DEF Finite

\* Elements whose keys are new are poured in without a loss.
IsPoured(t, b, size, elements, n) ==
  /\ InPlace(t, size) /\ Finite(t)
  /\ Elements(t) = Elements(b) \cup {elements[k] : k \in 1..n}

Pours(f, b, elements, l) ==
  /\ f[0] = b /\ Poured(b, elements) = f[l]
  /\ \A n \in 1..l : f[n] = InsertOrUpdate(f[n - 1], elements[n])

\* The inner loop of rehash() (518) inserts one element after the other.
LEMMA PouredUnfolds ==
  ASSUME NEW b, NEW elements, NEW l \in Nat, l = Len(elements)
  PROVE  \E f : Pours(f, b, elements, l)
<1> DEFINE Step(h, n) == IF n = 0 THEN b
                         ELSE InsertOrUpdate(h[n - 1], elements[n])
           T == {m \in Nat : \E h : h = [n \in 0..m |-> Step(h, n)]}
<1>1. 0 \in T
  <2> DEFINE h == [n \in 0..0 |-> b]
  <2>1. \A n \in 0..0 : h[n] = Step(h, n)
    OBVIOUS
  <2>2. h = [n \in 0..0 |-> h[n]]
    OBVIOUS
  <2> HIDE DEF h
  <2>3. h = [n \in 0..0 |-> Step(h, n)]
    BY <2>1, <2>2
  <2> QED
    BY <2>3
<1>2. ASSUME NEW m \in T PROVE m + 1 \in T
  <2>1. PICK h : h = [n \in 0..m |-> Step(h, n)]
    OBVIOUS
  <2> DEFINE g == [n \in 0..(m + 1) |-> IF n <= m THEN h[n] ELSE
                     InsertOrUpdate(h[m], elements[m + 1])]
  <2>2. ASSUME NEW n \in 0..(m + 1) PROVE g[n] = Step(g, n)
    <3>1. CASE n = 0
      BY <2>1, <3>1
    <3>2. CASE n # 0
      <4>1. n - 1 \in 0..m /\ g[n - 1] = h[n - 1]
        BY <3>2
      <4>2. CASE n <= m
        <5>1. h[n] = Step(h, n)
          BY <2>1, <4>2
        <5> QED
          BY <5>1, <4>1, <4>2
      <4>3. CASE n = m + 1
        BY <4>1, <4>3, <3>2
      <4> QED
        BY <4>2, <4>3
    <3> QED
      BY <3>1, <3>2
  <2>3. g = [n \in 0..(m + 1) |-> g[n]]
    OBVIOUS
  <2> HIDE DEF g
  <2>4. g = [n \in 0..(m + 1) |-> Step(g, n)]
    BY <2>2, <2>3
  <2> QED
    BY <2>4
<1>3. T = Nat
  <2> HIDE DEF T
  <2> QED
    BY <1>1, <1>2, Induct DEF T
<1>4. \E h : h = [n \in 0..l |-> Step(h, n)]
  BY <1>3
<1> DEFINE f == CHOOSE h : h = [n \in 0..l |-> Step(h, n)]
<1>5. Poured(b, elements) = f[l]
  BY Zenon DEF Poured
<1>6. f = [n \in 0..l |-> Step(f, n)]
  <2> HIDE DEF Step
  <2> QED
    BY <1>4, Zenon
<1> HIDE DEF f
<1>7. f[0] = b /\ \A n \in 1..l : f[n] = InsertOrUpdate(f[n - 1], elements[n])
  BY <1>6
<1> QED
  BY <1>5, <1>7 DEF Pours

\* It inserts all elements of its bucket and keeps the others.
LEMMA PouredIs ==
  ASSUME NEW b, NEW size, InPlace(b, size), Finite(b),
         NEW elements \in Seq(Entry),
         \A m, n \in 1..Len(elements) :
           elements[m].key = elements[n].key => m = n,
         \A n \in 1..Len(elements) : \A x \in Elements(b) :
           x.key # elements[n].key
  PROVE  IsPoured(Poured(b, elements), b, size, elements, Len(elements))
<1> DEFINE l == Len(elements)
<1>1. l \in Nat
  OBVIOUS
<1>a. PICK f : Pours(f, b, elements, l)
  BY <1>1, PouredUnfolds
<1>2. /\ f[0] = b /\ Poured(b, elements) = f[l]
      /\ \A n \in 1..l : f[n] = InsertOrUpdate(f[n - 1], elements[n])
  BY <1>a DEF Pours
<1> HIDE DEF l
<1> DEFINE T == {n \in Nat : n <= l => IsPoured(f[n], b, size, elements, n)}
<1>3. 0 \in T
  <2>1. {elements[k] : k \in 1..0} = {}
    OBVIOUS
  <2> QED
    BY <1>2, <2>1 DEF IsPoured
<1>4. ASSUME NEW n \in T PROVE n + 1 \in T
  <2> SUFFICES ASSUME n + 1 <= l
               PROVE  IsPoured(f[n + 1], b, size, elements, n + 1)
    OBVIOUS
  <2> DEFINE e == elements[n + 1]
  <2>1. /\ InPlace(f[n], size) /\ Finite(f[n])
        /\ Elements(f[n]) = Elements(b) \cup {elements[k] : k \in 1..n}
    BY <1>1 DEF IsPoured
  <2>2. e \in Entry /\ f[n + 1] = InsertOrUpdate(f[n], e) /\ n + 1 \in 1..l
    BY <1>1, <1>2 DEF l
  <2>3. \A x \in Elements(f[n]) : x.key # e.key
    <3>1. ASSUME NEW k \in 1..n PROVE elements[k].key # e.key
      <4>1. k \in 1..l /\ k # n + 1
        BY <2>2, <1>1
      <4> QED
        BY <4>1, <2>2 DEF l
    <3>2. \A x \in Elements(b) : x.key # e.key
      BY <2>2 DEF l
    <3> QED
      BY <2>1, <3>1, <3>2
  <2> HIDE DEF e
  <2>4. IsInserted(f[n + 1], f[n], size, e)
    BY <2>1, <2>2, InsertOrUpdateIs
  <2>5. Finite(f[n + 1]) /\ InPlace(f[n + 1], size)
    <3>1. Finite(f[n + 1])
      BY <2>1, <2>4, InsertedFinite
    <3> QED
      BY <3>1, <2>4 DEF IsInserted
  <2>6. Elements(f[n + 1]) = Elements(f[n]) \cup {e}
    <3>1. Elements(f[n + 1]) = {x \in Elements(f[n]) : x.key # e.key} \cup {e}
      BY <2>4 DEF IsInserted
    <3> QED
      BY <3>1, <2>3
  <2>7. {elements[k] : k \in 1..(n + 1)} = {elements[k] : k \in 1..n} \cup {e}
    <3>1. 1..(n + 1) = 1..n \cup {n + 1}
      OBVIOUS
    <3> QED
      BY <3>1 DEF e
  <2> QED
    BY <2>1, <2>5, <2>6, <2>7 DEF IsPoured
<1>5. T = Nat
  <2> HIDE DEF T
  <2> QED
    BY <1>3, <1>4, Induct DEF T
<1> QED
  BY <1>1, <1>2, <1>5 DEF l

\* rehash(): every element is in the new buckets, and nothing else.
Rebuilds(f, b, size, old) ==
  /\ f[0] = Buckets(size) /\ Rebuilt(b, size) = f[old]
  /\ \A i \in 1..old : f[i] = Poured(f[i - 1], b[i - 1])

\* The outer loop of rehash() (516) takes one bucket after the other.
LEMMA RebuiltUnfolds ==
  ASSUME NEW b, NEW size, NEW old \in Nat, old = SizeOf(b)
  PROVE  \E f : Rebuilds(f, b, size, old)
<1> DEFINE Step(h, n) == IF n = 0 THEN Buckets(size)
                         ELSE Poured(h[n - 1], b[n - 1])
           T == {m \in Nat : \E h : h = [n \in 0..m |-> Step(h, n)]}
<1>1. 0 \in T
  <2> DEFINE h == [n \in 0..0 |-> Buckets(size)]
  <2>1. \A n \in 0..0 : h[n] = Step(h, n)
    OBVIOUS
  <2>2. h = [n \in 0..0 |-> h[n]]
    OBVIOUS
  <2> HIDE DEF h
  <2>3. h = [n \in 0..0 |-> Step(h, n)]
    BY <2>1, <2>2
  <2> QED
    BY <2>3
<1>2. ASSUME NEW m \in T PROVE m + 1 \in T
  <2>1. PICK h : h = [n \in 0..m |-> Step(h, n)]
    OBVIOUS
  <2> DEFINE g == [n \in 0..(m + 1) |-> IF n <= m THEN h[n] ELSE
                     Poured(h[m], b[m])]
  <2>2. ASSUME NEW n \in 0..(m + 1) PROVE g[n] = Step(g, n)
    <3>1. CASE n = 0
      BY <2>1, <3>1
    <3>2. CASE n # 0
      <4>1. n - 1 \in 0..m /\ g[n - 1] = h[n - 1]
        BY <3>2
      <4>2. CASE n <= m
        <5>1. h[n] = Step(h, n)
          BY <2>1, <4>2
        <5> QED
          BY <5>1, <4>1, <4>2
      <4>3. CASE n = m + 1
        <5>1. n - 1 = m
          BY <4>3
        <5> QED
          BY <4>1, <4>3, <5>1, <3>2
      <4> QED
        BY <4>2, <4>3
    <3> QED
      BY <3>1, <3>2
  <2>3. g = [n \in 0..(m + 1) |-> g[n]]
    OBVIOUS
  <2> HIDE DEF g
  <2>4. g = [n \in 0..(m + 1) |-> Step(g, n)]
    BY <2>2, <2>3
  <2> QED
    BY <2>4
<1>3. T = Nat
  <2> HIDE DEF T
  <2> QED
    BY <1>1, <1>2, Induct DEF T
<1>4. \E h : h = [n \in 0..old |-> Step(h, n)]
  BY <1>3
<1> DEFINE f == CHOOSE h : h = [n \in 0..old |-> Step(h, n)]
<1>5. Rebuilt(b, size) = f[old]
  BY Zenon DEF Rebuilt
<1>6. f = [n \in 0..old |-> Step(f, n)]
  <2> HIDE DEF Step
  <2> QED
    BY <1>4, Zenon
<1> HIDE DEF f
<1>7. /\ f[0] = Buckets(size)
      /\ \A i \in 1..old : f[i] = Poured(f[i - 1], b[i - 1])
  BY <1>6
<1> QED
  BY <1>5, <1>7 DEF Rebuilds

IsRebuilt(t, b, size, old, n) ==
  /\ InPlace(t, size) /\ Finite(t)
  /\ Elements(t) = {x \in Elements(b) : Index(x.key, old) < n}

\* A rebuilt map has the elements of the old one, in their new places.
LEMMA RebuiltIs ==
  ASSUME NEW b, NEW old, InPlace(b, old), NEW size \in Nat \ {0}
  PROVE  LET t == Rebuilt(b, size)
         IN  InPlace(t, size) /\ Finite(t) /\ Elements(t) = Elements(b)
<1>1. /\ SizeOf(b) = old /\ old \in Nat \ {0}
      /\ \A i \in 0..(old - 1) : b[i] \in Seq(Entry) /\ Len(b[i]) \in Nat
  BY SizeIs
<1>2. PICK f : Rebuilds(f, b, size, old)
  BY <1>1, RebuiltUnfolds
<1>3. /\ f[0] = Buckets(size) /\ Rebuilt(b, size) = f[old]
      /\ \A i \in 1..old : f[i] = Poured(f[i - 1], b[i - 1])
  BY <1>2 DEF Rebuilds
<1>4. ASSUME NEW x \in Elements(b)
      PROVE  /\ Index(x.key, old) \in 0..(old - 1)
             /\ \E n \in 1..Len(b[Index(x.key, old)]) :
                x = b[Index(x.key, old)][n]
  <2>1. HasPlace(b, old, x)
    BY ElementOf
  <2>2. PICK i \in 0..(old - 1) : \E n \in 1..Len(b[i]) : x = b[i][n]
    BY <2>1 DEF HasPlace
  <2>3. Index(x.key, old) = i
    BY <2>2 DEF InPlace
  <2> QED
    BY <2>2, <2>3
<1> DEFINE T == {i \in Nat : i <= old => IsRebuilt(f[i], b, size, old, i)}
<1>5. 0 \in T
  <2>1. InPlace(f[0], size) /\ Finite(f[0]) /\ Elements(f[0]) = {}
    BY <1>3, BucketsAre
  <2>2. {x \in Elements(b) : Index(x.key, old) < 0} = {}
    BY <1>4
  <2> QED
    BY <2>1, <2>2 DEF IsRebuilt
<1>6. ASSUME NEW i \in T PROVE i + 1 \in T
  <2> SUFFICES ASSUME i + 1 <= old
               PROVE  IsRebuilt(f[i + 1], b, size, old, i + 1)
    OBVIOUS
  <2> DEFINE s == b[i]
  <2>0. i \in 0..(old - 1) /\ i + 1 \in 1..old /\ i + 1 - 1 = i
    BY <1>1
  <2>1. /\ InPlace(f[i], size) /\ Finite(f[i])
        /\ Elements(f[i]) = {x \in Elements(b) : Index(x.key, old) < i}
    BY <1>1, <2>0 DEF IsRebuilt
  <2>2. s \in Seq(Entry) /\ f[i + 1] = Poured(f[i], s)
    BY <2>0, <1>1, <1>3
  <2>3. Fits(s, i, old)
    BY <2>0 DEF InPlace, Fits
  <2>4. \A m, n \in 1..Len(s) : s[m].key = s[n].key => m = n
    BY <2>3 DEF Fits
  <2>5. ASSUME NEW n \in 1..Len(s), NEW x \in Elements(f[i]), x.key = s[n].key
        PROVE  FALSE
    <3>1. Index(s[n].key, old) = i
      BY <2>3 DEF Fits
    <3>2. Index(x.key, old) < i
      BY <2>1
    <3> QED
      BY <3>1, <3>2, <2>5, <2>0
  <2>6. \A n \in 1..Len(s) : s[n] \in Elements(b)
    BY <2>0, ElementIn
  <2>s. s = b[i]
    OBVIOUS
  <2> HIDE DEF s
  <2>7. IsPoured(f[i + 1], f[i], size, s, Len(s))
    BY <2>1, <2>2, <2>4, <2>5, PouredIs
  <2>8. /\ InPlace(f[i + 1], size) /\ Finite(f[i + 1])
        /\ Elements(f[i + 1]) = Elements(f[i]) \cup {s[k] : k \in 1..Len(s)}
    BY <2>7 DEF IsPoured
  <2>9. ASSUME NEW x \in Elements(b), Index(x.key, old) < i + 1
        PROVE  Index(x.key, old) < i \/ \E k \in 1..Len(s) : x = s[k]
    <3>1. Index(x.key, old) < i \/ Index(x.key, old) = i
      BY <2>9, <2>0, <1>4
    <3> QED
      BY <3>1, <2>s, <1>4
  <2>10. \A k \in 1..Len(s) : s[k] \in Elements(b) /\ Index(s[k].key, old) = i
    BY <2>3, <2>6 DEF Fits
  <2>11. \A x \in Elements(b) : Index(x.key, old) < i
         => Index(x.key, old) < i + 1
    BY <2>0, <1>4
  <2>12. i < i + 1
    BY <2>0
  <2>13. {x \in Elements(b) : Index(x.key, old) < i + 1}
           = {x \in Elements(b) : Index(x.key, old) < i}
             \cup {s[k] : k \in 1..Len(s)}
    BY <2>9, <2>10, <2>11, <2>12
  <2> QED
    BY <2>1, <2>8, <2>13 DEF IsRebuilt
<1>7. T = Nat
  <2> HIDE DEF T
  <2> QED
    BY <1>5, <1>6, Induct DEF T
<1>8. IsRebuilt(f[old], b, size, old, old)
  BY <1>1, <1>7
<1>9. {x \in Elements(b) : Index(x.key, old) < old} = Elements(b)
  BY <1>1, <1>4
<1> QED
  BY <1>3, <1>8, <1>9 DEF IsRebuilt

\* An element is taken out of its bucket.
IsRemoved(t, b, size, i, at) ==
  /\ InPlace(t, size)
  /\ Elements(t) = {x \in Elements(b) : x.key # b[i][at].key}
  /\ Places(t) = Places(b) \ {[index |-> i, pos |-> Len(b[i])]}
  /\ [index |-> i, pos |-> Len(b[i])] \in Places(b)

Concatenates(q, u, w) ==
  /\ q \in Seq(Entry) /\ Len(q) = Len(u) + Len(w)
  /\ \A n \in 1..Len(q) : q[n] = IF n <= Len(u) THEN u[n] ELSE w[n - Len(u)]

\* What two sequences are behind one another.
LEMMA Concatenated ==
  ASSUME NEW u \in Seq(Entry), NEW w \in Seq(Entry), NEW q, q = u \o w
  PROVE  Concatenates(q, u, w)
<1>1. q \in Seq(Entry) /\ Len(q) = Len(u) + Len(w)
  OBVIOUS
<1>2. \A n \in 1..Len(q) : q[n] = IF n <= Len(u) THEN u[n] ELSE w[n - Len(u)]
  BY <1>1
<1> QED
  BY <1>1, <1>2 DEF Concatenates

\* What is left of a sequence without one element.
LEMMA RemoveAtIs ==
  ASSUME NEW s \in Seq(Entry), NEW at \in 1..Len(s), NEW q, q = RemoveAt(s, at)
  PROVE  /\ q \in Seq(Entry) /\ Len(q) = Len(s) - 1
         /\ \A n \in 1..Len(q) : q[n] = IF n < at THEN s[n] ELSE s[n + 1]
<1> DEFINE u == SubSeq(s, 1, at - 1)
           w == SubSeq(s, at + 1, Len(s))
<1>1. q = u \o w
  BY DEF RemoveAt
<1>2. /\ u \in Seq(Entry) /\ Len(u) = at - 1
      /\ \A n \in 1..Len(u) : u[n] = s[n]
  OBVIOUS
<1>3. /\ w \in Seq(Entry) /\ Len(w) = Len(s) - at
      /\ \A n \in 1..Len(w) : w[n] = s[n + at]
  OBVIOUS
<1> HIDE DEF u, w
<1>a. Concatenates(q, u, w)
  BY <1>1, <1>2, <1>3, Concatenated
<1>4. /\ q \in Seq(Entry) /\ Len(q) = Len(u) + Len(w)
      /\ \A n \in 1..Len(q) : q[n] = IF n <= Len(u) THEN u[n] ELSE w[n - Len(u)]
  BY <1>a DEF Concatenates
<1>5. ASSUME NEW n \in 1..Len(q)
      PROVE  q[n] = IF n < at THEN s[n] ELSE s[n + 1]
  <2>1. CASE n < at
    BY <2>1, <1>2, <1>4
  <2>2. CASE ~ (n < at)
    <3>1. n - Len(u) \in 1..Len(w) /\ n - Len(u) + at = n + 1 /\ ~ (n <= Len(u))
      BY <2>2, <1>2, <1>3, <1>4
    <3> QED
      BY <3>1, <2>2, <1>3, <1>4
  <2> QED
    BY <2>1, <2>2
<1> QED
  BY <1>2, <1>3, <1>4, <1>5

\* A removed element is gone from the map, and no other is.
LEMMA RemovedIn ==
  ASSUME NEW b, NEW size, InPlace(b, size), NEW i \in 0..(size - 1),
         NEW at \in 1..Len(b[i]),
         NEW t, t = [b EXCEPT ![i] = RemoveAt(b[i], at)]
  PROVE  IsRemoved(t, b, size, i, at)
<1> DEFINE s == b[i]
           q == RemoveAt(s, at)
           l == Len(s)
<1>1. s \in Seq(Entry) /\ l \in Nat
  BY SizeIs
<1>2. Fits(s, i, size)
  BY DEF InPlace, Fits
<1>s. s = b[i] /\ q = RemoveAt(s, at) /\ l = Len(s)
  OBVIOUS
<1> HIDE DEF s, q, l
<1>3. /\ q \in Seq(Entry) /\ Len(q) = l - 1
      /\ \A n \in 1..Len(q) : q[n] = IF n < at THEN s[n] ELSE s[n + 1]
  BY <1>1, <1>s, RemoveAtIs
<1>4. ASSUME NEW n \in 1..Len(q)
      PROVE  \E k \in 1..l : k # at /\ k = (IF n < at THEN n ELSE n + 1)
                             /\ q[n] = s[k]
  BY <1>1, <1>3, <1>s
<1>5. ASSUME NEW k \in 1..l, k # at
      PROVE  \E n \in 1..Len(q) : q[n] = s[k]
  <2>1. CASE k < at
    <3>1. k \in 1..Len(q) /\ q[k] = s[k]
      BY <2>1, <1>1, <1>3, <1>s
    <3> QED
      BY <3>1
  <2>2. CASE k > at
    <3>1. k - 1 \in 1..Len(q) /\ q[k - 1] = s[k - 1 + 1] /\ k - 1 + 1 = k
      BY <2>2, <1>1, <1>3, <1>s
    <3> QED
      BY <3>1
  <2> QED
    BY <2>1, <2>2, <1>5, <1>s
<1>6. Fits(q, i, size)
  <2> SUFFICES ASSUME NEW m \in 1..Len(q), NEW n \in 1..Len(q)
               PROVE  Index(q[n].key, size) = i
                      /\ (q[m].key = q[n].key => m = n)
    BY DEF Fits
  <2>1. PICK k \in 1..l : k = (IF n < at THEN n ELSE n + 1) /\ q[n] = s[k]
    BY <1>4
  <2>2. PICK j \in 1..l : j = (IF m < at THEN m ELSE m + 1) /\ q[m] = s[j]
    BY <1>4
  <2>3. Index(s[k].key, size) = i /\ (s[j].key = s[k].key => j = k)
    BY <1>2, <1>s DEF Fits
  <2>4. j = k => m = n
    BY <2>1, <2>2
  <2> QED
    BY <2>1, <2>2, <2>3, <2>4
<1>7. t = [b EXCEPT ![i] = q]
  BY <1>s
<1>a. Changed(t, b, size, i, q)
  BY <1>3, <1>6, <1>7, BucketChanges
<1>8. InPlace(t, size) /\ t[i] = q
      /\ \A j \in 0..(size - 1) : j # i => t[j] = b[j]
  BY <1>a DEF Changed
<1>9. Elements(t) = {x \in Elements(b) : x.key # b[i][at].key}
  <2>1. ASSUME NEW x \in Elements(t)
        PROVE  x \in Elements(b) /\ x.key # b[i][at].key
    <3>a. HasPlace(t, size, x)
      BY <1>8, ElementOf
    <3>0. PICK j \in 0..(size - 1) : \E n \in 1..Len(t[j]) : x = t[j][n]
      BY <3>a DEF HasPlace
    <3>1. PICK n \in 1..Len(t[j]) : x = t[j][n]
      BY <3>0
    <3>2. CASE j # i
      <4>1. x = b[j][n] /\ n \in 1..Len(b[j])
        BY <3>1, <3>2, <1>8
      <4>2. x.key # b[i][at].key
        BY <4>1, <3>2 DEF InPlace
      <4> QED
        BY <4>1, <4>2, ElementIn
    <3>3. CASE j = i
      <4>1. PICK k \in 1..l : k # at /\ q[n] = s[k]
        BY <3>1, <3>3, <1>4, <1>8
      <4>2. x = b[i][k] /\ k \in 1..Len(b[i])
        BY <4>1, <3>1, <3>3, <1>8, <1>s
      <4>3. x.key # b[i][at].key
        BY <4>1, <4>2, <1>2, <1>s DEF Fits
      <4> QED
        BY <4>2, <4>3, ElementIn
    <3> QED
      BY <3>2, <3>3
  <2>2. ASSUME NEW x \in Elements(b), x.key # b[i][at].key
        PROVE  x \in Elements(t)
    <3>a. HasPlace(b, size, x)
      BY ElementOf
    <3>0. PICK j \in 0..(size - 1) : \E n \in 1..Len(b[j]) : x = b[j][n]
      BY <3>a DEF HasPlace
    <3>1. PICK n \in 1..Len(b[j]) : x = b[j][n]
      BY <3>0
    <3>2. CASE j # i
      <4>1. x = t[j][n] /\ n \in 1..Len(t[j])
        BY <3>1, <3>2, <1>8
      <4> QED
        BY <4>1, <1>8, ElementIn
    <3>3. CASE j = i
      <4>1. n \in 1..l /\ n # at /\ x = s[n]
        BY <3>1, <3>3, <2>2, <1>s
      <4>2. PICK k \in 1..Len(q) : q[k] = x
        BY <4>1, <1>5
      <4>3. t[i][k] \in Elements(t)
        BY <4>2, <1>8, ElementIn
      <4> QED
        BY <4>2, <4>3, <1>8
    <3> QED
      BY <3>2, <3>3
  <2> QED
    BY <2>1, <2>2
<1>10. Places(t) = Places(b) \ {[index |-> i, pos |-> l]}
  <2> DEFINE last == [index |-> i, pos |-> l]
  <2>1. ASSUME NEW it \in Places(t) PROVE it \in Places(b) /\ it # last
    <3>1. /\ it.index \in 0..(size - 1) /\ it.pos \in 1..Len(t[it.index])
          /\ it = [index |-> it.index, pos |-> it.pos]
      BY <1>8, PlacesAre DEF IsPlace
    <3>2. it.pos \in 1..Len(b[it.index]) /\ (it.index = i => it.pos # l)
      BY <3>1, <1>1, <1>3, <1>8, <1>s
    <3>3. it \in Places(b)
      BY <3>1, <3>2, PlacesAre DEF IsPlace
    <3> QED
      BY <3>1, <3>2, <3>3
  <2>2. ASSUME NEW it \in Places(b), it # last PROVE it \in Places(t)
    <3>1. /\ it.index \in 0..(size - 1) /\ it.pos \in 1..Len(b[it.index])
          /\ it = [index |-> it.index, pos |-> it.pos]
      BY PlacesAre DEF IsPlace
    <3>2. it.index = i => it.pos # l
      BY <3>1, <2>2
    <3>3. it.pos \in 1..Len(t[it.index])
      BY <3>1, <3>2, <1>1, <1>3, <1>8, <1>s
    <3> QED
      BY <3>1, <3>3, <1>8, PlacesAre DEF IsPlace
  <2> QED
    BY <2>1, <2>2
<1>11. [index |-> i, pos |-> l] \in Places(b)
  <2>1. l \in 1..Len(b[i])
    BY <1>1, <1>s
  <2> QED
    BY <2>1, PlaceIn
<1> QED
  BY <1>8, <1>9, <1>10, <1>11, <1>s DEF IsRemoved
-----------------------------------------------------------------------------
(* The steps of the map *)

Sorted(b) == InPlace(b, SizeOf(b)) /\ Finite(b)

\* A map in place is one for the size of its array.
LEMMA FilledIs ==
  ASSUME NEW b, NEW size, InPlace(b, size), Finite(b)
  PROVE  Sorted(b) /\ SizeOf(b) = size
BY SizeIs DEF Sorted

\* A rehash keeps the elements, and so their number.
IsRehashed(t, b) ==
  /\ Sorted(t) /\ Elements(t) = Elements(b)
  /\ Cardinality(Places(t)) = Cardinality(Places(b))

\* rehash() (507-529) keeps the elements, whether it does anything or not.
LEMMA RehashedIs ==
  ASSUME Sorted(bucket), NEW factor \in 2..3, NEW t, t = Rehashed(factor)
  PROVE  IsRehashed(t, bucket)
<1>1. CASE count \div Size < maxLoad
  <2>1. t = bucket
    BY <1>1 DEF Rehashed
  <2> QED
    BY <2>1 DEF IsRehashed
<1>2. CASE ~ (count \div Size < maxLoad)
  <2>0. InPlace(bucket, Size) /\ Finite(bucket) /\ Size \in Nat \ {0}
    BY SizeIs DEF Sorted, Size
  <2> DEFINE new == Size * factor
  <2>1. new \in Nat \ {0}
    BY <2>0
  <2>2. t = Rebuilt(bucket, new)
    BY <1>2 DEF Rehashed
  <2> HIDE DEF new
  <2>3. InPlace(t, new) /\ Finite(t) /\ Elements(t) = Elements(bucket)
    BY <2>0, <2>1, <2>2, RebuiltIs
  <2>4. Cardinality(Places(t)) = Cardinality(Elements(t))
    BY <2>3, PlacesCounted
  <2>5. Cardinality(Places(bucket)) = Cardinality(Elements(bucket))
    BY <2>0, PlacesCounted
  <2>6. Sorted(t)
    BY <2>3, FilledIs
  <2> QED
    BY <2>3, <2>4, <2>5, <2>6 DEF IsRehashed
<1> QED
  BY <1>1, <1>2

\* An insertion is counted if it adds a place.
IsAdded(t, b, e, n) ==
  /\ Sorted(t) /\ SizeOf(t) = SizeOf(b)
  /\ Elements(t) = {x \in Elements(b) : x.key # e.key} \cup {e}
  /\ n \in Nat /\ Cardinality(Places(b)) \in Nat
  /\ Cardinality(Places(t)) = Cardinality(Places(b)) + (n - count)

\* insertOrUpdate() adds one to the elements, or counts nothing.
LEMMA AddedIs ==
  ASSUME NEW b, Sorted(b), NEW e \in Entry, count \in Nat,
         NEW t, t = InsertOrUpdate(b, e)
  PROVE  IsAdded(t, b, e, Counted(b, e))
<1> DEFINE size == SizeOf(b)
           i == Index(e.key, size)
           new == [index |-> i, pos |-> Len(b[i]) + 1]
<1>1. InPlace(b, size) /\ Finite(b)
  BY DEF Sorted
<1>2. size \in Nat \ {0} /\ e.key \in Key
  BY <1>1, SizeIs DEF Entry
<1>3. i \in 0..(size - 1)
  BY <1>2, IndexIs
<1>4. IsInserted(t, b, size, e)
  BY <1>1, InsertOrUpdateIs
<1>5. Finite(t)
  BY <1>1, <1>4, InsertedFinite
<1>6. /\ InPlace(t, size)
      /\ Elements(t) = {x \in Elements(b) : x.key # e.key} \cup {e}
      /\ IF At(b[i], e.key) = 0 THEN Places(t) = Places(b) \cup {new}
                                ELSE Places(t) = Places(b)
  BY <1>4 DEF IsInserted
<1>7. Sorted(t) /\ SizeOf(t) = size
  BY <1>5, <1>6, FilledIs
<1>8. new \notin Places(b)
  <2>1. Len(b[i]) \in Nat
    BY <1>1, <1>3, SizeIs
  <2>2. ~ IsPlace(b, size, new)
    BY <2>1 DEF IsPlace
  <2> QED
    BY <1>1, <2>2, PlacesAre
<1>9. Counted(b, e) = IF At(b[i], e.key) = 0 THEN count + 1 ELSE count
  BY DEF Counted
<1>10. Cardinality(Places(b)) \in Nat
  BY <1>1, PlacesCounted
<1> HIDE DEF new, i
<1>11. At(b[i], e.key) = 0
         => Cardinality(Places(t)) = Cardinality(Places(b)) + 1
  BY <1>1, <1>6, <1>8, FS_AddElement DEF Finite
<1> QED
  BY <1>6, <1>7, <1>9, <1>10, <1>11 DEF IsAdded

MapIInv == /\ Sorted(bucket)
           /\ count \in Nat /\ erased \in Nat /\ spoiled \in BOOLEAN
           /\ HoldsWhatWasAsked
           /\ SizeCountsErased

\* The elements that were asked for.
Asked(a) == {[key |-> k, value |-> a[k]] : k \in DOMAIN a}

\* The map holds what was asked after one key is given a value.
LEMMA AskedMore ==
  ASSUME NEW key, NEW value, NEW e, e = [key |-> key, value |-> value],
         NEW bad \in BOOLEAN, Asks(DOMAIN asked \cup {key}, e, bad),
         spoiled \in BOOLEAN, HoldsWhatWasAsked,
         ~ bad => Elements(bucket') = {x \in Elements(bucket) : x.key # key}
                                      \cup {e}
  PROVE  HoldsWhatWasAsked' /\ spoiled' \in BOOLEAN
<1>1. spoiled' \in BOOLEAN
  BY DEF Asks
<1> SUFFICES ASSUME ~ spoiled' PROVE Elements(bucket') = Asked(asked')
  BY <1>1 DEF HoldsWhatWasAsked, Asked
<1>2. ~ spoiled /\ ~ bad
  BY DEF Asks
<1>3. Elements(bucket) = Asked(asked)
  BY <1>2 DEF HoldsWhatWasAsked, Asked
<1>4. asked' = [k \in DOMAIN asked \cup {key} |->
                  IF k = key THEN value ELSE asked[k]]
  BY DEF Asks
<1>5. Asked(asked') = {x \in Asked(asked) : x.key # key} \cup {e}
  <2>1. ASSUME NEW x \in Asked(asked')
        PROVE  x = e \/ (x \in Asked(asked) /\ x.key # key)
    <3>1. PICK k \in DOMAIN asked' : x = [key |-> k, value |-> asked'[k]]
      BY DEF Asked
    <3>2. CASE k = key
      BY <3>1, <3>2, <1>4
    <3>3. CASE k # key
      <4>1. k \in DOMAIN asked /\ x = [key |-> k, value |-> asked[k]]
        BY <3>1, <3>3, <1>4
      <4> QED
        BY <4>1, <3>3 DEF Asked
    <3> QED
      BY <3>2, <3>3
  <2>2. ASSUME NEW x \in Asked(asked), x.key # key PROVE x \in Asked(asked')
    <3>1. PICK k \in DOMAIN asked : x = [key |-> k, value |-> asked[k]]
      BY DEF Asked
    <3>2. k \in DOMAIN asked' /\ asked'[k] = asked[k]
      BY <3>1, <2>2, <1>4
    <3> QED
      BY <3>1, <3>2 DEF Asked
  <2>3. e \in Asked(asked')
    <3>1. key \in DOMAIN asked' /\ asked'[key] = value
      BY <1>4
    <3> QED
      BY <3>1 DEF Asked
  <2> QED
    BY <2>1, <2>2, <2>3
<1> QED
  BY <1>2, <1>3, <1>5

\* The map holds what was asked after one key is erased.
LEMMA AskedLess ==
  ASSUME NEW key, Asks(DOMAIN asked \ {key}, [key |-> key], FALSE),
         spoiled \in BOOLEAN, HoldsWhatWasAsked,
         Elements(bucket') = {x \in Elements(bucket) : x.key # key}
  PROVE  HoldsWhatWasAsked' /\ spoiled' = spoiled
<1>1. spoiled' = spoiled
  BY DEF Asks
<1> SUFFICES ASSUME ~ spoiled' PROVE Elements(bucket') = Asked(asked')
  BY <1>1 DEF HoldsWhatWasAsked, Asked
<1>3. Elements(bucket) = Asked(asked)
  BY <1>1 DEF HoldsWhatWasAsked, Asked
<1>4. asked' = [k \in DOMAIN asked \ {key} |-> asked[k]]
  <2>1. asked' = [k \in DOMAIN asked \ {key} |->
           IF k = key THEN [key |-> key].value ELSE asked[k]]
    BY DEF Asks
  <2> QED
    BY <2>1
<1>5. Asked(asked') = {x \in Asked(asked) : x.key # key}
  <2>1. ASSUME NEW x \in Asked(asked')
        PROVE  x \in Asked(asked) /\ x.key # key
    <3>1. PICK k \in DOMAIN asked' : x = [key |-> k, value |-> asked'[k]]
      BY DEF Asked
    <3>2. k # key /\ k \in DOMAIN asked /\ x = [key |-> k, value |-> asked[k]]
      BY <3>1, <1>4
    <3> QED
      BY <3>2 DEF Asked
  <2>2. ASSUME NEW x \in Asked(asked), x.key # key PROVE x \in Asked(asked')
    <3>1. PICK k \in DOMAIN asked : x = [key |-> k, value |-> asked[k]]
      BY DEF Asked
    <3>2. k \in DOMAIN asked' /\ asked'[k] = asked[k]
      BY <3>1, <2>2, <1>4
    <3> QED
      BY <3>1, <3>2 DEF Asked
  <2> QED
    BY <2>1, <2>2
<1> QED
  BY <1>3, <1>5

\* The count after an insertion, with or without a rehash.
LEMMA CountGrows ==
  ASSUME MapIInv, NEW b, IsRehashed(b, bucket), NEW t, NEW e,
         NEW n, IsAdded(t, b, e, n), count' = n,
         Cardinality(Places(bucket')) = Cardinality(Places(t)),
         erased' = erased, spoiled => spoiled'
  PROVE  SizeCountsErased'
<1> SUFFICES ASSUME ~ spoiled'
             PROVE  count' = Cardinality(Places(bucket')) + erased'
  BY DEF SizeCountsErased
<1>1. count = Cardinality(Places(bucket)) + erased
  BY DEF MapIInv, SizeCountsErased
<1>2. /\ Cardinality(Places(b)) = Cardinality(Places(bucket))
      /\ n \in Nat /\ Cardinality(Places(b)) \in Nat
      /\ Cardinality(Places(t)) = Cardinality(Places(b)) + (n - count)
  BY DEF IsRehashed, IsAdded
<1> QED
  BY <1>1, <1>2 DEF MapIInv

\* insert() (531-546) keeps the invariant.
LEMMA InsertKeeps ==
  ASSUME MapIInv, NEW key \in Key, NEW value \in Value, NEW factor \in 2..3,
         Insert([key |-> key, value |-> value], factor)
  PROVE  MapIInv'
<1> DEFINE e == [key |-> key, value |-> value]
           b == Rehashed(factor)
<1>1. /\ count' = Counted(b, e) /\ bucket' = InsertOrUpdate(b, e)
      /\ Asks(DOMAIN asked \cup {key}, e, FALSE) /\ erased' = erased
  BY DEF Insert
<1>2. IsRehashed(b, bucket)
  BY RehashedIs DEF MapIInv
<1>e. e = [key |-> key, value |-> value]
  OBVIOUS
<1>3. e \in Entry
  BY DEF Entry
<1> HIDE DEF b, e
<1>4. IsAdded(bucket', b, e, count')
  BY <1>1, <1>2, <1>3, AddedIs DEF IsRehashed, MapIInv
<1>5. Elements(bucket') = {x \in Elements(bucket) : x.key # key} \cup {e}
  <2>1. e.key = key
    BY <1>e
  <2> QED
    BY <2>1, <1>2, <1>4 DEF IsAdded, IsRehashed
<1>6. HoldsWhatWasAsked' /\ spoiled' \in BOOLEAN
  <2>1. FALSE \in BOOLEAN
    OBVIOUS
  <2> QED
    BY <2>1, <1>1, <1>5, <1>e, AskedMore DEF MapIInv
<1>7. spoiled => spoiled'
  BY <1>1 DEF Asks
<1>8. SizeCountsErased'
  BY <1>1, <1>2, <1>4, <1>6, <1>7, CountGrows
<1> QED
  BY <1>1, <1>4, <1>6, <1>8 DEF MapIInv, IsAdded

\* map[key] that is read (548-560) keeps the invariant.
LEMMA SubscriptReadKeeps ==
  ASSUME MapIInv, NEW key \in Key, NEW factor \in 2..3,
         SubscriptRead(key, factor)
  PROVE  MapIInv'
<1> DEFINE e == [key |-> key, value |-> Default]
           b == Rehashed(factor)
           old == b[Index(key, SizeOf(b))]
           bad == \E n \in DOMAIN old : old[n].key = key /\ old[n] # e
<1>1. /\ count' = Counted(b, e) /\ bucket' = InsertOrUpdate(b, e)
      /\ Asks(DOMAIN asked \cup {key}, e, bad) /\ erased' = erased
  BY DEF SubscriptRead
<1>2. IsRehashed(b, bucket)
  BY RehashedIs DEF MapIInv
<1>e. e = [key |-> key, value |-> Default]
  OBVIOUS
<1>b. bad \in BOOLEAN
  OBVIOUS
<1>3. e \in Entry
  BY DEF Entry
<1> HIDE DEF b, e, bad
<1>4. IsAdded(bucket', b, e, count')
  BY <1>1, <1>2, <1>3, AddedIs DEF IsRehashed, MapIInv
<1>5. Elements(bucket') = {x \in Elements(bucket) : x.key # key} \cup {e}
  <2>1. e.key = key
    BY <1>e
  <2> QED
    BY <2>1, <1>2, <1>4 DEF IsAdded, IsRehashed
<1>6. HoldsWhatWasAsked' /\ spoiled' \in BOOLEAN
  BY <1>1, <1>5, <1>e, <1>b, AskedMore DEF MapIInv
<1>7. spoiled => spoiled'
  BY <1>1 DEF Asks
<1>8. SizeCountsErased'
  BY <1>1, <1>2, <1>4, <1>6, <1>7, CountGrows
<1> QED
  BY <1>1, <1>4, <1>6, <1>8 DEF MapIInv, IsAdded

\* operator[]: the place the value goes to, which may be another key's.
SubscriptPlace(b, t, key, at) ==
  LET i == Index(key, SizeOf(b))
  IN  /\ at \in 1..Len(t[i]) /\ i \in 0..(SizeOf(b) - 1)
      /\ t[i][at] \in Entry

\* The element map[key] refers to: that of the key, or the first of its
\* bucket.
LEMMA SubscriptPlaceIs ==
  ASSUME NEW b, Sorted(b), NEW e \in Entry, NEW t, t = InsertOrUpdate(b, e),
         NEW i, i = Index(e.key, SizeOf(b)),
         NEW at, at = IF At(b[i], e.key) = 0 THEN 1 ELSE At(b[i], e.key)
  PROVE  SubscriptPlace(b, t, e.key, at)
<1> DEFINE size == SizeOf(b)
<1>1. InPlace(b, size)
  BY DEF Sorted
<1>2. i \in 0..(size - 1)
  <2>1. size \in Nat \ {0} /\ e.key \in Key
    BY <1>1, SizeIs DEF Entry
  <2> QED
    BY <2>1, IndexIs
<1>3. IsInserted(t, b, size, e)
  BY <1>1, InsertOrUpdateIs
<1>4. InPlace(t, size)
  BY <1>3 DEF IsInserted
<1>5. /\ b[i] \in Seq(Entry) /\ Len(b[i]) \in Nat
      /\ t[i] \in Seq(Entry) /\ Len(t[i]) \in Nat
  BY <1>1, <1>2, <1>4, SizeIs
<1>6. at \in 1..Len(t[i])
  <2>1. CASE At(b[i], e.key) = 0
    <3>1. [index |-> i, pos |-> Len(b[i]) + 1] \in Places(t)
      BY <2>1, <1>3 DEF IsInserted
    <3>2. Len(b[i]) + 1 \in 1..Len(t[i])
      BY <3>1, <1>4, PlacesAre DEF IsPlace
    <3> QED
      BY <3>2, <2>1, <1>5
  <2>2. CASE At(b[i], e.key) # 0
    <3>1. at = At(b[i], e.key) /\ at \in 1..Len(b[i])
      BY <2>2, <1>5, AtIs
    <3>2. Places(t) = Places(b)
      BY <2>2, <1>3 DEF IsInserted
    <3>3. [index |-> i, pos |-> at] \in Places(t)
      BY <3>1, <3>2, <1>1, <1>2, PlaceIn
    <3>4. IsPlace(t, size, [index |-> i, pos |-> at])
      BY <3>3, <1>4, PlacesAre
    <3> QED
      BY <3>4 DEF IsPlace
  <2> QED
    BY <2>1, <2>2
<1>7. t[i][at] \in Entry
  BY <1>5, <1>6
<1> QED
  BY <1>2, <1>6, <1>7 DEF SubscriptPlace

\* map[key] = value (548-560) keeps the invariant.
LEMMA SubscriptKeeps ==
  ASSUME MapIInv, NEW key \in Key, NEW value \in Value, NEW factor \in 2..3,
         Subscript([key |-> key, value |-> value], factor)
  PROVE  MapIInv'
<1> DEFINE e == [key |-> key, value |-> value]
           d == [key |-> key, value |-> Default]
           b == Rehashed(factor)
           i == Index(key, SizeOf(b))
           new == InsertOrUpdate(b, d)
           at == IF At(b[i], key) = 0 THEN 1 ELSE At(b[i], key)
           bad == new[i][at].key # key
           x == new[i][at]
           y == [x EXCEPT !.value = value]
<1>0. [e EXCEPT !.value = Default] = d /\ e.key = key /\ e.value = value
  OBVIOUS
<1>c. Counted(b, e) = Counted(b, d)
  BY SMTT(20) DEF Counted
<1>1. /\ count' = Counted(b, d) /\ bucket' = [new EXCEPT ![i][at].value = value]
      /\ Asks(DOMAIN asked \cup {key}, e, bad) /\ erased' = erased
  BY <1>0, <1>c DEF Subscript
<1>e. e = [key |-> key, value |-> value] /\ d.key = key /\ d \in Entry
  BY DEF Entry
<1>b. bad \in BOOLEAN
  OBVIOUS
<1>d. /\ i = Index(key, SizeOf(b)) /\ new = InsertOrUpdate(b, d)
      /\ at = IF At(b[i], key) = 0 THEN 1 ELSE At(b[i], key)
      /\ bad = (x.key # key) /\ x = new[i][at] /\ y = [x EXCEPT !.value = value]
  OBVIOUS
<1>2. IsRehashed(b, bucket)
  BY RehashedIs DEF MapIInv
<1> HIDE DEF b, e, d, i, new, at, bad, x, y
<1>3. Sorted(b)
  BY <1>2, SMTT(20) DEF IsRehashed
<1>4. IsAdded(new, b, d, count')
  BY <1>1, <1>3, <1>e, <1>d, AddedIs DEF MapIInv
<1>5. SubscriptPlace(b, new, d.key, at)
  BY <1>3, <1>e, <1>d, SubscriptPlaceIs
<1>6. /\ at \in 1..Len(new[i]) /\ i \in 0..(SizeOf(b) - 1) /\ x \in Entry
  BY <1>5, <1>e, <1>d DEF SubscriptPlace
<1>7. /\ Sorted(new) /\ SizeOf(new) = SizeOf(b)
      /\ Elements(new) = {z \in Elements(b) : z.key # key} \cup {d}
  BY <1>4, <1>e, SMTT(20) DEF IsAdded
<1>8. y \in Entry /\ y.key = x.key /\ y = [key |-> x.key, value |-> value]
  BY <1>6, <1>d, SMTT(20) DEF Entry
<1>9. bucket' = [new EXCEPT ![i][at] = y]
  BY <1>1, <1>d
<1>10. IsReplaced(bucket', new, SizeOf(b), y)
  <2>1. InPlace(new, SizeOf(b))
    BY <1>7 DEF Sorted
  <2>2. new[i][at].key = y.key
    BY <1>8, <1>d, SMTT(20)
  <2> QED
    BY <2>1, <2>2, <1>6, <1>8, <1>9, ReplacedIn
<1>11. /\ InPlace(bucket', SizeOf(b)) /\ Places(bucket') = Places(new)
       /\ Elements(bucket') = {z \in Elements(new) : z.key # y.key} \cup {y}
  BY <1>10 DEF IsReplaced
<1>12. Sorted(bucket')
  <2>1. Finite(bucket')
    BY <1>7, <1>11 DEF Sorted, Finite
  <2> QED
    BY <2>1, <1>11, FilledIs
<1>13. ASSUME ~ bad
       PROVE  Elements(bucket') = {z \in Elements(bucket) : z.key # key}
              \cup {e}
  <2>1. y.key = key /\ y = e
    BY <1>13, <1>8, <1>d, <1>e
  <2>2. Elements(b) = Elements(bucket)
    BY <1>2 DEF IsRehashed
  <2>3. Elements(bucket') = {z \in Elements(new) : z.key # key} \cup {e}
    BY <2>1, <1>11
  <2>4. {z \in Elements(new) : z.key # key} = {z \in Elements(b) : z.key # key}
    BY <1>7, <1>e
  <2>5. {z \in Elements(b) : z.key # key}
        = {z \in Elements(bucket) : z.key # key}
    BY <2>2
  <2> QED
    BY <2>3, <2>4, <2>5, SMTT(20)
<1>14. HoldsWhatWasAsked' /\ spoiled' \in BOOLEAN
  <2>1. CASE bad
    <3>1. spoiled' = TRUE
      BY <2>1, <1>1 DEF Asks
    <3> QED
      BY <3>1 DEF HoldsWhatWasAsked
  <2>2. CASE ~ bad
    <3>1. Elements(bucket') = {z \in Elements(bucket) : z.key # key} \cup {e}
      BY <2>2, <1>13
    <3> QED
      BY <3>1, <1>1, <1>e, <1>b, AskedMore DEF MapIInv
  <2> QED
    BY <2>1, <2>2
<1>15. spoiled => spoiled'
  BY <1>1 DEF Asks
<1>16. Cardinality(Places(bucket')) = Cardinality(Places(new))
  BY <1>11
<1>17. SizeCountsErased'
  BY <1>1, <1>2, <1>4, <1>14, <1>15, <1>16, CountGrows
<1> QED
  BY <1>1, <1>4, <1>12, <1>14, <1>17 DEF MapIInv, IsAdded

\* An element is erased: one place less.
LEMMA RemovedKeeps ==
  ASSUME MapIInv, NEW i \in 0..(Size - 1), NEW at \in 1..Len(bucket[i]),
         NEW key, key = bucket[i][at].key,
         bucket' = [bucket EXCEPT ![i] = RemoveAt(bucket[i], at)],
         erased' = erased + 1, count' = count,
         Asks(DOMAIN asked \ {key}, [key |-> key], FALSE)
  PROVE  MapIInv'
<1> DEFINE last == [index |-> i, pos |-> Len(bucket[i])]
<1>1. InPlace(bucket, Size) /\ Finite(bucket)
  BY DEF MapIInv, Sorted, Size
<1>2. IsRemoved(bucket', bucket, Size, i, at)
  BY <1>1, RemovedIn
<1>3. /\ InPlace(bucket', Size)
      /\ Elements(bucket') = {x \in Elements(bucket) : x.key # key}
      /\ Places(bucket') = Places(bucket) \ {last} /\ last \in Places(bucket)
  BY <1>2 DEF IsRemoved
<1> HIDE DEF last
<1>4. /\ IsFiniteSet(Places(bucket'))
      /\ Cardinality(Places(bucket')) = Cardinality(Places(bucket)) - 1
  BY <1>1, <1>3, FS_RemoveElement DEF Finite
<1>5. Sorted(bucket')
  BY <1>3, <1>4, FilledIs DEF Finite
<1>6. HoldsWhatWasAsked' /\ spoiled' = spoiled
  BY <1>3, AskedLess DEF MapIInv
<1>7. SizeCountsErased'
  <2>1. Cardinality(Places(bucket)) \in Nat
    BY <1>1, PlacesCounted
  <2> QED
    BY <2>1, <1>4, <1>6 DEF MapIInv, SizeCountsErased
<1> QED
  BY <1>5, <1>6, <1>7 DEF MapIInv

\* erase(key) (576-582) keeps the invariant.
LEMMA EraseKeyKeeps ==
  ASSUME MapIInv, NEW key \in Key, EraseKey(key)
  PROVE  MapIInv'
<1> DEFINE i == Index(key, Size)
           at == At(bucket[i], key)
<1>1. /\ bucket' = [bucket EXCEPT ![i] = IF at = 0 THEN bucket[i]
                                         ELSE RemoveAt(bucket[i], at)]
      /\ erased' = IF at = 0 THEN erased ELSE erased + 1
      /\ Asks(DOMAIN asked \ {key}, [key |-> key], FALSE)
      /\ count' = count
  BY DEF EraseKey
<1>2. InPlace(bucket, Size)
  BY DEF MapIInv, Sorted, Size
<1>3. /\ Size \in Nat \ {0} /\ DOMAIN bucket = 0..(Size - 1)
      /\ bucket \in [0..(Size - 1) -> Seq(Entry)]
  BY <1>2, SizeIs DEF InPlace
<1>4. i \in 0..(Size - 1)
  BY <1>3, IndexIs
<1>5. bucket[i] \in Seq(Entry)
  BY <1>3, <1>4
<1>6. \/ at = 0 /\ \A n \in 1..Len(bucket[i]) : bucket[i][n].key # key
      \/ at \in 1..Len(bucket[i]) /\ bucket[i][at].key = key
  BY <1>5, AtIs
<1>i. i = Index(key, Size)
  OBVIOUS
<1> HIDE DEF i, at
<1>7. CASE at = 0
  <2>1. bucket' = bucket /\ erased' = erased
    BY <1>1, <1>3, <1>4, <1>7
  <2>2. Elements(bucket) = {x \in Elements(bucket) : x.key # key}
    <3> SUFFICES ASSUME NEW x \in Elements(bucket), x.key = key PROVE FALSE
      OBVIOUS
    <3>1. HasPlace(bucket, Size, x)
      BY <1>2, ElementOf
    <3>2. PICK j \in 0..(Size - 1) :
               \E n \in 1..Len(bucket[j]) : x = bucket[j][n]
      BY <3>1 DEF HasPlace
    <3>3. j = i
      BY <3>2, <1>2, <1>i DEF InPlace
    <3> QED
      BY <3>2, <3>3, <1>6, <1>7
  <2>3. HoldsWhatWasAsked' /\ spoiled' = spoiled
    BY <2>1, <2>2, <1>1, AskedLess DEF MapIInv
  <2>4. SizeCountsErased'
    BY <2>1, <2>3, <1>1 DEF MapIInv, SizeCountsErased
  <2> QED
    BY <2>1, <2>3, <2>4, <1>1 DEF MapIInv
<1>8. CASE at # 0
  <2>1. at \in 1..Len(bucket[i]) /\ key = bucket[i][at].key
    BY <1>6, <1>8, <1>5
  <2>2. bucket' = [bucket EXCEPT ![i] = RemoveAt(bucket[i], at)]
        /\ erased' = erased + 1
    BY <1>1, <1>8
  <2> QED
    BY <2>1, <2>2, <1>1, <1>4, RemovedKeeps
<1> QED
  BY <1>7, <1>8

\* erase(iterator) (584-602) keeps the invariant.
LEMMA EraseAtKeeps ==
  ASSUME MapIInv, NEW it \in Places(bucket), EraseAt(it)
  PROVE  MapIInv'
<1> DEFINE i == it.index
           at == it.pos
           key == bucket[i][at].key
<1>1. /\ bucket' = [bucket EXCEPT ![i] = RemoveAt(bucket[i], at)]
      /\ erased' = erased + 1 /\ count' = count
      /\ Asks(DOMAIN asked \ {key}, [key |-> key], FALSE)
  BY DEF EraseAt
<1>2. InPlace(bucket, Size)
  BY DEF MapIInv, Sorted, Size
<1>3. i \in 0..(Size - 1) /\ at \in 1..Len(bucket[i])
  BY <1>2, PlacesAre DEF IsPlace
<1>4. key = bucket[i][at].key
  OBVIOUS
<1> HIDE DEF i, at, key
<1> QED
  BY <1>1, <1>3, <1>4, RemovedKeeps

\* reserve() (490-494) keeps the invariant.
LEMMA ReserveKeeps ==
  ASSUME MapIInv, Reserve(MaxSize)
  PROVE  MapIInv'
<1>1. /\ bucket' = Buckets(MaxSize) /\ count' = count /\ erased' = erased
      /\ spoiled' = (spoiled \/ Places(bucket) # {})
      /\ ~ spoiled' => asked' = [k \in {} |-> 0]
  <2>1. Asks({}, [key |-> 0], Places(bucket) # {})
    BY DEF Reserve
  <2>2. spoiled' = (spoiled \/ Places(bucket) # {})
        /\ asked' = IF spoiled' THEN <<>>
                    ELSE [k \in {} |-> IF k = [key |-> 0].key
                                       THEN [key |-> 0].value ELSE asked[k]]
    BY <2>1 DEF Asks
  <2>3. ASSUME ~ spoiled' PROVE asked' = [k \in {} |-> 0]
    BY <2>2, <2>3
  <2> QED
    BY <2>2, <2>3 DEF Reserve
<1>2. MaxSize \in Nat \ {0}
  BY MapAssumption
<1>3. /\ InPlace(bucket', MaxSize) /\ Finite(bucket')
      /\ Places(bucket') = {} /\ Elements(bucket') = {}
  BY <1>1, <1>2, BucketsAre
<1>4. Sorted(bucket')
  BY <1>3, FilledIs
<1>5. HoldsWhatWasAsked'
  <2> SUFFICES ASSUME ~ spoiled' PROVE Elements(bucket') = Asked(asked')
    BY DEF HoldsWhatWasAsked, Asked
  <2>1. DOMAIN asked' = {}
    BY <1>1
  <2> QED
    BY <2>1, <1>3 DEF Asked
<1>6. SizeCountsErased'
  <2> SUFFICES ASSUME ~ spoiled'
               PROVE  count' = Cardinality(Places(bucket')) + erased'
    BY DEF SizeCountsErased
  <2>1. ~ spoiled /\ Places(bucket) = {}
    BY <1>1
  <2> QED
    BY <2>1, <1>1, <1>3 DEF MapIInv, SizeCountsErased
<1> QED
  BY <1>1, <1>4, <1>5, <1>6 DEF MapIInv

\* A new map has the invariant.
LEMMA MapIInvInit ==
  ASSUME MapInit
  PROVE  MapIInv
<1>1. FirstSize \in Nat \ {0} /\ bucket = Buckets(FirstSize)
  BY MapAssumption DEF MapInit
<1>2. /\ InPlace(bucket, FirstSize) /\ Finite(bucket)
      /\ Places(bucket) = {} /\ Elements(bucket) = {}
  BY <1>1, BucketsAre
<1>3. Sorted(bucket)
  BY <1>2, FilledIs
<1>4. HoldsWhatWasAsked
  <2>1. DOMAIN asked = {}
    BY DEF MapInit
  <2> QED
    BY <2>1, <1>2 DEF HoldsWhatWasAsked
<1>5. SizeCountsErased
  BY <1>2, FS_EmptySet DEF SizeCountsErased, MapInit
<1> QED
  BY <1>3, <1>4, <1>5 DEF MapIInv, MapInit

\* Every operation keeps the invariant.
LEMMA MapIInvNext ==
  ASSUME MapIInv, [MapNext]_mapVars
  PROVE  MapIInv'
<1>1. CASE UNCHANGED mapVars
  BY <1>1 DEF MapIInv, mapVars, HoldsWhatWasAsked, SizeCountsErased
<1>2. CASE MapNext
  <2>1. ASSUME NEW key \in Key, NEW value \in Value, NEW factor \in 2..3,
               \/ Insert([key |-> key, value |-> value], factor)
               \/ Subscript([key |-> key, value |-> value], factor)
               \/ SubscriptRead(key, factor)
        PROVE  MapIInv'
    BY <2>1, InsertKeeps, SubscriptKeeps, SubscriptReadKeeps
  <2>2. ASSUME SetLoadFactor(2) PROVE MapIInv'
    BY <2>2 DEF SetLoadFactor, MapIInv, HoldsWhatWasAsked, SizeCountsErased
  <2> QED
    BY <2>1, <2>2, <1>2, EraseKeyKeeps, EraseAtKeeps, ReserveKeeps DEF MapNext
<1> QED
  BY <1>1, <1>2
-----------------------------------------------------------------------------
(* The loop over a map *)

IsLeast(m, T) == m \in T /\ Min(T) = m /\ \A n \in T : m <= n
IsGreatest(m, T) == m \in T /\ Max(T) = m /\ \A n \in T : n <= m

\* The library's Min of numbers is their least.
LEMMA MinIs ==
  ASSUME NEW T, T \subseteq Nat, T # {}
  PROVE  IsLeast(Min(T), T)
<1>1. \E m \in T : \A n \in T : m <= n
  BY Least
<1> QED
  BY <1>1 DEF IsLeast, Min

\* The library's Max of numbers up to a bound is their greatest.
LEMMA MaxIs ==
  ASSUME NEW size \in Nat, NEW T, T \subseteq 0..(size - 1), T # {}
  PROVE  IsGreatest(Max(T), T)
<1> DEFINE U == {k \in Nat : size - k \in T}
<1>1. U # {}
  <2>1. PICK n \in T : TRUE
    OBVIOUS
  <2>2. size - n \in Nat /\ size - (size - n) = n
    BY <2>1
  <2> QED
    BY <2>1, <2>2
<1>2. PICK k \in U : \A n \in U : k <= n
  <2> HIDE DEF U
  <2>1. U \subseteq Nat
    BY DEF U
  <2> QED
    BY <2>1, <1>1, Least
<1>3. \A n \in T : n <= size - k
  <2> SUFFICES ASSUME NEW n \in T PROVE n <= size - k
    OBVIOUS
  <2>1. n \in Nat /\ size - n \in Nat /\ size - (size - n) = n
    OBVIOUS
  <2>2. size - n \in U
    BY <2>1
  <2>3. k <= size - n
    BY <2>2, <1>2
  <2> QED
    BY <2>1, <2>3, <1>2
<1>4. \E m \in T : \A n \in T : m >= n
  <2>1. size - k \in T
    BY <1>2
  <2> QED
    BY <2>1, <1>3
<1>5. Max(T) \in T /\ \A n \in T : Max(T) >= n
  BY <1>4 DEF Max
<1>6. \A n \in T : n <= Max(T)
  BY <1>5
<1> QED
  BY <1>5, <1>6 DEF IsGreatest

\* The buckets a loop visits are those with an element.
LEMMA NonEmptyIs ==
  ASSUME Sorted(bucket)
  PROVE  /\ NonEmpty \subseteq 0..(Size - 1) /\ Size \in Nat \ {0}
         /\ \A i \in 0..(Size - 1) :
              /\ Len(bucket[i]) \in Nat
              /\ i \in NonEmpty <=> Len(bucket[i]) > 0
              /\ i \in NonEmpty <=> bucket[i] # <<>>
<1>1. InPlace(bucket, Size)
  BY DEF Sorted, Size
<1>2. /\ Size \in Nat \ {0} /\ DOMAIN bucket = 0..(Size - 1)
      /\ \A i \in 0..(Size - 1) : bucket[i] \in Seq(Entry)
                                  /\ Len(bucket[i]) \in Nat
  BY <1>1, SizeIs
<1>3. \A i \in 0..(Size - 1) : bucket[i] # <<>> <=> Len(bucket[i]) > 0
  BY <1>2
<1> QED
  BY <1>2, <1>3 DEF NonEmpty

\* The places a loop has met before one.
Before(it) == {p \in Places(bucket) :
                 p.index < it.index \/ (p.index = it.index /\ p.pos < it.pos)}

Place(it) == IsPlace(bucket, Size, it)

\* The iterators of the current buckets, by their two parts.
LEMMA PlaceIs ==
  ASSUME Sorted(bucket)
  PROVE  /\ \A it : it \in Places(bucket) <=> Place(it)
         /\ \A it \in Places(bucket) :
              /\ it.index \in 0..(Size - 1) /\ it.index \in Nat
              /\ it.index \in NonEmpty /\ Len(bucket[it.index]) \in Nat
              /\ it.pos \in 1..Len(bucket[it.index]) /\ it.pos \in Nat \ {0}
              /\ it = [index |-> it.index, pos |-> it.pos]
<1>1. InPlace(bucket, Size)
  BY DEF Sorted, Size
<1>2. \A it : it \in Places(bucket) <=> Place(it)
  BY <1>1, PlacesAre DEF Place
<1>3. ASSUME NEW it \in Places(bucket)
      PROVE  /\ it.index \in 0..(Size - 1) /\ it.index \in Nat
             /\ it.index \in NonEmpty /\ Len(bucket[it.index]) \in Nat
             /\ it.pos \in 1..Len(bucket[it.index]) /\ it.pos \in Nat \ {0}
             /\ it = [index |-> it.index, pos |-> it.pos]
  <2>1. /\ it.index \in 0..(Size - 1)
        /\ it.pos \in 1..Len(bucket[it.index])
        /\ it = [index |-> it.index, pos |-> it.pos]
    BY <1>2 DEF Place, IsPlace
  <2>2. Len(bucket[it.index]) \in Nat
        /\ (it.index \in NonEmpty <=> Len(bucket[it.index]) > 0)
    BY <2>1, NonEmptyIs
  <2> QED
    BY <2>1, <2>2
<1> QED
  BY <1>2, <1>3

\* The first place of a bucket that has one.
LEMMA FirstPlace ==
  ASSUME Sorted(bucket), NEW i \in NonEmpty
  PROVE  [index |-> i, pos |-> 1] \in Places(bucket)
<1>1. i \in 0..(Size - 1) /\ 1 \in 1..Len(bucket[i])
  BY NonEmptyIs
<1>2. Place([index |-> i, pos |-> 1])
  BY <1>1 DEF Place, IsPlace
<1> QED
  BY <1>2, PlaceIs

\* begin() (460-468) is the first of all iterators.
LEMMA BeginIs ==
  ASSUME Sorted(bucket), Places(bucket) # {}
  PROVE  Begin \in Places(bucket) /\ Before(Begin) = {}
<1>1. NonEmpty # {}
  BY PlaceIs
<1>2. NonEmpty \subseteq Nat
  BY NonEmptyIs
<1> DEFINE i == Min(NonEmpty)
<1>3. i \in NonEmpty /\ \A n \in NonEmpty : i <= n
  BY <1>1, <1>2, MinIs DEF IsLeast
<1>4. bucket[i] # <<>> /\ i \in Nat
  BY <1>2, <1>3, NonEmptyIs
<1>5. Begin = [index |-> i, pos |-> 1]
  BY <1>1, <1>4 DEF Begin
<1> HIDE DEF i
<1>6. Begin \in Places(bucket)
  BY <1>3, <1>5, FirstPlace
<1>7. ASSUME NEW p \in Before(Begin) PROVE FALSE
  <2>1. /\ p \in Places(bucket)
        /\ p.index < i \/ (p.index = i /\ p.pos < 1)
    BY <1>5, <1>7 DEF Before
  <2>2. p.index \in NonEmpty /\ p.index \in Nat /\ p.pos \in Nat \ {0}
    BY <2>1, PlaceIs
  <2> QED
    BY <2>1, <2>2, <1>3, <1>4
<1> QED
  BY <1>6, <1>7

\* Where an iterator goes that moves on to another bucket.
MovesOn(it, next) ==
  \/ Later(it.index) = {} /\ next = [index |-> it.index, pos |-> 0]
  \/ /\ Later(it.index) # {}
     /\ next = [index |-> Min(Later(it.index)), pos |-> 1]
     /\ IsLeast(Min(Later(it.index)), Later(it.index))

\* Past the end of a bucket an iterator goes to the next that is not empty.
LEMMA MovedOn ==
  ASSUME Sorted(bucket), NEW i \in 0..(Size - 1), NEW n,
         NEW it, it = [index |-> i, pos |-> n],
         ~ (n # 0 /\ n < Len(bucket[i]))
  PROVE  MovesOn(it, Incremented(it))
<1>1. it.index = i /\ it.pos = n
  OBVIOUS
<1>2. Incremented(it) = IF Later(i) = {} THEN [it EXCEPT !.pos = 0]
                        ELSE [index |-> Min(Later(i)), pos |-> 1]
  BY <1>1 DEF Incremented
<1>3. Later(i) \subseteq Nat
  BY NonEmptyIs DEF Later
<1>4. Later(i) # {} => IsLeast(Min(Later(i)), Later(i))
  BY <1>3, MinIs
<1> QED
  BY <1>1, <1>2, <1>4 DEF MovesOn

\* The successor of a place.
StepsTo(it, next) ==
  \/ /\ next \in Places(bucket)
     /\ Before(next) = Before(it) \cup {it} /\ it \notin Before(it)
  \/ /\ Places(bucket) = Before(it) \cup {it} /\ it \notin Before(it)
     /\ next = End /\ next \notin Places(bucket)

\* An iterator does not come before itself.
LEMMA NotBefore ==
  ASSUME Sorted(bucket), NEW it \in Places(bucket)
  PROVE  it \notin Before(it)
BY PlaceIs DEF Before

\* The next position of a bucket is the next iterator.
LEMMA StepInBucket ==
  ASSUME Sorted(bucket), NEW it \in Places(bucket),
         it.pos < Len(bucket[it.index]),
         NEW next, next = [index |-> it.index, pos |-> it.pos + 1]
  PROVE  /\ next \in Places(bucket)
         /\ Before(next) = Before(it) \cup {it}
<1>1. /\ it.index \in 0..(Size - 1) /\ it.index \in Nat
      /\ it.pos \in 1..Len(bucket[it.index]) /\ it.pos \in Nat \ {0}
      /\ it = [index |-> it.index, pos |-> it.pos]
      /\ Len(bucket[it.index]) \in Nat
  BY PlaceIs
<1>2. next \in Places(bucket)
  <2>1. it.pos + 1 \in 1..Len(bucket[it.index])
    BY <1>1
  <2>2. Place(next)
    BY <2>1, <1>1 DEF Place, IsPlace
  <2> QED
    BY <2>2, PlaceIs
<1>3. ASSUME NEW p \in Places(bucket)
      PROVE  p \in Before(next) <=> (p \in Before(it) \/ p = it)
  <2>1. /\ p.index \in Nat /\ p.pos \in Nat
        /\ p = [index |-> p.index, pos |-> p.pos]
    BY PlaceIs
  <2>2. p = it <=> p.index = it.index /\ p.pos = it.pos
    BY <2>1, <1>1
  <2>3. p.pos < it.pos + 1 <=> p.pos < it.pos \/ p.pos = it.pos
    BY <2>1, <1>1
  <2> QED
    BY <2>1, <2>2, <2>3 DEF Before
<1>4. Before(next) \subseteq Places(bucket)
      /\ Before(it) \subseteq Places(bucket)
  BY DEF Before
<1> QED
  BY <1>2, <1>3, <1>4

\* Behind the last position of a bucket comes the first of the next.
LEMMA StepToBucket ==
  ASSUME Sorted(bucket), NEW it \in Places(bucket),
         it.pos = Len(bucket[it.index]),
         NEW j \in Later(it.index), \A n \in Later(it.index) : j <= n,
         NEW next, next = [index |-> j, pos |-> 1]
  PROVE  /\ next \in Places(bucket)
         /\ Before(next) = Before(it) \cup {it}
<1>1. /\ it.index \in 0..(Size - 1) /\ it.index \in Nat
      /\ it.pos \in Nat \ {0}
      /\ it = [index |-> it.index, pos |-> it.pos]
  BY PlaceIs
<1>2. j \in NonEmpty /\ it.index < j /\ j \in Nat
  BY NonEmptyIs DEF Later
<1>3. next \in Places(bucket)
  BY <1>2, FirstPlace
<1>4. ASSUME NEW p \in Places(bucket)
      PROVE  p \in Before(next) <=> (p \in Before(it) \/ p = it)
  <2>1. /\ p.index \in Nat /\ p.pos \in Nat \ {0} /\ p.index \in NonEmpty
        /\ p.pos \in 1..Len(bucket[p.index])
        /\ p = [index |-> p.index, pos |-> p.pos]
    BY PlaceIs
  <2>2. p = it <=> p.index = it.index /\ p.pos = it.pos
    BY <2>1, <1>1
  <2>3. p \in Before(next) <=> p.index < j
    BY <2>1, <1>2 DEF Before
  <2>4. p.index < j <=> p.index <= it.index
    <3>1. it.index < p.index => j <= p.index
      BY <2>1 DEF Later
    <3> QED
      BY <3>1, <2>1, <1>1, <1>2
  <2>5. p.index = it.index => p.pos <= it.pos
    BY <2>1, <1>1
  <2>6. p \in Before(it) <=> p.index < it.index
                             \/ (p.index = it.index /\ p.pos < it.pos)
    BY DEF Before
  <2> QED
    BY <2>1, <2>2, <2>3, <2>4, <2>5, <2>6, <1>1
<1>5. Before(next) \subseteq Places(bucket)
      /\ Before(it) \subseteq Places(bucket)
  BY DEF Before
<1> QED
  BY <1>3, <1>4, <1>5

\* Behind the last position of all comes end() (470-478).
LEMMA StepToEnd ==
  ASSUME Sorted(bucket), NEW it \in Places(bucket),
         it.pos = Len(bucket[it.index]), Later(it.index) = {},
         NEW next, next = [index |-> it.index, pos |-> 0]
  PROVE  /\ Places(bucket) = Before(it) \cup {it}
         /\ next = End /\ next \notin Places(bucket)
<1>1. /\ it.index \in 0..(Size - 1) /\ it.index \in Nat
      /\ it.pos \in Nat \ {0} /\ it.index \in NonEmpty
      /\ it = [index |-> it.index, pos |-> it.pos]
  BY PlaceIs
<1>2. ASSUME NEW p \in Places(bucket) PROVE p \in Before(it) \/ p = it
  <2>1. /\ p.index \in Nat /\ p.pos \in Nat \ {0} /\ p.index \in NonEmpty
        /\ p.pos \in 1..Len(bucket[p.index])
        /\ p = [index |-> p.index, pos |-> p.pos]
    BY PlaceIs
  <2>2. ~ (it.index < p.index)
    BY <2>1 DEF Later
  <2>3. p = it <=> p.index = it.index /\ p.pos = it.pos
    BY <2>1, <1>1
  <2>4. p.index = it.index => p.pos <= it.pos
    BY <2>1, <1>1
  <2> QED
    BY <2>1, <2>2, <2>3, <2>4, <1>1 DEF Before
<1>3. Before(it) \subseteq Places(bucket)
  BY DEF Before
<1>4. next = End
  <2>1. NonEmpty \subseteq 0..(Size - 1) /\ Size \in Nat
    BY NonEmptyIs
  <2>2. Max(NonEmpty) \in NonEmpty /\ \A n \in NonEmpty : n <= Max(NonEmpty)
    BY <2>1, <1>1, MaxIs DEF IsGreatest
  <2>3. Max(NonEmpty) = it.index
    BY <2>1, <2>2, <1>1 DEF Later
  <2> QED
    BY <2>3, <1>1 DEF End
<1>5. next \notin Places(bucket)
  <2>1. next.pos = 0
    OBVIOUS
  <2> QED
    BY <2>1, PlaceIs
<1> QED
  BY <1>2, <1>3, <1>4, <1>5

\* increment() (414-428) goes to the next iterator, or from the last to the
\* end.
LEMMA Successor ==
  ASSUME Sorted(bucket), NEW it \in Places(bucket)
  PROVE  StepsTo(it, Incremented(it))
<1>1. /\ it.index \in 0..(Size - 1)
      /\ it.pos \in 1..Len(bucket[it.index]) /\ it.pos \in Nat \ {0}
      /\ it = [index |-> it.index, pos |-> it.pos]
      /\ Len(bucket[it.index]) \in Nat
  BY PlaceIs
<1>2. it \notin Before(it)
  BY NotBefore
<1>3. CASE it.pos < Len(bucket[it.index])
  <2>1. Incremented(it) = [it EXCEPT !.pos = it.pos + 1]
    BY <1>1, <1>3 DEF Incremented
  <2>2. Incremented(it) = [index |-> it.index, pos |-> it.pos + 1]
    BY <2>1, <1>1
  <2> QED
    BY <2>2, <1>2, <1>3, StepInBucket DEF StepsTo
<1>4. CASE ~ (it.pos < Len(bucket[it.index]))
  <2>1. it.pos = Len(bucket[it.index])
    BY <1>1, <1>4
  <2>2. MovesOn(it, Incremented(it))
    BY <1>1, <1>4, MovedOn
  <2>3. CASE Later(it.index) = {}
    <3>1. Incremented(it) = [index |-> it.index, pos |-> 0]
      BY <2>2, <2>3 DEF MovesOn
    <3> QED
      BY <3>1, <2>1, <2>3, <1>2, StepToEnd DEF StepsTo
  <2>4. CASE Later(it.index) # {}
    <3> DEFINE j == Min(Later(it.index))
    <3>1. /\ Incremented(it) = [index |-> j, pos |-> 1]
          /\ j \in Later(it.index) /\ \A n \in Later(it.index) : j <= n
      BY <2>2, <2>4 DEF MovesOn, IsLeast
    <3> HIDE DEF j
    <3> QED
      BY <3>1, <2>1, <1>2, StepToBucket DEF StepsTo
  <2> QED
    BY <2>3, <2>4
<1> QED
  BY <1>3, <1>4

\* The places the loop meets.
Total == Cardinality(Places(bucket))
Meets(n) == Loop[n] \in Places(bucket) /\ Cardinality(Before(Loop[n])) = n

\* A loop starts at begin() and increments its iterator.
LEMMA LoopUnfolds ==
  ASSUME Total \in Nat
  PROVE  /\ Loop[0] = Begin
         /\ \A n \in 1..Total : Loop[n] = Incremented(Loop[n - 1])
<1> DEFINE Step(h, n) == IF n = 0 THEN Begin ELSE Incremented(h[n - 1])
           T == {m \in Nat : \E h : h = [n \in 0..m |-> Step(h, n)]}
<1>1. 0 \in T
  <2> DEFINE h == [n \in 0..0 |-> Begin]
  <2>1. \A n \in 0..0 : h[n] = Step(h, n)
    OBVIOUS
  <2>2. h = [n \in 0..0 |-> h[n]]
    OBVIOUS
  <2> HIDE DEF h
  <2>3. h = [n \in 0..0 |-> Step(h, n)]
    BY <2>1, <2>2
  <2> QED
    BY <2>3
<1>2. ASSUME NEW m \in T PROVE m + 1 \in T
  <2>1. PICK h : h = [n \in 0..m |-> Step(h, n)]
    OBVIOUS
  <2> DEFINE g == [n \in 0..(m + 1) |-> IF n <= m THEN h[n] ELSE
                     Incremented(h[m])]
  <2>2. ASSUME NEW n \in 0..(m + 1) PROVE g[n] = Step(g, n)
    <3>1. CASE n = 0
      BY <2>1, <3>1
    <3>2. CASE n # 0
      <4>1. n - 1 \in 0..m /\ g[n - 1] = h[n - 1]
        BY <3>2
      <4>2. CASE n <= m
        <5>1. h[n] = Step(h, n)
          BY <2>1, <4>2
        <5> QED
          BY <5>1, <4>1, <4>2
      <4>3. CASE n = m + 1
        <5>1. n - 1 = m
          BY <4>3
        <5> QED
          BY <4>1, <4>3, <5>1, <3>2
      <4> QED
        BY <4>2, <4>3
    <3> QED
      BY <3>1, <3>2
  <2>3. g = [n \in 0..(m + 1) |-> g[n]]
    OBVIOUS
  <2> HIDE DEF g
  <2>4. g = [n \in 0..(m + 1) |-> Step(g, n)]
    BY <2>2, <2>3
  <2> QED
    BY <2>4
<1>3. T = Nat
  <2> HIDE DEF T
  <2> QED
    BY <1>1, <1>2, Induct DEF T
<1>4. \E h : h = [n \in 0..Total |-> Step(h, n)]
  BY <1>3
<1> DEFINE f == CHOOSE h : h = [n \in 0..Total |-> Step(h, n)]
<1>5. Loop = f
  BY Zenon DEF Loop, Total
<1>6. f = [n \in 0..Total |-> Step(f, n)]
  <2> HIDE DEF Step
  <2> QED
    BY <1>4, Zenon
<1> HIDE DEF f
<1>7. f[0] = Begin /\ \A n \in 1..Total : f[n] = Incremented(f[n - 1])
  BY <1>6
<1> QED
  BY <1>5, <1>7

\* The next iterator has one more before it.
LEMMA BeforeGrows ==
  ASSUME Sorted(bucket), NEW it \in Places(bucket)
  PROVE  /\ IsFiniteSet(Before(it) \cup {it})
         /\ Cardinality(Before(it) \cup {it}) = Cardinality(Before(it)) + 1
         /\ Cardinality(Before(it)) \in Nat
<1>1. IsFiniteSet(Before(it))
  BY FS_Subset DEF Before, Sorted, Finite
<1> QED
  BY <1>1, NotBefore, FS_AddElement, FS_CardinalityType

\* One element after the other, until there is none.
LEMMA LoopMeets ==
  ASSUME Sorted(bucket), Places(bucket) # {}
  PROVE  /\ Total \in Nat \ {0}
         /\ \A n \in 0..(Total - 1) :
              Meets(n) /\ Loop[n + 1] = Incremented(Loop[n])
         /\ Loop[Total] = End
<1>1. Total \in Nat \ {0}
  BY FS_EmptySet, FS_CardinalityType DEF Total, Sorted, Finite
<1>2. /\ Loop[0] = Begin
      /\ \A n \in 1..Total : Loop[n] = Incremented(Loop[n - 1])
  BY <1>1, LoopUnfolds
<1>3. \A n \in 0..(Total - 1) : Loop[n + 1] = Incremented(Loop[n])
  <2> SUFFICES ASSUME NEW n \in 0..(Total - 1)
               PROVE  Loop[n + 1] = Incremented(Loop[n])
    OBVIOUS
  <2>1. n + 1 \in 1..Total /\ n + 1 - 1 = n
    BY <1>1
  <2> QED
    BY <2>1, <1>2
<1> DEFINE T == {n \in Nat : n < Total => Meets(n)}
<1>4. 0 \in T
  BY <1>2, BeginIs, FS_EmptySet DEF Meets
<1>5. ASSUME NEW n \in T PROVE n + 1 \in T
  <2> SUFFICES ASSUME n + 1 < Total PROVE Meets(n + 1)
    OBVIOUS
  <2> DEFINE it == Loop[n]
             next == Loop[n + 1]
  <2>1. it \in Places(bucket) /\ Cardinality(Before(it)) = n
    BY <1>1 DEF Meets
  <2>2. next = Incremented(it)
    BY <1>1, <1>3
  <2> HIDE DEF it, next
  <2>3. StepsTo(it, next)
    BY <2>1, <2>2, Successor
  <2>4. Cardinality(Before(it) \cup {it}) = n + 1
    BY <2>1, BeforeGrows
  <2>5. Places(bucket) # Before(it) \cup {it}
    BY <2>4, <1>1 DEF Total
  <2> QED
    BY <2>3, <2>4, <2>5 DEF StepsTo, Meets, next
<1>6. T = Nat
  <2> HIDE DEF T
  <2> QED
    BY <1>4, <1>5, Induct DEF T
<1>7. \A n \in 0..(Total - 1) : Meets(n)
  BY <1>1, <1>6
<1>8. Loop[Total] = End
  <2> DEFINE n == Total - 1
             it == Loop[n]
             next == Loop[Total]
  <2>1. n \in 0..(Total - 1) /\ n + 1 = Total
    BY <1>1
  <2>2. it \in Places(bucket) /\ Cardinality(Before(it)) = n
    BY <1>7, <2>1 DEF Meets
  <2>3. next = Incremented(it)
    BY <1>3, <2>1
  <2> HIDE DEF n, it, next
  <2>4. StepsTo(it, next)
    BY <2>2, <2>3, Successor
  <2>5. CASE next \in Places(bucket) /\ Before(next) = Before(it) \cup {it}
    <3>1. Cardinality(Before(next)) = Total
      BY <2>1, <2>2, <2>5, BeforeGrows
    <3>2. Before(next) \cup {next} \subseteq Places(bucket)
      BY <2>5 DEF Before
    <3>3. /\ Cardinality(Before(next) \cup {next}) = Total + 1
      BY <3>1, <2>5, BeforeGrows
    <3>4. Cardinality(Before(next) \cup {next}) <= Total
      BY <3>2, FS_Subset DEF Total, Sorted, Finite
    <3> QED
      BY <3>3, <3>4, <1>1
  <2> QED
    BY <2>4, <2>5 DEF StepsTo, next
<1> QED
  BY <1>1, <1>3, <1>7, <1>8

\* The loop over a map meets every element once.
LEMMA LoopHolds ==
  ASSUME Sorted(bucket)
  PROVE  LoopMeetsEveryElement
<1>1. CASE Places(bucket) = {}
  <2>1. Cardinality(Places(bucket)) = 0
    BY <1>1, FS_EmptySet
  <2>2. NonEmpty = {}
    BY <1>1, FirstPlace
  <2>3. Begin.index = 0 /\ End.index = Size - 1
    BY <2>2 DEF Begin, End
  <2>4. Size \in Nat
    BY NonEmptyIs
  <2>5. Size > 1 => Begin # End
    BY <2>3, <2>4
  <2> QED
    BY <2>1, <2>5 DEF LoopMeetsEveryElement
<1>2. CASE Places(bucket) # {}
  <2>1. /\ Total \in Nat \ {0} /\ Loop[Total] = End
        /\ \A n \in 0..(Total - 1) : Meets(n)
    BY <1>2, LoopMeets
  <2> DEFINE f == [n \in 0..(Total - 1) |-> Loop[n]]
             met == {Loop[n] : n \in 0..(Total - 1)}
  <2>2. f \in Bijection(0..(Total - 1), met)
    <3>1. f \in [0..(Total - 1) -> met]
      OBVIOUS
    <3>2. \A x \in met : \E n \in 0..(Total - 1) : f[n] = x
      OBVIOUS
    <3>3. ASSUME NEW m \in 0..(Total - 1), NEW n \in 0..(Total - 1),
                 f[m] = f[n]
          PROVE  m = n
      <4>1. Cardinality(Before(Loop[m])) = m /\ Cardinality(Before(Loop[n])) = n
        BY <2>1 DEF Meets
      <4>2. Loop[m] = Loop[n]
        BY <3>3
      <4> QED
        BY <4>1, <4>2
    <3> HIDE DEF f, met
    <3> QED
      BY <3>1, <3>2, <3>3 DEF Bijection, Injection, Surjection, IsInjective
  <2>3. met \subseteq Places(bucket)
    BY <2>1 DEF Meets
  <2>m. met = {Loop[n] : n \in 0..(Total - 1)}
    OBVIOUS
  <2> HIDE DEF f, met
  <2>4. IsFiniteSet(0..(Total - 1)) /\ Cardinality(0..(Total - 1)) = Total
    BY <2>1, FS_Interval
  <2>5. Cardinality(met) = Total
    BY <2>2, <2>4, FS_Bijection DEF ExistsBijection
  <2>6. met = Places(bucket)
    BY <2>3, <2>5, FS_Subset DEF Total, Sorted, Finite
  <2>7. LoopMeetsEveryElement =
          IF Total = 0 THEN (Size > 1 => Begin # End)
          ELSE /\ {Loop[n] : n \in 0..(Total - 1)} = Places(bucket)
               /\ Loop[Total] = End
    BY DEF LoopMeetsEveryElement, Total
  <2> QED
    BY <2>1, <2>6, <2>7, <2>m
<1> QED
  BY <1>1, <1>2

\* What erase() answers for one iterator.
LEMMA ErasedNext ==
  ASSUME Sorted(bucket), NEW it \in Places(bucket),
         NEW following, following = Incremented(it),
         ~ (it.pos = 1 /\ Len(bucket[it.index]) > 1)
  PROVE  AfterErase(it) = IF /\ following \in Places(bucket)
                             /\ following.index = it.index
                          THEN it ELSE following
<1>1. /\ it.index \in 0..(Size - 1) /\ it.index \in Nat
      /\ it.pos \in 1..Len(bucket[it.index]) /\ it.pos \in Nat \ {0}
      /\ it = [index |-> it.index, pos |-> it.pos]
      /\ Len(bucket[it.index]) \in Nat
  BY PlaceIs
<1>2. CASE it.pos > 1 /\ it.pos < Len(bucket[it.index])
  <2>1. AfterErase(it) = it
    BY <1>2 DEF AfterErase
  <2>2. following = [it EXCEPT !.pos = it.pos + 1]
    BY <1>1, <1>2 DEF Incremented
  <2>3. following = [index |-> it.index, pos |-> it.pos + 1]
    BY <2>2, <1>1
  <2>4. following \in Places(bucket)
    BY <2>3, <1>2, StepInBucket
  <2> QED
    BY <2>1, <2>3, <2>4
<1>3. CASE ~ (it.pos > 1 /\ it.pos < Len(bucket[it.index]))
  <2>1. it.pos = Len(bucket[it.index])
    BY <1>1, <1>3
  <2> DEFINE start == [index |-> it.index, pos |-> 0]
  <2>2. AfterErase(it) = Incremented(start)
    <3>1. [it EXCEPT !.pos = 0] = start
      BY <1>1
    <3> QED
      BY <3>1, <1>3 DEF AfterErase
  <2>3. MovesOn(it, following)
    BY <1>1, <2>1, MovedOn
  <2>4. MovesOn(start, Incremented(start)) /\ start.index = it.index
    BY <1>1, MovedOn
  <2> HIDE DEF start
  <2>5. Incremented(start) = following
    BY <2>3, <2>4 DEF MovesOn
  <2>6. ~ (following \in Places(bucket) /\ following.index = it.index)
    <3>1. CASE Later(it.index) = {}
      <4>1. following.pos = 0
        BY <3>1, <2>3 DEF MovesOn
      <4> QED
        BY <4>1, PlaceIs
    <3>2. CASE Later(it.index) # {}
      <4>1. following.index \in Later(it.index)
        BY <3>2, <2>3 DEF MovesOn, IsLeast
      <4>2. it.index < following.index
        BY <4>1 DEF Later
      <4>3. following.index \in Nat
        BY <4>1, NonEmptyIs DEF Later
      <4> QED
        BY <4>2, <4>3, <1>1
    <3> QED
      BY <3>1, <3>2
  <2> QED
    BY <2>2, <2>5, <2>6
<1> QED
  BY <1>2, <1>3

\* What erase(iterator) answers with, in a map whose keys are in place.
LEMMA EraseHolds ==
  ASSUME Sorted(bucket)
  PROVE  EraseAnswersNext
<1>1. CASE Places(bucket) = {}
  <2>1. Cardinality(Places(bucket)) = 0
    BY <1>1, FS_EmptySet
  <2>2. 0..(0 - 1) = {}
    OBVIOUS
  <2> QED
    BY <2>1, <2>2 DEF EraseAnswersNext
<1>2. CASE Places(bucket) # {}
  <2> SUFFICES ASSUME NEW n \in 0..(Total - 1)
               PROVE  LET it == Loop[n]
                          following == Loop[n + 1]
                          next == IF /\ following \in Places(bucket)
                                     /\ following.index = it.index
                                  THEN it ELSE following
                      IN  \/ AfterErase(it) = next
                          \/ (it.pos = 1 /\ Len(bucket[it.index]) > 1)
    BY DEF EraseAnswersNext, Total
  <2>1. Loop[n] \in Places(bucket) /\ Loop[n + 1] = Incremented(Loop[n])
    BY <1>2, LoopMeets DEF Meets
  <2> QED
    BY <2>1, ErasedNext
<1> QED
  BY <1>1, <1>2

\* Keys that are in place are all that KeysInPlace says.
LEMMA KeysHold ==
  ASSUME Sorted(bucket)
  PROVE  KeysInPlace
<1>1. InPlace(bucket, Size)
  BY DEF Sorted, Size
<1>2. /\ DOMAIN bucket = 0..(Size - 1)
      /\ \A i \in 0..(Size - 1) : DOMAIN bucket[i] = 1..Len(bucket[i])
  BY <1>1, SizeIs
<1>3. ASSUME NEW i \in DOMAIN bucket,
             NEW m \in DOMAIN bucket[i], NEW n \in DOMAIN bucket[i]
      PROVE  /\ Index(bucket[i][n].key, Size) = i
             /\ bucket[i][m].key = bucket[i][n].key => m = n
  <2>1. i \in 0..(Size - 1) /\ m \in 1..Len(bucket[i])
        /\ n \in 1..Len(bucket[i])
    BY <1>2
  <2> QED
    BY <2>1, <1>1 DEF InPlace
<1> QED
  BY <1>3 DEF KeysInPlace

MapSpec == MapInit /\ [][MapNext]_mapVars

\* A map holds the pairs it was asked to hold, each in the bucket of its key and
\* none twice, size_ counts them, and the loop over begin() and end() and what
\* erase() returns meet each pair once (414-602), with the exceptions that are
\* named at the parts of MapInv: for any keys, values and load factor, through
\* every rehash(), until erase(key) reads through its unset pointer (250, 56).
THEOREM MapHolds == MapSpec => []MapInv
<1>1. MapIInv => MapInv
  BY KeysHold, LoopHolds, EraseHolds DEF MapIInv, MapInv
<1> QED
  BY <1>1, MapIInvInit, MapIInvNext, PTL DEF MapSpec
-----------------------------------------------------------------------------
(* List *)

Cell == [data : Item, prev : Node \cup {Nil}, next : Node \cup {Nil}]

ListRecord(s) ==
  /\ s = [mem |-> s.mem, head |-> s.head, tail |-> s.tail, length |-> s.length]
  /\ DOMAIN s.mem \subseteq Node
  /\ s.mem \in [DOMAIN s.mem -> Cell]
  /\ s.length \in Int

\* The nodes of p, and what comes after and before the i-th.
Nodes(p) == {p[i] : i \in 1..Len(p)}
NextIn(p, i) == IF i = Len(p) THEN Nil ELSE p[i + 1]
PrevIn(p, i) == IF i = 1 THEN Nil ELSE p[i - 1]

\* A list whose nodes, from head_ on, are p.
IsList(s, p) ==
  /\ ListRecord(s)
  /\ p \in Seq(Node) /\ Distinctly(p) /\ Nodes(p) \subseteq DOMAIN s.mem
  /\ \A i \in 1..Len(p) : /\ s.mem[p[i]].next = NextIn(p, i)
                          /\ s.mem[p[i]].prev = PrevIn(p, i)
  /\ s.head = IF Len(p) = 0 THEN Nil ELSE p[1]
  /\ s.tail = IF Len(p) = 0 THEN Nil ELSE p[Len(p)]
  /\ s.length = Len(p)

\* What a new next_ changes of a list.
LEMMA SetNextIs ==
  ASSUME NEW s, ListRecord(s), NEW n \in DOMAIN s.mem,
         NEW next \in Node \cup {Nil}, NEW t, t = SetNext(s, n, next)
  PROVE  /\ ListRecord(t)
         /\ DOMAIN t.mem = DOMAIN s.mem
         /\ t.head = s.head /\ t.tail = s.tail /\ t.length = s.length
         /\ \A m \in DOMAIN s.mem :
              /\ t.mem[m].data = s.mem[m].data
              /\ t.mem[m].prev = s.mem[m].prev
              /\ t.mem[m].next = IF m = n THEN next ELSE s.mem[m].next
<1> DEFINE l == [s.mem[n] EXCEPT !.next = next]
           M == [s.mem EXCEPT ![n] = l]
<1>1. s.mem[n] \in Cell
  BY DEF ListRecord
<1>2. l \in Cell /\ l.next = next /\ l.data = s.mem[n].data
      /\ l.prev = s.mem[n].prev
  BY <1>1 DEF Cell
<1>3. t = [s EXCEPT !.mem = M]
  BY DEF SetNext
<1> HIDE DEF l
<1>4. /\ M \in [DOMAIN s.mem -> Cell] /\ M[n] = l
      /\ \A m \in DOMAIN s.mem \ {n} : M[m] = s.mem[m]
  BY <1>2 DEF ListRecord
<1> HIDE DEF M
<1>5. t = [mem |-> M, head |-> s.head, tail |-> s.tail, length |-> s.length]
  BY <1>3 DEF ListRecord
<1>6. /\ t.mem = M /\ t.head = s.head /\ t.tail = s.tail /\ t.length = s.length
      /\ t = [mem |-> t.mem, head |-> t.head, tail |-> t.tail,
              length |-> t.length]
  BY <1>5
<1> QED
  BY <1>2, <1>4, <1>6 DEF ListRecord

\* What a new prev_ changes of a list.
LEMMA SetPrevIs ==
  ASSUME NEW s, ListRecord(s), NEW n \in DOMAIN s.mem,
         NEW prev \in Node \cup {Nil}, NEW t, t = SetPrev(s, n, prev)
  PROVE  /\ ListRecord(t)
         /\ DOMAIN t.mem = DOMAIN s.mem
         /\ t.head = s.head /\ t.tail = s.tail /\ t.length = s.length
         /\ \A m \in DOMAIN s.mem :
              /\ t.mem[m].data = s.mem[m].data
              /\ t.mem[m].next = s.mem[m].next
              /\ t.mem[m].prev = IF m = n THEN prev ELSE s.mem[m].prev
<1> DEFINE l == [s.mem[n] EXCEPT !.prev = prev]
           M == [s.mem EXCEPT ![n] = l]
<1>1. s.mem[n] \in Cell
  BY DEF ListRecord
<1>2. l \in Cell /\ l.prev = prev /\ l.data = s.mem[n].data
      /\ l.next = s.mem[n].next
  BY <1>1 DEF Cell
<1>3. t = [s EXCEPT !.mem = M]
  BY DEF SetPrev
<1> HIDE DEF l
<1>4. /\ M \in [DOMAIN s.mem -> Cell] /\ M[n] = l
      /\ \A m \in DOMAIN s.mem \ {n} : M[m] = s.mem[m]
  BY <1>2 DEF ListRecord
<1> HIDE DEF M
<1>5. t = [mem |-> M, head |-> s.head, tail |-> s.tail, length |-> s.length]
  BY <1>3 DEF ListRecord
<1>6. /\ t.mem = M /\ t.head = s.head /\ t.tail = s.tail /\ t.length = s.length
      /\ t = [mem |-> t.mem, head |-> t.head, tail |-> t.tail,
              length |-> t.length]
  BY <1>5
<1> QED
  BY <1>2, <1>4, <1>6 DEF ListRecord

\* What new ends change of a list.
LEMMA SetEndsIs ==
  ASSUME NEW s, ListRecord(s), NEW h, NEW l, NEW t, t = SetEnds(s, h, l)
  PROVE  /\ ListRecord(t)
         /\ t.head = h /\ t.tail = l /\ t.length = s.length /\ t.mem = s.mem
<1>1. t = [mem |-> s.mem, head |-> h, tail |-> l, length |-> s.length]
  BY DEF ListRecord, SetEnds
<1>2. /\ t.mem = s.mem /\ t.head = h /\ t.tail = l /\ t.length = s.length
      /\ t = [mem |-> t.mem, head |-> t.head, tail |-> t.tail,
              length |-> t.length]
  BY <1>1
<1> QED
  BY <1>2 DEF ListRecord

\* What __createNode() (314-326) changes of a list.
LEMMA NodeCreatedIs ==
  ASSUME NEW s, ListRecord(s), NEW n \in Node, NEW d \in Item,
         NEW t, t = NodeCreated(s, n, d)
  PROVE  /\ ListRecord(t)
         /\ DOMAIN t.mem = DOMAIN s.mem \cup {n}
         /\ t.head = s.head /\ t.tail = s.tail /\ t.length = s.length + 1
         /\ t.mem[n].data = d /\ t.mem[n].prev = Nil /\ t.mem[n].next = Nil
         /\ \A m \in DOMAIN s.mem \ {n} : t.mem[m] = s.mem[m]
<1> DEFINE M == [m \in DOMAIN s.mem \cup {n} |->
                   IF m = n THEN [data |-> d, prev |-> Nil, next |-> Nil]
                   ELSE s.mem[m]]
<1>1. t = [s EXCEPT !.length = s.length + 1, !.mem = M]
  BY DEF NodeCreated
<1>2. [data |-> d, prev |-> Nil, next |-> Nil] \in Cell
  BY DEF Cell
<1>3. /\ M \in [DOMAIN s.mem \cup {n} -> Cell]
      /\ M[n].data = d /\ M[n].prev = Nil /\ M[n].next = Nil
      /\ \A m \in DOMAIN s.mem \ {n} : M[m] = s.mem[m]
  BY <1>2 DEF ListRecord
<1> HIDE DEF M
<1>4. t = [mem |-> M, head |-> s.head, tail |-> s.tail,
           length |-> s.length + 1]
  BY <1>1 DEF ListRecord
<1>5. /\ t.mem = M /\ t.head = s.head /\ t.tail = s.tail
      /\ t.length = s.length + 1
      /\ t = [mem |-> t.mem, head |-> t.head, tail |-> t.tail,
              length |-> t.length]
  BY <1>4
<1> QED
  BY <1>3, <1>5 DEF ListRecord

\* What __release() (328-332) changes of a list.
LEMMA NodeReleasedIs ==
  ASSUME NEW s, ListRecord(s), NEW n, NEW t, t = NodeReleased(s, n)
  PROVE  /\ ListRecord(t)
         /\ DOMAIN t.mem = DOMAIN s.mem \ {n}
         /\ t.head = s.head /\ t.tail = s.tail /\ t.length = s.length - 1
         /\ \A m \in DOMAIN s.mem \ {n} : t.mem[m] = s.mem[m]
<1> DEFINE M == [m \in DOMAIN s.mem \ {n} |-> s.mem[m]]
<1>1. t = [s EXCEPT !.length = s.length - 1, !.mem = M]
  BY DEF NodeReleased
<1>3. /\ M \in [DOMAIN s.mem \ {n} -> Cell]
      /\ \A m \in DOMAIN s.mem \ {n} : M[m] = s.mem[m]
  BY DEF ListRecord
<1> HIDE DEF M
<1>4. t = [mem |-> M, head |-> s.head, tail |-> s.tail,
           length |-> s.length - 1]
  BY <1>1 DEF ListRecord
<1>5. /\ t.mem = M /\ t.head = s.head /\ t.tail = s.tail
      /\ t.length = s.length - 1
      /\ t = [mem |-> t.mem, head |-> t.head, tail |-> t.tail,
              length |-> t.length]
  BY <1>4
<1> QED
  BY <1>3, <1>5 DEF ListRecord

\* A sequence with an element put in at the k-th place.
PutIn(p, k, n) ==
  [j \in 1..(Len(p) + 1) |->
     IF j < k THEN p[j] ELSE IF j = k THEN n ELSE p[j - 1]]

IsPutIn(q, p, k, n) ==
  /\ Len(q) = Len(p) + 1
  /\ \A j \in 1..Len(q) :
       q[j] = IF j < k THEN p[j] ELSE IF j = k THEN n ELSE p[j - 1]
  /\ Nodes(q) = Nodes(p) \cup {n}
  /\ Distinctly(p) /\ n \notin Nodes(p) => Distinctly(q)

\* What putting an element in makes of a sequence.
LEMMA PutInIs ==
  ASSUME NEW S, NEW p \in Seq(S), NEW n \in S, NEW k \in 1..(Len(p) + 1),
         NEW q, q = PutIn(p, k, n)
  PROVE  q \in Seq(S) /\ IsPutIn(q, p, k, n)
<1>0. Len(p) \in Nat /\ Len(p) + 1 \in Nat
  OBVIOUS
<1>1. /\ q \in Seq(S) /\ Len(q) = Len(p) + 1
      /\ \A j \in 1..Len(q) :
           q[j] = IF j < k THEN p[j] ELSE IF j = k THEN n ELSE p[j - 1]
  <2>1. \A j \in 1..(Len(p) + 1) :
          (IF j < k THEN p[j] ELSE IF j = k THEN n ELSE p[j - 1]) \in S
    <3> SUFFICES ASSUME NEW j \in 1..(Len(p) + 1)
                 PROVE (IF j < k THEN p[j] ELSE IF j = k THEN n ELSE p[j - 1])
                         \in S
      OBVIOUS
    <3>1. j < k => j \in 1..Len(p)
      BY <1>0
    <3>2. j > k => j - 1 \in 1..Len(p)
      BY <1>0
    <3> QED
      BY <3>1, <3>2
  <2> QED
    BY <2>1, <1>0 DEF PutIn
<1>2. \A j \in 1..Len(q) :
        j # k => \E i \in 1..Len(p) : /\ q[j] = p[i]
                                      /\ i = IF j < k THEN j ELSE j - 1
  <2> SUFFICES ASSUME NEW j \in 1..Len(q), j # k
               PROVE  \E i \in 1..Len(p) : /\ q[j] = p[i]
                                           /\ i = IF j < k THEN j ELSE j - 1
    OBVIOUS
  <2>1. CASE j < k
    <3>1. j \in 1..Len(p) /\ q[j] = p[j]
      BY <2>1, <1>0, <1>1
    <3> QED
      BY <3>1, <2>1
  <2>2. CASE j > k
    <3>1. j - 1 \in 1..Len(p) /\ q[j] = p[j - 1] /\ ~ (j < k)
      BY <2>2, <1>0, <1>1
    <3> QED
      BY <3>1
  <2> QED
    BY <2>1, <2>2, <1>1
<1>3. k \in 1..Len(q) /\ q[k] = n
  BY <1>0, <1>1
<1>4. \A i \in 1..Len(p) : \E j \in 1..Len(q) : q[j] = p[i]
  <2> SUFFICES ASSUME NEW i \in 1..Len(p)
               PROVE  \E j \in 1..Len(q) : q[j] = p[i]
    OBVIOUS
  <2>1. CASE i < k
    <3>1. i \in 1..Len(q) /\ q[i] = p[i]
      BY <2>1, <1>0, <1>1
    <3> QED
      BY <3>1
  <2>2. CASE ~ (i < k)
    <3>1. i + 1 \in 1..Len(q) /\ q[i + 1] = p[i]
      BY <2>2, <1>0, <1>1
    <3> QED
      BY <3>1
  <2> QED
    BY <2>1, <2>2
<1>5. Nodes(q) = Nodes(p) \cup {n}
  BY <1>2, <1>3, <1>4 DEF Nodes
<1>6. ASSUME Distinctly(p), n \notin Nodes(p) PROVE Distinctly(q)
  <2> SUFFICES ASSUME NEW i \in 1..Len(q), NEW j \in 1..Len(q), q[i] = q[j]
               PROVE  i = j
    BY DEF Distinctly
  <2>1. CASE i = k \/ j = k
    BY <2>1, <1>2, <1>3, <1>6 DEF Nodes
  <2>2. CASE i # k /\ j # k
    <3>1. PICK a \in 1..Len(p) : q[i] = p[a] /\ a = IF i < k THEN i ELSE i - 1
      BY <2>2, <1>2
    <3>2. PICK b \in 1..Len(p) : q[j] = p[b] /\ b = IF j < k THEN j ELSE j - 1
      BY <2>2, <1>2
    <3>3. a = b
      BY <3>1, <3>2, <1>6 DEF Distinctly
    <3> QED
      BY <3>1, <3>2, <3>3, <2>2, <1>1, <1>0
  <2> QED
    BY <2>1, <2>2
<1> QED
  BY <1>1, <1>5, <1>6 DEF IsPutIn

\* A node that is none of the lists' keeps its place and its fields.
Same(s, t, n) == /\ t.mem[n].data = s.mem[n].data
                 /\ t.mem[n].prev = s.mem[n].prev
                 /\ t.mem[n].next = s.mem[n].next
Frame(s, t, p, q) ==
  /\ DOMAIN t.mem \ Nodes(q) = DOMAIN s.mem \ Nodes(p)
  /\ \A n \in DOMAIN s.mem \ Nodes(p) : Same(s, t, n)

\* How the links are when n was linked in at the k-th place of the nodes p.
LinkedIn(t, c, p, k, n) ==
  /\ ListRecord(t)
  /\ DOMAIN t.mem = DOMAIN c.mem
  /\ t.length = c.length
  /\ t.head = IF k = 1 THEN n ELSE p[1]
  /\ t.tail = IF k = Len(p) + 1 THEN n ELSE p[Len(p)]
  /\ t.mem[n].next = IF k = Len(p) + 1 THEN Nil ELSE p[k]
  /\ t.mem[n].prev = IF k = 1 THEN Nil ELSE p[k - 1]
  /\ \A m \in DOMAIN c.mem : t.mem[m].data = c.mem[m].data
  /\ \A m \in DOMAIN c.mem \ {n} :
       /\ t.mem[m].next = IF k # 1 /\ m = p[k - 1] THEN n ELSE c.mem[m].next
       /\ t.mem[m].prev = IF k # Len(p) + 1 /\ m = p[k] THEN n
                          ELSE c.mem[m].prev

\* The list of the nodes p is one of the nodes q, with a new node of datum d.
Grown(s, p, t, q, n, d) ==
  /\ IsList(t, q)
  /\ Frame(s, t, p, q)
  /\ DOMAIN t.mem = DOMAIN s.mem \cup {n}
  /\ t.mem[n].data = d
  /\ \A m \in DOMAIN s.mem : t.mem[m].data = s.mem[m].data

\* Linked in like that, the node is one of the list.
LEMMA LinkedInIsList ==
  ASSUME NEW s, NEW p, IsList(s, p), NEW n \in Node \ DOMAIN s.mem,
         NEW d \in Item, NEW k \in 1..(Len(p) + 1),
         NEW c, c = NodeCreated(s, n, d), NEW t, LinkedIn(t, c, p, k, n),
         NEW q, q = PutIn(p, k, n)
  PROVE  Grown(s, p, t, q, n, d)
<1>1. /\ ListRecord(s) /\ p \in Seq(Node) /\ Distinctly(p)
      /\ Nodes(p) \subseteq DOMAIN s.mem /\ s.length = Len(p)
      /\ Len(p) \in Nat
      /\ s.head = IF Len(p) = 0 THEN Nil ELSE p[1]
      /\ s.tail = IF Len(p) = 0 THEN Nil ELSE p[Len(p)]
  BY DEF IsList
<1>2. \A i \in 1..Len(p) : /\ s.mem[p[i]].next = NextIn(p, i)
                           /\ s.mem[p[i]].prev = PrevIn(p, i)
                           /\ p[i] \in DOMAIN s.mem /\ p[i] # n
  BY DEF IsList, Nodes
<1>3. q \in Seq(Node) /\ IsPutIn(q, p, k, n)
  BY <1>1, PutInIs
<1>4. /\ Len(q) = Len(p) + 1
      /\ \A j \in 1..Len(q) :
           q[j] = IF j < k THEN p[j] ELSE IF j = k THEN n ELSE p[j - 1]
      /\ Nodes(q) = Nodes(p) \cup {n}
      /\ Distinctly(q)
  BY <1>1, <1>3 DEF IsPutIn
<1>5. /\ ListRecord(c)
      /\ DOMAIN c.mem = DOMAIN s.mem \cup {n}
      /\ c.length = s.length + 1
      /\ c.mem[n].data = d
      /\ \A m \in DOMAIN s.mem : c.mem[m] = s.mem[m]
  BY <1>1, NodeCreatedIs
<1>6. /\ ListRecord(t)
      /\ DOMAIN t.mem = DOMAIN s.mem \cup {n}
      /\ t.length = Len(q)
      /\ t.head = IF k = 1 THEN n ELSE p[1]
      /\ t.tail = IF k = Len(p) + 1 THEN n ELSE p[Len(p)]
      /\ t.mem[n].next = IF k = Len(p) + 1 THEN Nil ELSE p[k]
      /\ t.mem[n].prev = IF k = 1 THEN Nil ELSE p[k - 1]
  BY <1>1, <1>4, <1>5 DEF LinkedIn
<1>7. \A m \in DOMAIN s.mem :
        /\ t.mem[m].data = s.mem[m].data
        /\ t.mem[m].next = IF k # 1 /\ m = p[k - 1] THEN n ELSE s.mem[m].next
        /\ t.mem[m].prev = IF k # Len(p) + 1 /\ m = p[k] THEN n
                           ELSE s.mem[m].prev
  BY <1>5 DEF LinkedIn
<1>8. t.mem[n].data = d
  BY <1>5 DEF LinkedIn
<1>9. ASSUME NEW j \in 1..Len(q) PROVE t.mem[q[j]].next = NextIn(q, j)
  <2>1. CASE j = k
    <3>1. q[j] = n
      BY <2>1, <1>4
    <3>2. j # Len(q) => q[j + 1] = p[j]
      BY <2>1, <1>1, <1>4
    <3> QED
      BY <3>1, <3>2, <2>1, <1>4, <1>6 DEF NextIn
  <2>2. CASE j > k
    <3>1. j - 1 \in 1..Len(p) /\ q[j] = p[j - 1] /\ j - 1 # k - 1
      BY <2>2, <1>1, <1>4
    <3>2. k # 1 => k - 1 \in 1..Len(p) /\ p[j - 1] # p[k - 1]
      BY <3>1, <1>1 DEF Distinctly
    <3>3. t.mem[q[j]].next = NextIn(p, j - 1)
      <4>1. s.mem[p[j - 1]].next = NextIn(p, j - 1) /\ p[j - 1] \in DOMAIN s.mem
        BY <3>1, <1>2
      <4>2. t.mem[p[j - 1]].next = s.mem[p[j - 1]].next
        BY <4>1, <3>2, <1>7
      <4> QED
        BY <4>1, <4>2, <3>1
    <3>4. j # Len(q) => q[j + 1] = p[j] /\ j - 1 # Len(p)
      <4>1. j # Len(q) => /\ j + 1 \in 1..Len(q) /\ ~ (j + 1 < k)
                          /\ j + 1 # k /\ j + 1 - 1 = j /\ j - 1 # Len(p)
        BY <2>2, <1>1, <1>4
      <4> QED
        BY <4>1, <1>4
    <3>5. j - 1 + 1 = j
      OBVIOUS
    <3> QED
      BY <3>1, <3>3, <3>4, <3>5, <1>1, <1>4 DEF NextIn
  <2>3. CASE j = k - 1
    <3>1. j \in 1..Len(p) /\ q[j] = p[j] /\ q[j + 1] = n /\ j # Len(q) /\ k # 1
      BY <2>3, <1>1, <1>4
    <3>2. t.mem[q[j]].next = n
      BY <3>1, <2>3, <1>2, <1>7
    <3> QED
      BY <3>1, <3>2 DEF NextIn
  <2>4. CASE j < k - 1
    <3>1. /\ j \in 1..Len(p) /\ q[j] = p[j] /\ q[j + 1] = p[j + 1]
          /\ j # Len(q) /\ j # Len(p) /\ k - 1 \in 1..Len(p) /\ j # k - 1
      BY <2>4, <1>1, <1>4
    <3>2. p[j] # p[k - 1]
      BY <3>1, <1>1 DEF Distinctly
    <3>3. t.mem[q[j]].next = NextIn(p, j)
      BY <3>1, <3>2, <1>2, <1>7
    <3> QED
      BY <3>1, <3>3 DEF NextIn
  <2> QED
    BY <2>1, <2>2, <2>3, <2>4, <1>1, <1>4
<1>10. ASSUME NEW j \in 1..Len(q) PROVE t.mem[q[j]].prev = PrevIn(q, j)
  <2>1. CASE j = k
    <3>1. q[j] = n
      BY <2>1, <1>4
    <3>2. j # 1 => q[j - 1] = p[j - 1]
      BY <2>1, <1>1, <1>4
    <3> QED
      BY <3>1, <3>2, <2>1, <1>6 DEF PrevIn
  <2>2. CASE j < k
    <3>1. j \in 1..Len(p) /\ q[j] = p[j] /\ j # k
      BY <2>2, <1>1, <1>4
    <3>2. k # Len(p) + 1 => k \in 1..Len(p) /\ p[j] # p[k]
      BY <3>1, <1>1 DEF Distinctly
    <3>3. t.mem[q[j]].prev = PrevIn(p, j)
      BY <3>1, <3>2, <1>2, <1>7
    <3>4. j # 1 => q[j - 1] = p[j - 1]
      BY <2>2, <1>1, <1>4
    <3> QED
      BY <3>1, <3>3, <3>4 DEF PrevIn
  <2>3. CASE j = k + 1
    <3>1. k \in 1..Len(p) /\ q[j] = p[k] /\ q[j - 1] = n /\ j # 1
          /\ k # Len(p) + 1
      BY <2>3, <1>1, <1>4
    <3>2. t.mem[q[j]].prev = n
      BY <3>1, <1>2, <1>7
    <3> QED
      BY <3>1, <3>2 DEF PrevIn
  <2>4. CASE j > k + 1
    <3>1. /\ j - 1 \in 1..Len(p) /\ q[j] = p[j - 1] /\ q[j - 1] = p[j - 1 - 1]
          /\ j # 1 /\ j - 1 # 1 /\ k \in 1..Len(p) /\ j - 1 # k
      BY <2>4, <1>1, <1>4
    <3>2. p[j - 1] # p[k]
      BY <3>1, <1>1 DEF Distinctly
    <3>3. t.mem[q[j]].prev = PrevIn(p, j - 1)
      BY <3>1, <3>2, <1>2, <1>7
    <3> QED
      BY <3>1, <3>3 DEF PrevIn
  <2> QED
    BY <2>1, <2>2, <2>3, <2>4, <1>1, <1>4
<1>11. t.head = q[1] /\ t.tail = q[Len(q)] /\ Len(q) # 0
  <2>1. 1 \in 1..Len(q) /\ Len(q) \in 1..Len(q)
    BY <1>1, <1>4
  <2>2. q[1] = IF k = 1 THEN n ELSE p[1]
    BY <2>1, <1>4
  <2>3. q[Len(q)] = IF k = Len(p) + 1 THEN n ELSE p[Len(p)]
    BY <2>1, <1>1, <1>4
  <2> QED
    BY <2>1, <2>2, <2>3, <1>6
<1>12. IsList(t, q)
  <2>1. Nodes(q) \subseteq DOMAIN t.mem
    BY <1>1, <1>4, <1>6
  <2> QED
    BY <2>1, <1>3, <1>4, <1>6, <1>9, <1>10, <1>11 DEF IsList
<1>13. Frame(s, t, p, q)
  <2>1. DOMAIN t.mem \ Nodes(q) = DOMAIN s.mem \ Nodes(p)
    BY <1>4, <1>6
  <2>2. ASSUME NEW m \in DOMAIN s.mem \ Nodes(p) PROVE Same(s, t, m)
    <3>1. \A i \in 1..Len(p) : m # p[i]
      BY DEF Nodes
    <3>2. k # 1 => m # p[k - 1]
      <4>1. k # 1 => k - 1 \in 1..Len(p)
        BY <1>1
      <4> QED
        BY <4>1, <3>1
    <3>3. k # Len(p) + 1 => m # p[k]
      <4>1. k # Len(p) + 1 => k \in 1..Len(p)
        BY <1>1
      <4> QED
        BY <4>1, <3>1
    <3> QED
      BY <3>2, <3>3, <1>7 DEF Same
  <2> QED
    BY <2>1, <2>2 DEF Frame
<1> QED
  BY <1>6, <1>7, <1>8, <1>12, <1>13 DEF Grown

\* __addNodeAtFront() (397-407) links in at the first place.
LEMMA AddAtFrontIs ==
  ASSUME NEW s, NEW p, IsList(s, p), NEW n \in Node \ DOMAIN s.mem,
         NEW d \in Item, NEW c, c = NodeCreated(s, n, d)
  PROVE  LinkedIn(AddAtFront(c, n), c, p, 1, n)
<1> DEFINE t == AddAtFront(c, n)
<1>1. /\ ListRecord(s) /\ p \in Seq(Node) /\ Len(p) \in Nat
      /\ Nodes(p) \subseteq DOMAIN s.mem
      /\ s.head = IF Len(p) = 0 THEN Nil ELSE p[1]
      /\ s.tail = IF Len(p) = 0 THEN Nil ELSE p[Len(p)]
  BY DEF IsList
<1>2. /\ ListRecord(c) /\ DOMAIN c.mem = DOMAIN s.mem \cup {n}
      /\ c.head = s.head /\ c.tail = s.tail
      /\ c.mem[n].prev = Nil /\ c.mem[n].next = Nil
  BY <1>1, NodeCreatedIs
<1>3. CASE Len(p) = 0
  <2>1. t = SetEnds(c, n, n)
    BY <1>1, <1>2, <1>3 DEF AddAtFront, IsEmpty
  <2> HIDE DEF t
  <2>2. /\ ListRecord(t) /\ t.head = n /\ t.tail = n
        /\ t.length = c.length /\ t.mem = c.mem
    BY <2>1, <1>2, SetEndsIs
  <2>3. LinkedIn(t, c, p, 1, n)
    BY <2>2, <1>2, <1>3 DEF LinkedIn
  <2> QED
    BY <2>3 DEF t
<1>4. CASE Len(p) # 0
  <2> DEFINE u == SetNext(c, n, s.head)
             v == SetPrev(u, s.head, n)
  <2>1. /\ s.head = p[1] /\ s.tail = p[Len(p)] /\ p[1] \in Nodes(p)
        /\ s.head \in DOMAIN s.mem /\ s.head \in Node /\ s.head # Nil
        /\ s.head # n
    <3>1. 1 \in 1..Len(p)
      BY <1>1, <1>4
    <3> QED
      BY <3>1, <1>1, <1>4, NodeAssumption DEF Nodes
  <2>2. t = SetEnds(v, n, s.tail)
    <3>1. u.tail = s.tail /\ v.tail = s.tail
      <4>1. ListRecord(u) /\ u.tail = s.tail /\ DOMAIN u.mem = DOMAIN c.mem
        BY <2>1, <1>2, SetNextIs
      <4> HIDE DEF u
      <4> QED
        BY <4>1, <2>1, <1>2, SetPrevIs
    <3> QED
      BY <2>1, <1>2 DEF AddAtFront, IsEmpty
  <2>3. /\ ListRecord(u) /\ DOMAIN u.mem = DOMAIN c.mem
        /\ u.length = c.length
        /\ \A m \in DOMAIN c.mem :
              /\ u.mem[m].data = c.mem[m].data
              /\ u.mem[m].prev = c.mem[m].prev
              /\ u.mem[m].next = IF m = n THEN s.head ELSE c.mem[m].next
    BY <2>1, <1>2, SetNextIs
  <2> HIDE DEF u
  <2>4. /\ ListRecord(v) /\ DOMAIN v.mem = DOMAIN c.mem
        /\ v.length = c.length
        /\ \A m \in DOMAIN c.mem :
              /\ v.mem[m].data = u.mem[m].data
              /\ v.mem[m].next = u.mem[m].next
              /\ v.mem[m].prev = IF m = s.head THEN n ELSE u.mem[m].prev
    BY <2>1, <2>3, <1>2, SetPrevIs
  <2> HIDE DEF v, t
  <2>5. /\ ListRecord(t) /\ t.head = n /\ t.tail = s.tail
        /\ t.length = v.length /\ t.mem = v.mem
    BY <2>2, <2>4, SetEndsIs
  <2>6. LinkedIn(t, c, p, 1, n)
    BY <2>1, <2>3, <2>4, <2>5, <1>1, <1>2, <1>4 DEF LinkedIn
  <2> QED
    BY <2>6 DEF t
<1> QED
  BY <1>3, <1>4

\* __addNodeAtEnd() (409-419) links in at the last place.
LEMMA AddAtEndIs ==
  ASSUME NEW s, NEW p, IsList(s, p), NEW n \in Node \ DOMAIN s.mem,
         NEW d \in Item, NEW c, c = NodeCreated(s, n, d)
  PROVE  LinkedIn(AddAtEnd(c, n), c, p, Len(p) + 1, n)
<1> DEFINE t == AddAtEnd(c, n)
<1>1. /\ ListRecord(s) /\ p \in Seq(Node) /\ Len(p) \in Nat
      /\ Nodes(p) \subseteq DOMAIN s.mem
      /\ s.head = IF Len(p) = 0 THEN Nil ELSE p[1]
      /\ s.tail = IF Len(p) = 0 THEN Nil ELSE p[Len(p)]
  BY DEF IsList
<1>2. /\ ListRecord(c) /\ DOMAIN c.mem = DOMAIN s.mem \cup {n}
      /\ c.head = s.head /\ c.tail = s.tail
      /\ c.mem[n].prev = Nil /\ c.mem[n].next = Nil
  BY <1>1, NodeCreatedIs
<1>3. CASE Len(p) = 0
  <2>1. t = SetEnds(c, n, n)
    BY <1>1, <1>2, <1>3 DEF AddAtEnd, IsEmpty
  <2> HIDE DEF t
  <2>2. /\ ListRecord(t) /\ t.head = n /\ t.tail = n
        /\ t.length = c.length /\ t.mem = c.mem
    BY <2>1, <1>2, SetEndsIs
  <2>3. LinkedIn(t, c, p, Len(p) + 1, n)
    BY <2>2, <1>2, <1>3 DEF LinkedIn
  <2> QED
    BY <2>3 DEF t
<1>4. CASE Len(p) # 0
  <2> DEFINE u == SetPrev(c, n, s.tail)
             v == SetNext(u, s.tail, n)
  <2>1. /\ s.head = p[1] /\ s.tail = p[Len(p)] /\ p[Len(p)] \in Nodes(p)
        /\ s.tail \in DOMAIN s.mem /\ s.tail \in Node /\ s.tail # Nil
        /\ s.tail # n
    <3>1. Len(p) \in 1..Len(p)
      BY <1>1, <1>4
    <3> QED
      BY <3>1, <1>1, <1>4, NodeAssumption DEF Nodes
  <2>2. t = SetEnds(v, s.head, n)
    <3>1. u.head = s.head /\ v.head = s.head
      <4>1. ListRecord(u) /\ u.head = s.head /\ DOMAIN u.mem = DOMAIN c.mem
        BY <2>1, <1>2, SetPrevIs
      <4> HIDE DEF u
      <4> QED
        BY <4>1, <2>1, <1>2, SetNextIs
    <3> QED
      BY <2>1, <1>2 DEF AddAtEnd, IsEmpty
  <2>3. /\ ListRecord(u) /\ DOMAIN u.mem = DOMAIN c.mem
        /\ u.length = c.length
        /\ \A m \in DOMAIN c.mem :
              /\ u.mem[m].data = c.mem[m].data
              /\ u.mem[m].next = c.mem[m].next
              /\ u.mem[m].prev = IF m = n THEN s.tail ELSE c.mem[m].prev
    BY <2>1, <1>2, SetPrevIs
  <2> HIDE DEF u
  <2>4. /\ ListRecord(v) /\ DOMAIN v.mem = DOMAIN c.mem
        /\ v.length = c.length
        /\ \A m \in DOMAIN c.mem :
              /\ v.mem[m].data = u.mem[m].data
              /\ v.mem[m].prev = u.mem[m].prev
              /\ v.mem[m].next = IF m = s.tail THEN n ELSE u.mem[m].next
    BY <2>1, <2>3, <1>2, SetNextIs
  <2> HIDE DEF v, t
  <2>5. /\ ListRecord(t) /\ t.head = s.head /\ t.tail = n
        /\ t.length = v.length /\ t.mem = v.mem
    BY <2>2, <2>4, SetEndsIs
  <2>6. LinkedIn(t, c, p, Len(p) + 1, n)
    BY <2>1, <2>3, <2>4, <2>5, <1>1, <1>2, <1>4 DEF LinkedIn
  <2> QED
    BY <2>6 DEF t
<1> QED
  BY <1>3, <1>4

\* __insert() (429-435) between two nodes links in between them.
LEMMA AddBetweenIs ==
  ASSUME NEW s, NEW p, IsList(s, p), NEW n \in Node \ DOMAIN s.mem,
         NEW d \in Item, NEW c, c = NodeCreated(s, n, d), NEW k \in 2..Len(p)
  PROVE  LinkedIn(AddBetween(c, p[k], n), c, p, k, n)
<1> DEFINE b == p[k - 1]
           e == p[k]
           u == SetNext(c, b, n)
           v == SetPrev(u, n, b)
           w == SetNext(v, n, e)
           t == SetPrev(w, e, n)
<1>1. /\ ListRecord(s) /\ p \in Seq(Node) /\ Len(p) \in Nat
      /\ Nodes(p) \subseteq DOMAIN s.mem /\ Distinctly(p)
      /\ s.head = IF Len(p) = 0 THEN Nil ELSE p[1]
      /\ s.tail = IF Len(p) = 0 THEN Nil ELSE p[Len(p)]
  BY DEF IsList
<1>2. /\ ListRecord(c) /\ DOMAIN c.mem = DOMAIN s.mem \cup {n}
      /\ c.head = s.head /\ c.tail = s.tail
      /\ \A m \in DOMAIN s.mem : c.mem[m] = s.mem[m]
  BY <1>1, NodeCreatedIs
<1>3. /\ k \in 1..Len(p) /\ k - 1 \in 1..Len(p) /\ k # 1 /\ k # Len(p) + 1
      /\ Len(p) # 0
  BY <1>1
<1>4. /\ b \in DOMAIN c.mem /\ e \in DOMAIN c.mem /\ b # n /\ e # n /\ b # e
      /\ b \in Node /\ e \in Node /\ n \in DOMAIN c.mem
  BY <1>1, <1>2, <1>3 DEF Nodes, Distinctly
<1>5. c.mem[e].prev = b
  <2>1. s.mem[e].prev = PrevIn(p, k) /\ e \in DOMAIN s.mem
    BY <1>1, <1>3 DEF IsList, Nodes
  <2> QED
    BY <2>1, <1>2, <1>3 DEF PrevIn
<1>6. AddBetween(c, e, n) = t
  BY <1>5 DEF AddBetween
<1> HIDE DEF b, e
<1>7. /\ ListRecord(u) /\ DOMAIN u.mem = DOMAIN c.mem
      /\ u.head = c.head /\ u.tail = c.tail /\ u.length = c.length
      /\ \A m \in DOMAIN c.mem :
            /\ u.mem[m].data = c.mem[m].data
            /\ u.mem[m].prev = c.mem[m].prev
            /\ u.mem[m].next = IF m = b THEN n ELSE c.mem[m].next
  BY <1>2, <1>4, SetNextIs
<1> HIDE DEF u
<1>8. /\ ListRecord(v) /\ DOMAIN v.mem = DOMAIN c.mem
      /\ v.head = c.head /\ v.tail = c.tail /\ v.length = c.length
      /\ \A m \in DOMAIN c.mem :
            /\ v.mem[m].data = u.mem[m].data
            /\ v.mem[m].next = u.mem[m].next
            /\ v.mem[m].prev = IF m = n THEN b ELSE u.mem[m].prev
  BY <1>7, <1>4, SetPrevIs
<1> HIDE DEF v
<1>9. /\ ListRecord(w) /\ DOMAIN w.mem = DOMAIN c.mem
      /\ w.head = c.head /\ w.tail = c.tail /\ w.length = c.length
      /\ \A m \in DOMAIN c.mem :
            /\ w.mem[m].data = v.mem[m].data
            /\ w.mem[m].prev = v.mem[m].prev
            /\ w.mem[m].next = IF m = n THEN e ELSE v.mem[m].next
  BY <1>8, <1>4, SetNextIs
<1> HIDE DEF w
<1>10. /\ ListRecord(t) /\ DOMAIN t.mem = DOMAIN c.mem
       /\ t.head = c.head /\ t.tail = c.tail /\ t.length = c.length
       /\ \A m \in DOMAIN c.mem :
             /\ t.mem[m].data = w.mem[m].data
             /\ t.mem[m].next = w.mem[m].next
             /\ t.mem[m].prev = IF m = e THEN n ELSE w.mem[m].prev
  BY <1>9, <1>4, SetPrevIs
<1> HIDE DEF t
<1>11. \A m \in DOMAIN c.mem :
         /\ t.mem[m].data = c.mem[m].data
         /\ t.mem[m].next = IF m = n THEN e ELSE IF m = b THEN n
                            ELSE c.mem[m].next
         /\ t.mem[m].prev = IF m = e THEN n ELSE IF m = n THEN b
                            ELSE c.mem[m].prev
  BY <1>7, <1>8, <1>9, <1>10, <1>4
<1>12. LinkedIn(t, c, p, k, n)
  BY <1>1, <1>2, <1>3, <1>4, <1>10, <1>11 DEF LinkedIn, b, e
<1> QED
  BY <1>6, <1>12 DEF e

\* A node that is allocated is none of the lists'.
LEMMA NewListNodeIsNew ==
  ASSUME NEW s, FreeNodes(s.mem) # {}
  PROVE  NewListNode(s) \in Node \ DOMAIN s.mem
BY DEF FreeNodes, NewListNode

\* push_back() (480-485) puts a node behind the list.
LEMMA PushBackGrows ==
  ASSUME NEW s, NEW p, IsList(s, p), FreeNodes(s.mem) # {}, NEW d \in Item
  PROVE  Grown(s, p, ListPushedBack(s, d),
               PutIn(p, Len(p) + 1, NewListNode(s)), NewListNode(s), d)
<1>1. Len(p) + 1 \in 1..(Len(p) + 1)
  BY DEF IsList
<1> QED
  BY <1>1, NewListNodeIsNew, AddAtEndIs, LinkedInIsList DEF ListPushedBack

\* push_front() (487-492) puts a node before the list.
LEMMA PushFrontGrows ==
  ASSUME NEW s, NEW p, IsList(s, p), FreeNodes(s.mem) # {}, NEW d \in Item
  PROVE  Grown(s, p, ListPushedFront(s, d),
               PutIn(p, 1, NewListNode(s)), NewListNode(s), d)
<1>1. 1 \in 1..(Len(p) + 1)
  BY DEF IsList
<1> QED
  BY <1>1, NewListNodeIsNew, AddAtFrontIs, LinkedInIsList DEF ListPushedFront

\* Where insert() puts an element, that is given the i-th as its position.
PlaceFor(i, p) == IF i = Len(p) /\ i > 1 THEN i + 1 ELSE i

\* insert() at a position of the list.
LEMMA InsertGrows ==
  ASSUME NEW s, NEW p, IsList(s, p), FreeNodes(s.mem) # {}, NEW d \in Item,
         NEW i \in 1..Len(p)
  PROVE  Grown(s, p, Inserted(s, p[i], d),
               PutIn(p, PlaceFor(i, p), NewListNode(s)), NewListNode(s), d)
<1> DEFINE n == NewListNode(s)
           c == NodeCreated(s, n, d)
           k == PlaceFor(i, p)
<1>1. /\ Len(p) \in Nat /\ Len(p) # 0 /\ s.head = p[1] /\ s.tail = p[Len(p)]
      /\ 1 \in 1..Len(p) /\ Len(p) \in 1..Len(p) /\ ListRecord(s)
  BY DEF IsList
<1>2. (p[i] = s.head <=> i = 1) /\ (p[i] = s.tail <=> i = Len(p))
  BY <1>1 DEF IsList, Distinctly
<1>3. n \in Node \ DOMAIN s.mem
  BY NewListNodeIsNew
<1> HIDE DEF n
<1>4. c.head = s.head /\ c.tail = s.tail
  BY <1>1, <1>3, NodeCreatedIs
<1>5. k \in 1..(Len(p) + 1)
  BY <1>1 DEF PlaceFor
<1>6. LinkedIn(Placed(c, p[i], n), c, p, k, n)
  <2>1. CASE i = 1
    <3>1. Placed(c, p[i], n) = AddAtFront(c, n) /\ k = 1
      BY <2>1, <1>2, <1>4 DEF Placed, PlaceFor
    <3> QED
      BY <3>1, <1>3, AddAtFrontIs
  <2>2. CASE i # 1 /\ i = Len(p)
    <3>1. Placed(c, p[i], n) = AddAtEnd(c, n) /\ k = Len(p) + 1
      BY <2>2, <1>2, <1>4 DEF Placed, PlaceFor
    <3> QED
      BY <3>1, <1>3, AddAtEndIs
  <2>3. CASE i # 1 /\ i # Len(p)
    <3>1. Placed(c, p[i], n) = AddBetween(c, p[i], n) /\ k = i
      BY <2>3, <1>2, <1>4 DEF Placed, PlaceFor
    <3>2. i \in 2..Len(p)
      BY <2>3, <1>1
    <3> QED
      BY <3>1, <3>2, <1>3, AddBetweenIs
  <2> QED
    BY <2>1, <2>2, <2>3
<1>7. Grown(s, p, Placed(c, p[i], n), PutIn(p, k, n), n, d)
  BY <1>3, <1>5, <1>6, LinkedInIsList
<1> QED
  BY <1>7 DEF Inserted, n

\* insert() in an empty list, at end().
LEMMA InsertInEmpty ==
  ASSUME NEW s, NEW p, IsList(s, p), Len(p) = 0, FreeNodes(s.mem) # {},
         NEW d \in Item
  PROVE  Grown(s, p, Inserted(s, Nil, d), PutIn(p, 1, NewListNode(s)),
               NewListNode(s), d)
<1>1. s.head = Nil /\ ListRecord(s)
  BY DEF IsList
<1>2. NodeCreated(s, NewListNode(s), d).head = Nil
  <2>1. NewListNode(s) \in Node
    BY NewListNodeIsNew
  <2> QED
    BY <1>1, <2>1, NodeCreatedIs
<1>3. Inserted(s, Nil, d) = ListPushedFront(s, d)
  BY <1>2 DEF Inserted, Placed, ListPushedFront
<1> QED
  BY <1>3, PushFrontGrows

\* How the links are when the i-th node of p was taken out.
LinkedOut(u, s, p, i) ==
  /\ ListRecord(u)
  /\ DOMAIN u.mem = DOMAIN s.mem
  /\ u.length = s.length
  /\ u.head = IF Len(p) = 1 THEN Nil ELSE IF i = 1 THEN p[2] ELSE p[1]
  /\ u.tail = IF Len(p) = 1 THEN Nil
              ELSE IF i = Len(p) THEN p[i - 1] ELSE p[Len(p)]
  /\ \A m \in DOMAIN s.mem \ {p[i]} :
       /\ u.mem[m].data = s.mem[m].data
       /\ u.mem[m].next = IF i # 1 /\ m = p[i - 1] THEN NextIn(p, i)
                          ELSE s.mem[m].next
       /\ u.mem[m].prev = IF i # Len(p) /\ m = p[i + 1] THEN PrevIn(p, i)
                          ELSE s.mem[m].prev

\* __remove() (368-392) links the neighbours of the node with one another.
LEMMA TakenOutIs ==
  ASSUME NEW s, NEW p, IsList(s, p), NEW i \in 1..Len(p),
         NEW u, u = TakenOut(s, p[i])
  PROVE  LinkedOut(u, s, p, i)
<1>1. /\ Len(p) \in Nat /\ Len(p) # 0 /\ s.head = p[1] /\ s.tail = p[Len(p)]
      /\ 1 \in 1..Len(p) /\ Len(p) \in 1..Len(p) /\ ListRecord(s)
      /\ p \in Seq(Node) /\ Distinctly(p)
  BY DEF IsList
<1>2. (p[i] = s.head <=> i = 1) /\ (p[i] = s.tail <=> i = Len(p))
  BY <1>1 DEF Distinctly
<1>3. \A k \in 1..Len(p) : /\ s.mem[p[k]].next = NextIn(p, k)
                           /\ s.mem[p[k]].prev = PrevIn(p, k)
                           /\ p[k] \in DOMAIN s.mem
                           /\ p[k] = p[i] => k = i
                           /\ p[k] \in Node
  BY <1>1 DEF IsList, Nodes, Distinctly
<1>4. CASE Len(p) = 1
  <2>1. i = 1
    BY <1>4
  <2>2. u = SetEnds(s, Nil, Nil)
    BY <2>1, <1>2, <1>4 DEF TakenOut
  <2>3. ListRecord(u) /\ u.head = Nil /\ u.tail = Nil
        /\ u.length = s.length /\ u.mem = s.mem
    BY <2>2, <1>1, SetEndsIs
  <2> QED
    BY <2>1, <2>3, <1>4 DEF LinkedOut
<1>5. CASE i = 1 /\ Len(p) # 1
  <2> DEFINE e == SetEnds(s, p[2], s.tail)
  <2>1. /\ 2 \in 1..Len(p) /\ NextIn(p, i) = p[2] /\ PrevIn(p, i) = Nil
        /\ i + 1 = 2 /\ p[2] # p[i]
    <3>1. 2 \in 1..Len(p) /\ i + 1 = 2 /\ i # Len(p) /\ i # 2
      BY <1>1, <1>5
    <3>2. p[2] # p[i]
      BY <3>1, <1>3
    <3> QED
      BY <3>1, <3>2, <1>5 DEF NextIn, PrevIn
  <2>2. u = SetPrev(e, p[2], Nil)
    BY <2>1, <1>2, <1>3, <1>5 DEF TakenOut
  <2>3. ListRecord(e) /\ e.head = p[2] /\ e.tail = s.tail
        /\ e.length = s.length /\ e.mem = s.mem
    BY <1>1, SetEndsIs
  <2> HIDE DEF e
  <2>4. /\ ListRecord(u) /\ DOMAIN u.mem = DOMAIN s.mem
        /\ u.head = p[2] /\ u.tail = s.tail /\ u.length = s.length
        /\ \A m \in DOMAIN s.mem :
             /\ u.mem[m].data = s.mem[m].data
             /\ u.mem[m].next = s.mem[m].next
             /\ u.mem[m].prev = IF m = p[2] THEN Nil ELSE s.mem[m].prev
    BY <2>1, <2>2, <2>3, <1>3, SetPrevIs
  <2> QED
    BY <2>1, <2>4, <1>1, <1>5 DEF LinkedOut
<1>6. CASE i # 1 /\ i = Len(p)
  <2> DEFINE e == SetEnds(s, s.head, p[i - 1])
  <2>1. /\ i - 1 \in 1..Len(p) /\ NextIn(p, i) = Nil /\ PrevIn(p, i) = p[i - 1]
        /\ p[i - 1] # p[i] /\ Len(p) # 1
    BY <1>1, <1>3, <1>6 DEF NextIn, PrevIn
  <2>2. u = SetNext(e, p[i - 1], Nil)
    BY <2>1, <1>2, <1>3, <1>6 DEF TakenOut
  <2>3. ListRecord(e) /\ e.head = s.head /\ e.tail = p[i - 1]
        /\ e.length = s.length /\ e.mem = s.mem
    BY <1>1, SetEndsIs
  <2> HIDE DEF e
  <2>4. /\ ListRecord(u) /\ DOMAIN u.mem = DOMAIN s.mem
        /\ u.head = s.head /\ u.tail = p[i - 1] /\ u.length = s.length
        /\ \A m \in DOMAIN s.mem :
             /\ u.mem[m].data = s.mem[m].data
             /\ u.mem[m].prev = s.mem[m].prev
             /\ u.mem[m].next = IF m = p[i - 1] THEN Nil ELSE s.mem[m].next
    BY <2>1, <2>2, <2>3, <1>3, SetNextIs
  <2> QED
    BY <2>1, <2>4, <1>1, <1>6 DEF LinkedOut
<1>7. CASE i # 1 /\ i # Len(p)
  <2> DEFINE e == SetNext(s, p[i - 1], p[i + 1])
  <2>1. /\ i - 1 \in 1..Len(p) /\ i + 1 \in 1..Len(p) /\ Len(p) # 1
        /\ NextIn(p, i) = p[i + 1] /\ PrevIn(p, i) = p[i - 1]
        /\ p[i - 1] # p[i] /\ p[i + 1] # p[i]
    <3>1. /\ i - 1 \in 1..Len(p) /\ i + 1 \in 1..Len(p) /\ Len(p) # 1
          /\ i - 1 # i /\ i + 1 # i
      BY <1>1, <1>7
    <3>2. p[i - 1] # p[i] /\ p[i + 1] # p[i]
      BY <3>1, <1>3
    <3> QED
      BY <3>1, <3>2, <1>7 DEF NextIn, PrevIn
  <2>2. u = SetPrev(e, p[i + 1], p[i - 1])
    BY <2>1, <1>2, <1>3, <1>7 DEF TakenOut
  <2>3. /\ ListRecord(e) /\ DOMAIN e.mem = DOMAIN s.mem
        /\ e.head = s.head /\ e.tail = s.tail /\ e.length = s.length
        /\ \A m \in DOMAIN s.mem :
             /\ e.mem[m].data = s.mem[m].data
             /\ e.mem[m].prev = s.mem[m].prev
             /\ e.mem[m].next = IF m = p[i - 1] THEN p[i + 1]
                                ELSE s.mem[m].next
    BY <2>1, <1>1, <1>3, SetNextIs
  <2> HIDE DEF e
  <2>4. /\ ListRecord(u) /\ DOMAIN u.mem = DOMAIN s.mem
        /\ u.head = s.head /\ u.tail = s.tail /\ u.length = s.length
        /\ \A m \in DOMAIN s.mem :
             /\ u.mem[m].data = e.mem[m].data
             /\ u.mem[m].next = e.mem[m].next
             /\ u.mem[m].prev = IF m = p[i + 1] THEN p[i - 1]
                                ELSE e.mem[m].prev
    BY <2>1, <2>2, <2>3, <1>3, SetPrevIs
  <2> QED
    BY <2>1, <2>3, <2>4, <1>1, <1>7 DEF LinkedOut
<1> QED
  BY <1>4, <1>5, <1>6, <1>7

\* The list of the nodes p is one of the nodes q, some of those.
Shrunk(s, p, t, q) ==
  /\ IsList(t, q)
  /\ Frame(s, t, p, q)
  /\ Nodes(q) \subseteq Nodes(p)
  /\ \A m \in Nodes(q) : t.mem[m].data = s.mem[m].data
  /\ \A i, j \in 1..Len(q) : i <= j =>
       \E k, l \in 1..Len(p) : k <= l /\ p[k] = q[i] /\ p[l] = q[j]

\* A node that is removed leaves the list of the others.
LEMMA RemoveShrinks ==
  ASSUME NEW s, NEW p, IsList(s, p), NEW i \in 1..Len(p),
         NEW u, u = TakenOut(s, p[i]), NEW t, t = NodeReleased(u, p[i]),
         NEW q, q = Without(p, i)
  PROVE  /\ Shrunk(s, p, t, q)
         /\ Len(q) = Len(p) - 1 /\ Nodes(q) = Nodes(p) \ {p[i]}
<1>1. /\ Len(p) \in Nat /\ s.length = Len(p) /\ p \in Seq(Node)
      /\ Distinctly(p) /\ Nodes(p) \subseteq DOMAIN s.mem
  BY DEF IsList
<1>2. \A k \in 1..Len(p) : /\ s.mem[p[k]].next = NextIn(p, k)
                           /\ s.mem[p[k]].prev = PrevIn(p, k)
                           /\ p[k] \in DOMAIN s.mem
  BY DEF IsList, Nodes
<1>3. q \in Seq(Node) /\ IsWithout(q, p, i)
  BY <1>1, WithoutIs
<1>4. /\ Len(q) = Len(p) - 1
      /\ Distinctly(q)
      /\ \A j \in 1..Len(q) : q[j] = IF j < i THEN p[j] ELSE p[j + 1]
      /\ Nodes(q) = Nodes(p) \ {p[i]}
  BY <1>3 DEF IsWithout, Nodes
<1>5. LinkedOut(u, s, p, i)
  BY TakenOutIs
<1>6. /\ ListRecord(t)
      /\ DOMAIN t.mem = DOMAIN s.mem \ {p[i]}
      /\ t.length = s.length - 1
      /\ t.head = IF Len(p) = 1 THEN Nil ELSE IF i = 1 THEN p[2] ELSE p[1]
      /\ t.tail = IF Len(p) = 1 THEN Nil
                  ELSE IF i = Len(p) THEN p[i - 1] ELSE p[Len(p)]
      /\ \A m \in DOMAIN s.mem \ {p[i]} : t.mem[m] = u.mem[m]
  BY <1>5, NodeReleasedIs DEF LinkedOut
<1>7. \A m \in DOMAIN s.mem \ {p[i]} :
        /\ t.mem[m].data = s.mem[m].data
        /\ t.mem[m].next = IF i # 1 /\ m = p[i - 1] THEN NextIn(p, i)
                           ELSE s.mem[m].next
        /\ t.mem[m].prev = IF i # Len(p) /\ m = p[i + 1] THEN PrevIn(p, i)
                           ELSE s.mem[m].prev
  BY <1>5, <1>6 DEF LinkedOut
<1>8. \A j \in 1..Len(q) : q[j] \in DOMAIN s.mem \ {p[i]}
  <2>1. \A j \in 1..Len(q) : q[j] \in Nodes(q)
    BY DEF Nodes
  <2> QED
    BY <2>1, <1>1, <1>4
<1>9. ASSUME NEW j \in 1..Len(q) PROVE t.mem[q[j]].next = NextIn(q, j)
  <2>1. CASE j >= i
    <3>1. j + 1 \in 1..Len(p) /\ q[j] = p[j + 1] /\ j + 1 # i - 1
      BY <2>1, <1>1, <1>4
    <3>2. i # 1 => i - 1 \in 1..Len(p) /\ p[j + 1] # p[i - 1]
      BY <3>1, <1>1 DEF Distinctly
    <3>3. t.mem[q[j]].next = NextIn(p, j + 1)
      BY <3>1, <3>2, <1>2, <1>7, <1>8
    <3>4. j # Len(q) => q[j + 1] = p[j + 1 + 1]
      BY <2>1, <1>1, <1>4
    <3> QED
      BY <3>3, <3>4, <1>1, <1>4 DEF NextIn
  <2>2. CASE j = i - 1
    <3>1. q[j] = p[i - 1] /\ i # 1 /\ j \in 1..Len(p)
      BY <2>2, <1>1, <1>4
    <3>2. t.mem[q[j]].next = NextIn(p, i)
      BY <3>1, <1>7, <1>8
    <3>3. j # Len(q) => q[j + 1] = p[i + 1]
      BY <2>2, <1>1, <1>4
    <3> QED
      BY <2>2, <3>2, <3>3, <1>1, <1>4 DEF NextIn
  <2>3. CASE j < i - 1
    <3>1. /\ j \in 1..Len(p) /\ i - 1 \in 1..Len(p) /\ q[j] = p[j]
          /\ q[j + 1] = p[j + 1] /\ j # Len(q) /\ j # Len(p) /\ j # i - 1
      BY <2>3, <1>1, <1>4
    <3>2. p[j] # p[i - 1]
      BY <3>1, <1>1 DEF Distinctly
    <3>3. t.mem[q[j]].next = NextIn(p, j)
      BY <3>1, <3>2, <1>2, <1>7, <1>8
    <3> QED
      BY <3>1, <3>3 DEF NextIn
  <2> QED
    BY <2>1, <2>2, <2>3, <1>1, <1>4
<1>10. ASSUME NEW j \in 1..Len(q) PROVE t.mem[q[j]].prev = PrevIn(q, j)
  <2>1. CASE j < i
    <3>1. j \in 1..Len(p) /\ q[j] = p[j]
      BY <2>1, <1>1, <1>4
    <3>2. i # Len(p) => i + 1 \in 1..Len(p) /\ p[j] # p[i + 1]
      <4>1. i # Len(p) => i + 1 \in 1..Len(p) /\ j # i + 1
        <5>1. Len(p) \in Nat /\ i \in 1..Len(p) /\ j \in Int
          BY <1>1, <1>4
        <5> QED
          BY <5>1, <2>1
      <4> QED
        BY <3>1, <4>1, <1>1 DEF Distinctly
    <3>3. t.mem[q[j]].prev = PrevIn(p, j)
      BY <3>1, <3>2, <1>2, <1>7, <1>8
    <3>4. j # 1 => q[j - 1] = p[j - 1]
      BY <2>1, <1>1, <1>4
    <3> QED
      BY <3>3, <3>4 DEF PrevIn
  <2>2. CASE j = i
    <3>1. q[j] = p[i + 1] /\ i # Len(p)
      BY <2>2, <1>1, <1>4
    <3>2. t.mem[q[j]].prev = PrevIn(p, i)
      BY <3>1, <1>7, <1>8
    <3>3. j # 1 => q[j - 1] = p[i - 1]
      BY <2>2, <1>1, <1>4
    <3> QED
      BY <2>2, <3>2, <3>3 DEF PrevIn
  <2>3. CASE j > i
    <3>1. /\ j + 1 \in 1..Len(p) /\ i + 1 \in 1..Len(p) /\ q[j] = p[j + 1]
          /\ q[j - 1] = p[j] /\ j # 1 /\ j + 1 # i + 1 /\ j + 1 # 1
      <4>1. j - 1 \in 1..Len(q) /\ ~ (j - 1 < i) /\ j - 1 + 1 = j /\ ~ (j < i)
        BY <2>3, <1>1, <1>4
      <4>2. q[j - 1] = p[j]
        BY <4>1, <1>4
      <4> QED
        BY <4>1, <4>2, <2>3, <1>1, <1>4
    <3>2. p[j + 1] # p[i + 1]
      BY <3>1, <1>1 DEF Distinctly
    <3>3. t.mem[q[j]].prev = PrevIn(p, j + 1)
      BY <3>1, <3>2, <1>2, <1>7, <1>8, SMTT(20)
    <3>4. j + 1 - 1 = j
      OBVIOUS
    <3> QED
      BY <3>1, <3>3, <3>4 DEF PrevIn
  <2> QED
    BY <2>1, <2>2, <2>3, <1>1, <1>4
<1>11. /\ t.head = IF Len(q) = 0 THEN Nil ELSE q[1]
       /\ t.tail = IF Len(q) = 0 THEN Nil ELSE q[Len(q)]
  <2>1. CASE Len(p) = 1
    BY <2>1, <1>4, <1>6
  <2>2. CASE Len(p) # 1
    <3>1. 1 \in 1..Len(q) /\ Len(q) \in 1..Len(q) /\ Len(q) # 0
      BY <2>2, <1>1, <1>4
    <3>2. q[1] = IF i = 1 THEN p[2] ELSE p[1]
      BY <3>1, <1>1, <1>4
    <3>3. Len(q) + 1 = Len(p) /\ (i = Len(p) => Len(q) = i - 1)
          /\ (Len(q) < i <=> i = Len(p))
      BY <1>1, <1>4
    <3>4. q[Len(q)] = IF i = Len(p) THEN p[i - 1] ELSE p[Len(p)]
      BY <3>1, <3>3, <1>4, ZenonT(20)
    <3> QED
      BY <2>2, <3>1, <3>2, <3>4, <1>6
  <2> QED
    BY <2>1, <2>2
<1>12. IsList(t, q)
  <2>1. Nodes(q) \subseteq DOMAIN t.mem /\ t.length = Len(q)
    BY <1>1, <1>4, <1>6
  <2> QED
    BY <2>1, <1>3, <1>4, <1>6, <1>9, <1>10, <1>11 DEF IsList
<1>13. Frame(s, t, p, q)
  <2>1. p[i] \in Nodes(p)
    BY DEF Nodes
  <2>2. DOMAIN t.mem \ Nodes(q) = DOMAIN s.mem \ Nodes(p)
    BY <2>1, <1>1, <1>4, <1>6
  <2>3. ASSUME NEW m \in DOMAIN s.mem \ Nodes(p) PROVE Same(s, t, m)
    <3>1. \A k \in 1..Len(p) : m # p[k]
      BY DEF Nodes
    <3>2. (i # 1 => i - 1 \in 1..Len(p)) /\ (i # Len(p) => i + 1 \in 1..Len(p))
      BY <1>1
    <3> QED
      BY <3>1, <3>2, <1>7 DEF Same
  <2> QED
    BY <2>2, <2>3 DEF Frame
<1>14. ASSUME NEW j \in 1..Len(q), NEW k \in 1..Len(q), j <= k
       PROVE  \E a, b \in 1..Len(p) : a <= b /\ p[a] = q[j] /\ p[b] = q[k]
  <2> DEFINE a == IF j < i THEN j ELSE j + 1
             b == IF k < i THEN k ELSE k + 1
  <2>1. a \in 1..Len(p) /\ b \in 1..Len(p) /\ a <= b
    BY <1>1, <1>4, <1>14
  <2>2. p[a] = q[j] /\ p[b] = q[k]
    BY <1>4
  <2> QED
    BY <2>1, <2>2
<1>15. \A m \in Nodes(q) : t.mem[m].data = s.mem[m].data
  BY <1>1, <1>4, <1>7
<1> QED
  BY <1>4, <1>12, <1>13, <1>14, <1>15 DEF Shrunk

\* A list has as many nodes as elements, and no more than there are.
LEMMA ListCounted ==
  ASSUME NEW p \in Seq(Node), Distinctly(p)
  PROVE  /\ IsFiniteSet(Nodes(p)) /\ Cardinality(Nodes(p)) = Len(p)
         /\ Len(p) <= Cardinality(Node)
         /\ Len(p) \in Nat /\ Cardinality(Node) \in Nat
<1> DEFINE R == {p[i] : i \in 1..Len(p)}
<1>1. Nodes(p) = R /\ R \subseteq Node /\ Len(p) \in Nat
  BY DEF Nodes
<1>2. p \in Bijection(1..Len(p), R)
  <2>1. p \in [1..Len(p) -> R]
    OBVIOUS
  <2>2. \A i, j \in 1..Len(p) : p[i] = p[j] => i = j
    BY DEF Distinctly
  <2> QED
    BY <2>1, <2>2 DEF Bijection, Injection, Surjection, IsInjective
<1>3. Cardinality(R) = Len(p)
  BY <1>1, <1>2, FS_CountingElements DEF ExistsBijection
<1>4. /\ Cardinality(R) <= Cardinality(Node) /\ Cardinality(Node) \in Nat
      /\ IsFiniteSet(R)
  BY <1>1, FS_Subset, FS_CardinalityType, NodeAssumption
<1> QED
  BY <1>1, <1>3, <1>4, ZenonT(20)

\* A walk along links that lead from each node of p to the next visits p.
LEMMA WalkIs ==
  ASSUME NEW p \in Seq(Node), Distinctly(p), NEW link,
         \A i \in 1..Len(p) : link[p[i]] = NextIn(p, i),
         NEW first, first = IF Len(p) = 0 THEN Nil ELSE p[1]
  PROVE  /\ \A k \in 0..Cardinality(Node) :
              Walk(first, link)[k] = IF k < Len(p) THEN p[k + 1] ELSE Nil
         /\ Met(Walk(first, link)) = p
<1> DEFINE N == Cardinality(Node)
           n == Len(p)
           w == Walk(first, link)
           v(k) == IF k < n THEN p[k + 1] ELSE Nil
           Step(h, i) == IF i = 0 THEN first
                         ELSE IF h[i - 1] = Nil THEN Nil ELSE link[h[i - 1]]
<1>1. N \in Nat /\ n \in Nat /\ n <= N
  BY ListCounted
<1>2. \A i \in 1..n : p[i] \in Node /\ p[i] # Nil /\ link[p[i]] = NextIn(p, i)
  BY NodeAssumption
<1>3. v(0) = first
  BY <1>1
<1>4. \A k \in 1..N : v(k) = IF v(k - 1) = Nil THEN Nil ELSE link[v(k - 1)]
  <2> SUFFICES ASSUME NEW k \in 1..N
               PROVE  v(k) = IF v(k - 1) = Nil THEN Nil ELSE link[v(k - 1)]
    OBVIOUS
  <2>1. CASE k - 1 < n
    <3>1. k \in 1..n /\ v(k - 1) = p[k]
      BY <2>1, <1>1
    <3>2. link[p[k]] = NextIn(p, k) /\ p[k] # Nil
      BY <3>1, <1>2
    <3>3. NextIn(p, k) = v(k)
      BY <3>1, <1>1 DEF NextIn
    <3> QED
      BY <3>1, <3>2, <3>3
  <2>2. CASE ~ (k - 1 < n)
    BY <2>2, <1>1
  <2> QED
    BY <2>1, <2>2
<1>5. \E h : h = [i \in 0..N |-> Step(h, i)]
  <2> DEFINE h == [i \in 0..N |-> v(i)]
  <2> HIDE DEF v
  <2>1. ASSUME NEW i \in 0..N PROVE h[i] = Step(h, i)
    <3>1. CASE i = 0
      BY <3>1, <1>3
    <3>2. CASE i # 0
      <4>1. i \in 1..N /\ i - 1 \in 0..N
        BY <3>2, <1>1
      <4> QED
        BY <4>1, <3>2, <1>4
    <3> QED
      BY <3>1, <3>2
  <2>2. h = [i \in 0..N |-> h[i]]
    OBVIOUS
  <2> HIDE DEF h
  <2>3. h = [i \in 0..N |-> Step(h, i)]
    BY <2>1, <2>2
  <2> QED
    BY <2>3
<1>6. w = CHOOSE h : h = [i \in 0..N |-> Step(h, i)]
  BY Zenon DEF Walk
<1>7. w = [i \in 0..N |-> Step(w, i)]
  <2> HIDE DEF Step, N, w
  <2> QED
    BY <1>5, <1>6, Zenon
<1> HIDE DEF w
<1>8. w[0] = first /\ \A k \in 1..N : w[k] = IF w[k - 1] = Nil THEN Nil
                                             ELSE link[w[k - 1]]
  BY <1>7, <1>1
<1> HIDE DEF v, n, N
<1> DEFINE T == {k \in Nat : k <= N => w[k] = v(k)}
<1>9. 0 \in T
  BY <1>3, <1>8
<1>10. ASSUME NEW k \in T PROVE k + 1 \in T
  <2> SUFFICES ASSUME k + 1 <= N PROVE w[k + 1] = v(k + 1)
    OBVIOUS
  <2>1. k + 1 \in 1..N /\ k + 1 - 1 = k /\ w[k] = v(k)
    BY <1>1
  <2> QED
    BY <2>1, <1>4, <1>8
<1>11. T = Nat
  <2> HIDE DEF T
  <2> QED
    BY <1>9, <1>10, Induct DEF T
<1>12. \A k \in 0..N : w[k] = IF k < n THEN p[k + 1] ELSE Nil
  BY <1>11, <1>1 DEF v
<1>13. {j \in 1..(N + 1) : w[j - 1] # Nil} = 1..n
  BY <1>12, <1>2, <1>1
<1>14. Met(w) = [i \in 1..n |-> w[i - 1]]
  BY <1>13 DEF Met, N
<1>15. \A i \in 1..n : w[i - 1] = p[i]
  BY <1>12, <1>1
<1>16. p = [i \in 1..n |-> p[i]]
  BY DEF n
<1> QED
  BY <1>12, <1>14, <1>15, <1>16 DEF w, n, N

\* next_ leads from head_ over the nodes of the list.
LEMMA AheadIs ==
  ASSUME NEW s, NEW p, IsList(s, p)
  PROVE  /\ \A k \in 0..Cardinality(Node) :
              Ahead(s)[k] = IF k < Len(p) THEN p[k + 1] ELSE Nil
         /\ ListNodes(s) = p
         /\ Members(s) = Nodes(p)
         /\ Items(s) = [i \in 1..Len(p) |-> s.mem[p[i]].data]
<1> DEFINE link == [n \in DOMAIN s.mem |-> s.mem[n].next]
<1>1. /\ p \in Seq(Node) /\ Distinctly(p) /\ DOMAIN p = 1..Len(p)
      /\ s.head = IF Len(p) = 0 THEN Nil ELSE p[1]
  BY DEF IsList
<1>2. \A i \in 1..Len(p) : link[p[i]] = NextIn(p, i)
  BY DEF IsList, Nodes
<1>3. Ahead(s) = Walk(s.head, link)
  BY DEF Ahead
<1> HIDE DEF link
<1>4. /\ \A k \in 0..Cardinality(Node) :
           Ahead(s)[k] = IF k < Len(p) THEN p[k + 1] ELSE Nil
      /\ ListNodes(s) = p
  <2>1. /\ \A k \in 0..Cardinality(Node) :
             Walk(s.head, link)[k] = IF k < Len(p) THEN p[k + 1] ELSE Nil
        /\ Met(Walk(s.head, link)) = p
    BY <1>1, <1>2, WalkIs
  <2> QED
    BY <1>3, <2>1 DEF ListNodes
<1>5. Members(s) = Nodes(p) /\ Items(s) = [i \in 1..Len(p) |-> s.mem[p[i]].data]
  BY <1>1, <1>4 DEF Members, Items, Nodes
<1> QED
  BY <1>4, <1>5

\* prev_ leads from tail_ back over the nodes of the list.
LEMMA BehindIs ==
  ASSUME NEW s, NEW p, IsList(s, p)
  PROVE  /\ \A k \in 0..Cardinality(Node) :
              Behind(s)[k] = IF k < Len(p) THEN p[Len(p) - k] ELSE Nil
         /\ Met(Behind(s)) = [i \in 1..Len(p) |-> p[Len(p) + 1 - i]]
<1> DEFINE link == [n \in DOMAIN s.mem |-> s.mem[n].prev]
           q == [i \in 1..Len(p) |-> p[Len(p) + 1 - i]]
<1>1. /\ p \in Seq(Node) /\ Distinctly(p) /\ Len(p) \in Nat
      /\ s.tail = IF Len(p) = 0 THEN Nil ELSE p[Len(p)]
      /\ Cardinality(Node) \in Nat
  BY ListCounted DEF IsList
<1>2. \A i \in 1..Len(p) : Len(p) + 1 - i \in 1..Len(p)
  BY <1>1
<1>3. q \in Seq(Node) /\ Len(q) = Len(p)
      /\ \A i \in 1..Len(p) : q[i] = p[Len(p) + 1 - i]
  BY <1>1, <1>2
<1>4. \A i \in 1..Len(p) : link[p[i]] = PrevIn(p, i)
  BY DEF IsList, Nodes
<1>5. Behind(s) = Walk(s.tail, link)
  BY DEF Behind
<1> HIDE DEF link, q
<1>6. Distinctly(q)
  <2> SUFFICES ASSUME NEW i \in 1..Len(q), NEW j \in 1..Len(q), q[i] = q[j]
               PROVE  i = j
    BY DEF Distinctly
  <2>1. p[Len(p) + 1 - i] = p[Len(p) + 1 - j]
    BY <1>3
  <2>2. Len(p) + 1 - i \in 1..Len(p) /\ Len(p) + 1 - j \in 1..Len(p)
    BY <1>2, <1>3
  <2>3. Len(p) + 1 - i = Len(p) + 1 - j
    BY <2>1, <2>2, <1>1 DEF Distinctly
  <2> QED
    BY <2>3, <1>1, <1>3
<1>7. ASSUME NEW i \in 1..Len(q) PROVE link[q[i]] = NextIn(q, i)
  <2> DEFINE j == Len(p) + 1 - i
  <2>1. j \in 1..Len(p) /\ q[i] = p[j] /\ (j = 1 <=> i = Len(q))
    BY <1>1, <1>3
  <2>2. i # Len(q) => q[i + 1] = p[j - 1]
    <3>1. i # Len(q) => i + 1 \in 1..Len(p) /\ Len(p) + 1 - (i + 1) = j - 1
      BY <1>1, <1>3
    <3> QED
      BY <3>1, <1>3
  <2> QED
    BY <2>1, <2>2, <1>4 DEF NextIn, PrevIn
<1>8. s.tail = IF Len(q) = 0 THEN Nil ELSE q[1]
  <2>1. Len(p) # 0 => 1 \in 1..Len(p) /\ Len(p) + 1 - 1 = Len(p)
    BY <1>1
  <2> QED
    BY <2>1, <1>1, <1>3
<1>9. /\ \A k \in 0..Cardinality(Node) :
           Behind(s)[k] = IF k < Len(q) THEN q[k + 1] ELSE Nil
      /\ Met(Behind(s)) = q
  <2>1. /\ \A k \in 0..Cardinality(Node) :
             Walk(s.tail, link)[k] = IF k < Len(q) THEN q[k + 1] ELSE Nil
        /\ Met(Walk(s.tail, link)) = q
    BY <1>3, <1>6, <1>7, <1>8, WalkIs
  <2> QED
    BY <1>5, <2>1
<1>10. \A k \in 0..Cardinality(Node) : k < Len(p) => q[k + 1] = p[Len(p) - k]
  <2> SUFFICES ASSUME NEW k \in 0..Cardinality(Node), k < Len(p)
               PROVE  q[k + 1] = p[Len(p) - k]
    OBVIOUS
  <2>1. k + 1 \in 1..Len(p) /\ Len(p) + 1 - (k + 1) = Len(p) - k
    BY <1>1
  <2> QED
    BY <2>1, <1>3
<1> QED
  BY <1>3, <1>9, <1>10 DEF q

\* __find() compares the first and the last node, and so on, but not the one
\* in the middle.
LEMMA ComparedIs ==
  ASSUME NEW s, NEW p, IsList(s, p)
  PROVE  Compared(s) = {k \in 0..Cardinality(Node) : 2 * k + 2 <= Len(p)}
<1> DEFINE N == Cardinality(Node)
           n == Len(p)
<1>1. /\ n \in Nat /\ N \in Nat /\ n <= N
      /\ \A i \in 1..n : p[i] \in Node /\ p[i] # Nil
      /\ \A i, j \in 1..n : p[i] = p[j] => i = j
  BY ListCounted, NodeAssumption DEF IsList, Distinctly
<1>2. \A k \in 0..N : /\ Ahead(s)[k] = IF k < n THEN p[k + 1] ELSE Nil
                      /\ Behind(s)[k] = IF k < n THEN p[n - k] ELSE Nil
  BY AheadIs, BehindIs
<1> HIDE DEF N, n
<1>3. ASSUME NEW k \in 0..N, 2 * k + 2 <= n,
             NEW j \in 0..k
      PROVE  /\ Ahead(s)[j] # Behind(s)[j]
             /\ j < k => Ahead(s)[j + 1] # Behind(s)[j]
  <2>1. /\ j \in 0..N /\ j < n /\ j + 1 \in 1..n /\ n - j \in 1..n
        /\ j + 1 # n - j
    BY <1>1, <1>3
  <2>2. j < k => /\ j + 1 \in 0..N /\ j + 1 < n /\ j + 1 + 1 \in 1..n
                 /\ j + 1 + 1 # n - j
    BY <1>1, <1>3
  <2>3. Ahead(s)[j] # Behind(s)[j]
    BY <2>1, <1>1, <1>2
  <2>4. j < k => Ahead(s)[j + 1] # Behind(s)[j]
    BY <2>1, <2>2, <1>1, <1>2
  <2> QED
    BY <2>3, <2>4
<1>4. ASSUME NEW k \in 0..N, 2 * k + 2 > n,
             \A j \in 0..k : Ahead(s)[j] # Behind(s)[j],
             \A j \in 0..(k - 1) : Ahead(s)[j + 1] # Behind(s)[j]
      PROVE  FALSE
  <2>1. k < n
    <3>1. k \in 0..k
      OBVIOUS
    <3> QED
      BY <3>1, <1>1, <1>2, <1>4
  <2>2. CASE n % 2 = 1
    <3>1. n = 2 * (n \div 2) + 1 /\ n \div 2 \in Nat
      BY <2>2, <1>1
    <3> DEFINE m == n \div 2
    <3>2. m \in 0..k /\ m \in 0..N /\ m < n /\ m + 1 = n - m
      BY <3>1, <1>1, <1>4
    <3> QED
      BY <3>2, <1>2, <1>4
  <2>3. CASE n % 2 # 1
    <3>1. n = 2 * (n \div 2) /\ n \div 2 \in Nat
      BY <2>3, <1>1
    <3> DEFINE m == n \div 2 - 1
    <3>2. /\ m \in 0..(k - 1) /\ m \in 0..N /\ m + 1 \in 0..N /\ m + 1 < n
          /\ m < n /\ m + 1 + 1 = n - m
      BY <3>1, <2>1, <1>1, <1>4
    <3>3. Ahead(s)[m + 1] = p[m + 1 + 1] /\ Behind(s)[m] = p[n - m]
      BY <3>2, <1>2
    <3> QED
      BY <3>2, <3>3, <1>4
  <2> QED
    BY <2>2, <2>3
<1>5. ASSUME NEW k \in 0..N
      PROVE  (/\ \A j \in 0..k : Ahead(s)[j] # Behind(s)[j]
              /\ \A j \in 0..(k - 1) : Ahead(s)[j + 1] # Behind(s)[j])
             <=> 2 * k + 2 <= n
  <2>1. \A j \in 0..(k - 1) : j \in 0..k /\ j < k
    BY <1>1
  <2>2. 2 * k + 2 <= n \/ 2 * k + 2 > n
    BY <1>1
  <2> QED
    BY <2>1, <2>2, <1>3, <1>4
<1> QED
  BY <1>5 DEF Compared, N, n

\* The middle element of an odd number.
MiddleOf(n) == IF n % 2 = 1 THEN n \div 2 + 1 ELSE 0

\* __find() answers with a node of the value, or leaves out the middle one.
LEMMA FoundIs ==
  ASSUME NEW s, NEW p, IsList(s, p), NEW d
  PROVE  IF Found(s, d) = Nil
         THEN \A i \in 1..Len(p) : s.mem[p[i]].data = d => i = MiddleOf(Len(p))
         ELSE \E i \in 1..Len(p) : Found(s, d) = p[i] /\ s.mem[p[i]].data = d
<1> DEFINE N == Cardinality(Node)
           n == Len(p)
           H == Hits(s, d)
<1>1. /\ n \in Nat /\ N \in Nat /\ n <= N
      /\ \A i \in 1..n : p[i] # Nil
  BY ListCounted, NodeAssumption DEF IsList
<1>2. \A k \in 0..N : /\ Ahead(s)[k] = IF k < n THEN p[k + 1] ELSE Nil
                      /\ Behind(s)[k] = IF k < n THEN p[n - k] ELSE Nil
  BY AheadIs, BehindIs
<1>3. Compared(s) = {k \in 0..N : 2 * k + 2 <= n}
  BY ComparedIs
<1> HIDE DEF N, n
<1>4. \A k \in Compared(s) : /\ k + 1 \in 1..n /\ n - k \in 1..n
                             /\ Ahead(s)[k] = p[k + 1]
                             /\ Behind(s)[k] = p[n - k]
  BY <1>1, <1>2, <1>3
<1>5. H = {k \in Compared(s) : \/ s.mem[Ahead(s)[k]].data = d
                               \/ s.mem[Behind(s)[k]].data = d}
  BY DEF Hits
<1>6. CASE H = {}
  <2>1. Found(s, d) = Nil
    BY <1>6 DEF Found
  <2>2. ASSUME NEW i \in 1..n, s.mem[p[i]].data = d PROVE i = MiddleOf(n)
    <3>1. CASE 2 * i <= n
      <4>1. i - 1 \in Compared(s) /\ i - 1 + 1 = i
        BY <3>1, <1>1, <1>3
      <4> QED
        BY <4>1, <2>2, <1>4, <1>5, <1>6
    <3>2. CASE 2 * i >= n + 2
      <4>1. n - i \in Compared(s) /\ n - (n - i) = i
        BY <3>2, <1>1, <1>3
      <4> QED
        BY <4>1, <2>2, <1>4, <1>5, <1>6
    <3>3. CASE 2 * i = n + 1
      <4>1. n % 2 = 1 /\ n \div 2 + 1 = i
        BY <3>3, <1>1
      <4> QED
        BY <4>1 DEF MiddleOf
    <3> QED
      BY <3>1, <3>2, <3>3, <1>1
  <2> QED
    BY <2>1, <2>2 DEF n
<1>7. CASE H # {}
  <2> DEFINE k == CHOOSE k \in H : \A j \in H : k <= j
  <2>1. k \in H
    <3>1. H \subseteq Nat
      BY <1>1, <1>3, <1>5
    <3>2. \E m \in H : \A j \in H : m <= j
      <4> HIDE DEF H
      <4> QED
        BY <3>1, <1>7, Least
    <3> QED
      BY <3>2
  <2>2. Found(s, d) = IF s.mem[Ahead(s)[k]].data = d THEN Ahead(s)[k]
                      ELSE Behind(s)[k]
    BY <1>7, Zenon DEF Found
  <2> HIDE DEF k, H
  <2>3. k \in Compared(s) /\ \/ s.mem[Ahead(s)[k]].data = d
                             \/ s.mem[Behind(s)[k]].data = d
    BY <2>1, <1>5
  <2>4. \E i \in 1..n : Found(s, d) = p[i] /\ s.mem[p[i]].data = d
    BY <2>2, <2>3, <1>4
  <2>5. Found(s, d) # Nil
    BY <2>4, <1>1
  <2> QED
    BY <2>4, <2>5 DEF n
<1> QED
  BY <1>6, <1>7

\* Frames follow one another.
LEMMA FrameTrans ==
  ASSUME NEW s, NEW t, NEW u, NEW p, NEW q, NEW r,
         Frame(s, t, p, q), Frame(t, u, q, r)
  PROVE  Frame(s, u, p, r)
BY DEF Frame, Same

\* The list of the nodes p is one of the nodes q: some that hold d are gone.
Strips(s, p, t, q, d) ==
  Shrunk(s, p, t, q) /\ \A m \in Nodes(p) \ Nodes(q) : s.mem[m].data = d

\* A list that stays as it is.
LEMMA StripsNone ==
  ASSUME NEW s, NEW p, IsList(s, p), NEW d
  PROVE  Strips(s, p, s, p, d)
BY DEF Strips, Shrunk, Frame, Same

\* A list that is stripped twice.
LEMMA StripsTwice ==
  ASSUME NEW s, NEW t, NEW u, NEW p, NEW q, NEW r, NEW d,
         Strips(s, p, t, q, d), Strips(t, q, u, r, d)
  PROVE  Strips(s, p, u, r, d)
<1>1. Frame(s, u, p, r)
  BY FrameTrans DEF Strips, Shrunk
<1>2. /\ Nodes(r) \subseteq Nodes(p)
      /\ \A m \in Nodes(r) : u.mem[m].data = s.mem[m].data
      /\ \A m \in Nodes(p) \ Nodes(r) : s.mem[m].data = d
  BY DEF Strips, Shrunk
<1>3. ASSUME NEW i \in 1..Len(r), NEW j \in 1..Len(r), i <= j
      PROVE  \E k, l \in 1..Len(p) : k <= l /\ p[k] = r[i] /\ p[l] = r[j]
  <2>1. PICK k \in 1..Len(q), l \in 1..Len(q) :
          k <= l /\ q[k] = r[i] /\ q[l] = r[j]
    BY <1>3 DEF Strips, Shrunk
  <2>2. PICK a \in 1..Len(p), b \in 1..Len(p) :
          a <= b /\ p[a] = q[k] /\ p[b] = q[l]
    BY <2>1 DEF Strips, Shrunk
  <2> QED
    BY <2>1, <2>2
<1> QED
  BY <1>1, <1>2, <1>3 DEF Strips, Shrunk

\* One round of remove() takes out what __find() answers with.
LEMMA RemovedOnceIs ==
  ASSUME NEW s, NEW p, IsList(s, p), NEW d
  PROVE  IF Found(s, d) = Nil THEN RemovedOnce(s, d) = s
         ELSE \E q : /\ Strips(s, p, RemovedOnce(s, d), q, d)
                     /\ Len(q) = Len(p) - 1
<1>1. CASE Found(s, d) = Nil
  BY <1>1 DEF RemovedOnce
<1>2. CASE Found(s, d) # Nil
  <2>1. PICK i \in 1..Len(p) : Found(s, d) = p[i] /\ s.mem[p[i]].data = d
    BY <1>2, FoundIs
  <2> DEFINE q == Without(p, i)
             t == NodeReleased(TakenOut(s, p[i]), p[i])
  <2>2. Shrunk(s, p, t, q) /\ Len(q) = Len(p) - 1
        /\ Nodes(q) = Nodes(p) \ {p[i]}
    BY RemoveShrinks
  <2>3. RemovedOnce(s, d) = t
    BY <1>2, <2>1 DEF RemovedOnce
  <2> HIDE DEF q, t
  <2>4. Strips(s, p, t, q, d)
    BY <2>1, <2>2 DEF Strips
  <2> QED
    BY <1>2, <2>2, <2>3, <2>4
<1> QED
  BY <1>1, <1>2

\* remove() goes on until __find() leaves out at most the middle element.
LEMMA RemovedIs ==
  ASSUME NEW s, NEW p, IsList(s, p), NEW d
  PROVE  \E q : /\ Strips(s, p, Removed(s, d), q, d)
                /\ Found(Removed(s, d), d) = Nil
<1> DEFINE n == Len(p)
           Step(h, k) == IF k = 0 THEN s ELSE RemovedOnce(h[k - 1], d)
           T == {m \in Nat : \E h : h = [k \in 0..m |-> Step(h, k)]}
<1>1. n \in Nat /\ s.length = n
  BY DEF IsList
<1> HIDE DEF n
<1>2. 0 \in T
  <2> DEFINE h == [k \in 0..0 |-> s]
  <2>1. \A k \in 0..0 : h[k] = Step(h, k)
    OBVIOUS
  <2>2. h = [k \in 0..0 |-> h[k]]
    OBVIOUS
  <2> HIDE DEF h
  <2>3. h = [k \in 0..0 |-> Step(h, k)]
    BY <2>1, <2>2
  <2> QED
    BY <2>3
<1>3. ASSUME NEW m \in T PROVE m + 1 \in T
  <2>1. PICK h : h = [k \in 0..m |-> Step(h, k)]
    OBVIOUS
  <2> DEFINE g == [k \in 0..(m + 1) |-> IF k <= m THEN h[k] ELSE
                     RemovedOnce(h[m], d)]
  <2>2. ASSUME NEW k \in 0..(m + 1) PROVE g[k] = Step(g, k)
    <3>1. CASE k = 0
      BY <2>1, <3>1
    <3>2. CASE k # 0
      <4>1. k - 1 \in 0..m /\ g[k - 1] = h[k - 1]
        BY <3>2
      <4>2. CASE k <= m
        <5>1. h[k] = Step(h, k)
          BY <2>1, <4>2
        <5> QED
          BY <5>1, <4>1, <4>2
      <4>3. CASE k = m + 1
        BY <4>1, <4>3, <3>2
      <4> QED
        BY <4>2, <4>3
    <3> QED
      BY <3>1, <3>2
  <2>3. g = [k \in 0..(m + 1) |-> g[k]]
    OBVIOUS
  <2> HIDE DEF g
  <2>4. g = [k \in 0..(m + 1) |-> Step(g, k)]
    BY <2>2, <2>3
  <2> QED
    BY <2>4
<1>4. T = Nat
  <2> HIDE DEF T
  <2> QED
    BY <1>2, <1>3, Induct DEF T
<1>5. \E h : h = [k \in 0..n |-> Step(h, k)]
  BY <1>4, <1>1
<1> DEFINE f == CHOOSE h : h = [k \in 0..n |-> Step(h, k)]
<1>6. Removed(s, d) = f[n]
  BY <1>1, Zenon DEF Removed
<1>7. f = [k \in 0..n |-> Step(f, k)]
  <2> HIDE DEF Step
  <2> QED
    BY <1>5, Zenon
<1> HIDE DEF f
<1>8. f[0] = s /\ \A k \in 1..n : f[k] = RemovedOnce(f[k - 1], d)
  BY <1>7, <1>1
<1> DEFINE U == {k \in Nat : k <= n =>
                   \E q : /\ Strips(s, p, f[k], q, d)
                          /\ Found(f[k], d) = Nil \/ Len(q) <= n - k}
<1>9. 0 \in U
  BY <1>1, <1>8, StripsNone DEF n
<1>10. ASSUME NEW k \in U PROVE k + 1 \in U
  <2> SUFFICES ASSUME k + 1 <= n
               PROVE  \E q : /\ Strips(s, p, f[k + 1], q, d)
                             /\ \/ Found(f[k + 1], d) = Nil
                                \/ Len(q) <= n - (k + 1)
    OBVIOUS
  <2>1. PICK q : /\ Strips(s, p, f[k], q, d)
                 /\ Found(f[k], d) = Nil \/ Len(q) <= n - k
    BY <1>1
  <2>2. f[k + 1] = RemovedOnce(f[k], d)
    BY <1>1, <1>8
  <2>3. IsList(f[k], q) /\ Len(q) \in Nat
    BY <2>1 DEF Strips, Shrunk, IsList
  <2>4. CASE Found(f[k], d) = Nil
    BY <2>1, <2>2, <2>3, <2>4, RemovedOnceIs
  <2>5. CASE Found(f[k], d) # Nil
    <3>1. PICK r : /\ Strips(f[k], q, f[k + 1], r, d)
                   /\ Len(r) = Len(q) - 1
      BY <2>2, <2>3, <2>5, RemovedOnceIs
    <3>2. Len(r) <= n - (k + 1)
      BY <2>1, <2>3, <2>5, <3>1, <1>1
    <3> QED
      BY <2>1, <3>1, <3>2, StripsTwice
  <2> QED
    BY <2>4, <2>5
<1>11. U = Nat
  <2> HIDE DEF U
  <2> QED
    BY <1>9, <1>10, Induct DEF U
<1>12. PICK q : /\ Strips(s, p, f[n], q, d)
                /\ Found(f[n], d) = Nil \/ Len(q) <= n - n
  BY <1>1, <1>11
<1>13. Found(f[n], d) = Nil
  <2>1. IsList(f[n], q) /\ Len(q) \in Nat
    BY <1>12 DEF Strips, Shrunk, IsList
  <2>2. CASE Len(q) = 0
    BY <2>1, <2>2, FoundIs
  <2> QED
    BY <2>1, <2>2, <1>12, <1>1
<1> QED
  BY <1>6, <1>12, <1>13

\* A new node is one free node less.
LEMMA FreeAfter ==
  ASSUME NEW m, NEW l, NEW n \in Node \ DOMAIN m,
         DOMAIN l = DOMAIN m \cup {n}
  PROVE  /\ Cardinality(FreeNodes(l)) = Cardinality(FreeNodes(m)) - 1
         /\ Cardinality(FreeNodes(m)) \in Nat
<1>1. IsFiniteSet(FreeNodes(m))
  BY FS_Subset, NodeAssumption DEF FreeNodes
<1>2. FreeNodes(l) = FreeNodes(m) \ {n} /\ n \in FreeNodes(m)
  BY DEF FreeNodes
<1> QED
  BY <1>1, <1>2, FS_RemoveElement, FS_CardinalityType

\* Where a node is free, so is one to allocate.
LEMMA SomeFree ==
  ASSUME NEW m, Cardinality(FreeNodes(m)) >= 1
  PROVE  FreeNodes(m) # {}
BY FS_EmptySet

\* A list is filled by as many calls of push_back(), each of which has room.
LEMMA FilledIsList ==
  ASSUME NEW s, NEW p, IsList(s, p), NEW data \in Seq(Item),
         Cardinality(FreeNodes(s.mem)) >= Len(data)
  PROVE  \E q : IsList(ListFilled(s, data), q)
                /\ Frame(s, ListFilled(s, data), p, q)
<1> DEFINE n == Len(data)
           Step(h, k) == IF k = 0 THEN s ELSE ListPushedBack(h[k - 1], data[k])
           T == {m \in Nat : \E h : h = [k \in 0..m |-> Step(h, k)]}
<1>1. n \in Nat /\ \A k \in 1..n : data[k] \in Item
  OBVIOUS
<1>a. Cardinality(FreeNodes(s.mem)) >= n
      /\ Cardinality(FreeNodes(s.mem)) \in Nat
  BY FS_Subset, FS_CardinalityType, NodeAssumption DEF FreeNodes
<1> HIDE DEF n
<1>2. 0 \in T
  <2> DEFINE h == [k \in 0..0 |-> s]
  <2>1. \A k \in 0..0 : h[k] = Step(h, k)
    OBVIOUS
  <2>2. h = [k \in 0..0 |-> h[k]]
    OBVIOUS
  <2> HIDE DEF h
  <2>3. h = [k \in 0..0 |-> Step(h, k)]
    BY <2>1, <2>2
  <2> QED
    BY <2>3
<1>3. ASSUME NEW m \in T PROVE m + 1 \in T
  <2>1. PICK h : h = [k \in 0..m |-> Step(h, k)]
    OBVIOUS
  <2> DEFINE g == [k \in 0..(m + 1) |-> IF k <= m THEN h[k] ELSE
                     ListPushedBack(h[m], data[m + 1])]
  <2>2. ASSUME NEW k \in 0..(m + 1) PROVE g[k] = Step(g, k)
    <3>1. CASE k = 0
      BY <2>1, <3>1
    <3>2. CASE k # 0
      <4>1. k - 1 \in 0..m /\ g[k - 1] = h[k - 1]
        BY <3>2
      <4>2. CASE k <= m
        <5>1. h[k] = Step(h, k)
          BY <2>1, <4>2
        <5> QED
          BY <5>1, <4>1, <4>2
      <4>3. CASE k = m + 1
        BY <4>1, <4>3, <3>2
      <4> QED
        BY <4>2, <4>3
    <3> QED
      BY <3>1, <3>2
  <2>3. g = [k \in 0..(m + 1) |-> g[k]]
    OBVIOUS
  <2> HIDE DEF g
  <2>4. g = [k \in 0..(m + 1) |-> Step(g, k)]
    BY <2>2, <2>3
  <2> QED
    BY <2>4
<1>4. T = Nat
  <2> HIDE DEF T
  <2> QED
    BY <1>2, <1>3, Induct DEF T
<1>5. \E h : h = [k \in 0..n |-> Step(h, k)]
  BY <1>4, <1>1
<1> DEFINE f == CHOOSE h : h = [k \in 0..n |-> Step(h, k)]
<1>6. ListFilled(s, data) = f[n]
  BY <1>1, Zenon DEF ListFilled, n
<1>7. f = [k \in 0..n |-> Step(f, k)]
  <2> HIDE DEF Step
  <2> QED
    BY <1>5, Zenon
<1> HIDE DEF f
<1>8. f[0] = s /\ \A k \in 1..n : f[k] = ListPushedBack(f[k - 1], data[k])
  BY <1>7, <1>1
<1> DEFINE Left(k) == Cardinality(FreeNodes(f[k].mem))
           U == {k \in Nat : k <= n =>
                   \E q : /\ IsList(f[k], q) /\ Frame(s, f[k], p, q)
                          /\ Left(k) = Cardinality(FreeNodes(s.mem)) - k}
<1>9. 0 \in U
  <2>1. Frame(s, s, p, p)
    BY DEF Frame, Same
  <2> QED
    BY <1>a, <1>8, <2>1
<1>10. ASSUME NEW k \in U PROVE k + 1 \in U
  <2> SUFFICES ASSUME k + 1 <= n
               PROVE  \E q : /\ IsList(f[k + 1], q) /\ Frame(s, f[k + 1], p, q)
                             /\ Left(k + 1)
                                  = Cardinality(FreeNodes(s.mem)) - (k + 1)
    OBVIOUS
  <2>1. PICK q : /\ IsList(f[k], q) /\ Frame(s, f[k], p, q)
                 /\ Left(k) = Cardinality(FreeNodes(s.mem)) - k
    BY <1>1
  <2>2. f[k + 1] = ListPushedBack(f[k], data[k + 1]) /\ data[k + 1] \in Item
    BY <1>1, <1>8
  <2>3. FreeNodes(f[k].mem) # {}
    BY <2>1, <1>1, <1>a, SomeFree
  <2> DEFINE e == NewListNode(f[k])
             r == PutIn(q, Len(q) + 1, e)
  <2>4. Grown(f[k], q, f[k + 1], r, e, data[k + 1])
    BY <2>1, <2>2, <2>3, PushBackGrows
  <2>5. e \in Node \ DOMAIN f[k].mem
    BY <2>3, NewListNodeIsNew
  <2> HIDE DEF e, r
  <2>6. /\ IsList(f[k + 1], r) /\ Frame(f[k], f[k + 1], q, r)
        /\ DOMAIN f[k + 1].mem = DOMAIN f[k].mem \cup {e}
    BY <2>4 DEF Grown
  <2>7. Frame(s, f[k + 1], p, r)
    BY <2>1, <2>6, FrameTrans
  <2>8. Left(k + 1) = Left(k) - 1
    BY <2>5, <2>6, FreeAfter
  <2>9. Left(k + 1) = Cardinality(FreeNodes(s.mem)) - (k + 1)
    BY <2>1, <2>8, <1>a
  <2> QED
    BY <2>6, <2>7, <2>9
<1>11. U = Nat
  <2> HIDE DEF U
  <2> QED
    BY <1>9, <1>10, Induct DEF U
<1> QED
  BY <1>1, <1>6, <1>11

\* The fields of a list that is put together.
LEMMA JoinedIs ==
  ASSUME NEW s, ListRecord(s), NEW f, f.length \in Int
  PROVE  /\ ListRecord(Joined(s.mem, f)) /\ Joined(s.mem, f).mem = s.mem
         /\ Joined(s.mem, f).head = f.head /\ Joined(s.mem, f).tail = f.tail
         /\ Joined(s.mem, f).length = f.length
         /\ Joined(s.mem, Fields(s)) = s
BY DEF ListRecord, Joined, Fields

\* A list of no nodes.
LEMMA EmptyIsList ==
  ASSUME NEW s, ListRecord(s)
  PROVE  IsList(Joined(s.mem, EmptyList), <<>>)
<1>1. EmptyList.length = 0 /\ EmptyList.head = Nil /\ EmptyList.tail = Nil
  BY DEF EmptyList
<1> QED
  BY <1>1, JoinedIs DEF IsList, Nodes, Distinctly

\* __removeAll() (358-366) releases every node of the list.
LEMMA AllRemovedIs ==
  ASSUME NEW s, NEW p, IsList(s, p)
  PROVE  /\ IsList(AllRemoved(s), <<>>)
         /\ Frame(s, AllRemoved(s), p, <<>>)
         /\ DOMAIN AllRemoved(s).mem = DOMAIN s.mem \ Nodes(p)
<1> DEFINE M == [n \in DOMAIN s.mem \ Nodes(p) |-> s.mem[n]]
           r == Joined(M, Fields(s))
           t == AllRemoved(s)
<1>1. ListRecord(s) /\ Members(s) = Nodes(p)
  BY AheadIs DEF IsList
<1>2. r = [mem |-> M, head |-> s.head, tail |-> s.tail, length |-> s.length]
  BY DEF Joined, Fields
<1>3. /\ M \in [DOMAIN s.mem \ Nodes(p) -> Cell]
      /\ \A n \in DOMAIN s.mem \ Nodes(p) : M[n] = s.mem[n]
  BY <1>1 DEF ListRecord
<1>4. t = Joined(M, EmptyList)
  BY <1>1 DEF AllRemoved
<1> HIDE DEF M, r
<1>5. ListRecord(r) /\ r.mem = M
  BY <1>1, <1>2, <1>3 DEF ListRecord
<1> HIDE DEF t
<1>6. IsList(t, <<>>) /\ t.mem = M
  <2>1. IsList(Joined(r.mem, EmptyList), <<>>)
    BY <1>5, EmptyIsList
  <2>2. Joined(M, EmptyList).mem = M
    BY DEF Joined
  <2> QED
    BY <1>4, <1>5, <2>1, <2>2
<1>7. Nodes(<<>>) = {}
  BY DEF Nodes
<1>8. Frame(s, t, p, <<>>)
  BY <1>3, <1>6, <1>7 DEF Frame, Same
<1> QED
  BY <1>3, <1>6, <1>8 DEF t

\* The parts of IsList that many steps need.
LEMMA ListParts ==
  ASSUME NEW s, NEW p, IsList(s, p)
  PROVE  /\ p \in Seq(Node) /\ Len(p) \in Nat /\ s.length = Len(p)
         /\ ListRecord(s) /\ Nodes(p) \subseteq DOMAIN s.mem
         /\ \A n \in DOMAIN s.mem : s.mem[n].data \in Item
<1>1. s.mem \in [DOMAIN s.mem -> Cell]
  BY DEF IsList, ListRecord
<1>2. \A n \in DOMAIN s.mem : s.mem[n].data \in Item
  BY <1>1 DEF Cell
<1> QED
  BY <1>2 DEF IsList

\* A list whose nodes keep their fields is a list of those nodes.
LEMMA KeepsList ==
  ASSUME NEW m, NEW f, NEW q, IsList(Joined(m, f), q),
         NEW t, ListRecord(t), Nodes(q) \subseteq DOMAIN t.mem,
         \A n \in Nodes(q) : /\ t.mem[n].prev = m[n].prev
                             /\ t.mem[n].next = m[n].next
  PROVE  IsList(Joined(t.mem, f), q)
<1> DEFINE s == Joined(m, f)
           u == Joined(t.mem, f)
<1>1. /\ s.mem = m /\ s.head = f.head /\ s.tail = f.tail
      /\ s.length = f.length
  BY DEF Joined
<1>2. s.length \in Int
  BY DEF IsList, ListRecord
<1>3. /\ ListRecord(u) /\ u.mem = t.mem /\ u.head = f.head /\ u.tail = f.tail
      /\ u.length = f.length
  BY <1>1, <1>2, JoinedIs
<1>4. \A i \in 1..Len(q) : q[i] \in Nodes(q)
  BY DEF Nodes
<1> HIDE DEF s, u
<1>5. IsList(s, q)
  BY DEF s
<1>6. IsList(u, q)
  BY <1>1, <1>3, <1>4, <1>5 DEF IsList
<1> QED
  BY <1>6 DEF u

\* The two lists share the nodes: p are those of x, q those of the other.
Other(x) == IF x = "a" THEN "b" ELSE "a"
TwoLists(m, l, x, p, q) ==
  /\ l = [y \in Which |-> l[y]]
  /\ IsList(Joined(m, l[x]), p) /\ IsList(Joined(m, l[Other(x)]), q)
  /\ Nodes(p) \cap Nodes(q) = {} /\ Nodes(p) \cup Nodes(q) = DOMAIN m
AreLists == \A x \in Which : \E p, q : TwoLists(mem, lists, x, p, q)

\* Seen from one of the lists is seen from both.
LEMMA FromEither ==
  ASSUME NEW m, NEW l, NEW x \in Which, NEW p, NEW q, TwoLists(m, l, x, p, q)
  PROVE  \A y \in Which : \E r, t : TwoLists(m, l, y, r, t)
<1>1. Other(x) \in Which /\ Other(Other(x)) = x
      /\ \A y \in Which : y = x \/ y = Other(x)
  BY DEF Which, Other
<1>2. TwoLists(m, l, Other(x), q, p)
  BY <1>1 DEF TwoLists
<1> QED
  BY <1>1, <1>2

\* What makes a list of one of the lists leaves the other one.
LEMMA BecomesList ==
  ASSUME NEW x \in Which, NEW p, NEW q, TwoLists(mem, lists, x, p, q),
         NEW t, NEW r, IsList(t, r), Frame(ListOf(x), t, p, r),
         ListBecomes(x, t)
  PROVE  AreLists'
<1> DEFINE y == Other(x)
<1>1. y \in Which /\ y # x /\ \A z \in Which : z = x \/ z = y
  BY DEF Which, Other
<1>2. /\ lists = [z \in Which |-> lists[z]]
      /\ IsList(Joined(mem, lists[x]), p) /\ IsList(Joined(mem, lists[y]), q)
      /\ Nodes(p) \cap Nodes(q) = {} /\ Nodes(p) \cup Nodes(q) = DOMAIN mem
  BY DEF TwoLists
<1>3. mem' = t.mem /\ lists' = [lists EXCEPT ![x] = Fields(t)]
  BY DEF ListBecomes
<1>4. /\ lists' = [z \in Which |-> lists'[z]]
      /\ lists'[x] = Fields(t) /\ lists'[y] = lists[y]
  BY <1>1, <1>2, <1>3
<1>5. /\ DOMAIN t.mem \ Nodes(r) = DOMAIN mem \ Nodes(p)
      /\ \A n \in DOMAIN mem \ Nodes(p) : /\ t.mem[n].prev = mem[n].prev
                                          /\ t.mem[n].next = mem[n].next
  BY DEF Frame, Same, ListOf, Joined
<1>6. DOMAIN mem \ Nodes(p) = Nodes(q)
  BY <1>2
<1>7. ListRecord(t) /\ Nodes(r) \subseteq DOMAIN t.mem /\ t.length \in Int
  BY DEF IsList, ListRecord
<1>8. IsList(Joined(mem', lists'[x]), r)
  BY <1>3, <1>4, <1>7, JoinedIs
<1>9. IsList(Joined(mem', lists'[y]), q)
  BY <1>2, <1>3, <1>4, <1>5, <1>6, <1>7, KeepsList
<1>10. TwoLists(mem', lists', x, r, q)
  BY <1>3, <1>4, <1>5, <1>6, <1>7, <1>8, <1>9 DEF TwoLists
<1> QED
  BY <1>10, FromEither DEF AreLists

\* push_back(), push_front() and insert() of one element.
LEMMA GrowsList ==
  ASSUME NEW x \in Which, NEW p, NEW q, TwoLists(mem, lists, x, p, q),
         NEW t, NEW r, NEW n, NEW d, Grown(ListOf(x), p, t, r, n, d),
         ListBecomes(x, t)
  PROVE  AreLists'
BY BecomesList DEF Grown

\* insert() of one or two elements at one position.
LEMMA InsertStep ==
  ASSUME AreLists, NEW x \in Which, NEW d \in Item, NEW times \in 1..2,
         ListInsert(x, d, times)
  PROVE  AreLists'
<1> DEFINE s == ListOf(x)
           n == NewListNode(s)
<1>1. PICK p, q : TwoLists(mem, lists, x, p, q)
  BY DEF AreLists
<1>2. /\ IsList(s, p) /\ s.mem = mem /\ s.length = lists[x].length
      /\ Len(p) = s.length
  BY <1>1 DEF TwoLists, ListOf, Joined, IsList
<1>3. Cardinality(FreeNodes(mem)) >= times /\ FreeNodes(s.mem) # {}
  BY <1>2, SomeFree, FS_Subset, FS_CardinalityType, NodeAssumption
  DEF ListInsert, FreeNodes
<1>4. n \in Node \ DOMAIN mem
  BY <1>2, <1>3, NewListNodeIsNew
<1>5. PICK e \in IF lists[x] = EmptyList THEN {Nil} ELSE Members(s) :
        ListBecomes(x, IF times = 1 THEN Inserted(s, e, d)
                       ELSE Inserted(Inserted(s, e, d), e, d))
  BY DEF ListInsert
<1>6. CASE lists[x] = EmptyList
  <2>1. e = Nil /\ times = 1 /\ Len(p) = 0
    BY <1>2, <1>5, <1>6 DEF ListInsert, EmptyList
  <2> QED
    BY <2>1, <1>1, <1>2, <1>3, <1>5, InsertInEmpty, GrowsList, ZenonT(20)
<1>7. CASE lists[x] # EmptyList
  <2>1. Members(s) = Nodes(p)
    BY <1>2, AheadIs
  <2>2. PICK i \in 1..Len(p) : e = p[i]
    BY <2>1, <1>5, <1>7 DEF Nodes
  <2> DEFINE t == Inserted(s, e, d)
             k == PlaceFor(i, p)
             r == PutIn(p, k, n)
  <2>3. Grown(s, p, t, r, n, d)
    BY <2>2, <1>2, <1>3, InsertGrows
  <2>4. CASE times = 1
    BY <2>3, <2>4, <1>1, <1>5, GrowsList
  <2>5. CASE times # 1
    <3>1. Nodes(r) = Nodes(p) \cup {n}
      <4>1. p \in Seq(Node) /\ n \in Node /\ Len(p) \in Nat
        BY <1>2, <1>4, ListParts
      <4>2. k \in 1..(Len(p) + 1)
        BY <4>1 DEF PlaceFor
      <4> HIDE DEF k, n
      <4>3. IsPutIn(r, p, k, n)
        BY <4>1, <4>2, PutInIs
      <4> QED
        BY <4>3 DEF IsPutIn
    <3>2. PICK j \in 1..Len(r) : e = r[j]
      BY <3>1, <2>2 DEF Nodes
    <3> HIDE DEF t, k, r, n, s
    <3>3. /\ IsList(t, r) /\ Frame(s, t, p, r)
          /\ DOMAIN t.mem = DOMAIN mem \cup {n}
      BY <2>3, <1>2 DEF Grown
    <3>4. FreeNodes(t.mem) # {}
      <4>1. Cardinality(FreeNodes(t.mem)) >= 1
        <5>1. /\ Cardinality(FreeNodes(t.mem)) = Cardinality(FreeNodes(mem)) - 1
              /\ Cardinality(FreeNodes(mem)) \in Nat
          BY <3>3, <1>4, FreeAfter
        <5> QED
          BY <5>1, <2>5, <1>3
      <4> QED
        BY <4>1, SomeFree
    <3> DEFINE u == Inserted(t, e, d)
               v == PutIn(r, PlaceFor(j, r), NewListNode(t))
    <3>5. Grown(t, r, u, v, NewListNode(t), d)
      BY <3>2, <3>3, <3>4, InsertGrows
    <3>6. ListBecomes(x, u)
      BY <2>5, <1>5 DEF t
    <3> HIDE DEF u, v
    <3>7. IsList(u, v) /\ Frame(s, u, p, v)
      BY <3>3, <3>5, FrameTrans DEF Grown
    <3> QED
      BY <3>6, <3>7, <1>1, BecomesList DEF s
  <2> QED
    BY <2>4, <2>5
<1> QED
  BY <1>6, <1>7

\* operator= of a list that is copied.
LEMMA ListCopyStep ==
  ASSUME AreLists, NEW x \in Which, NEW y \in Which, ListCopyAssign(x, y)
  PROVE  AreLists'
<1> DEFINE none == Joined(mem, EmptyList)
           data == Items(ListOf(y))
           copy == ListFilled(none, data)
           o == Joined(copy.mem, lists[x])
           old == AllRemoved(o)
<1>1. PICK p, q : TwoLists(mem, lists, x, p, q)
  BY DEF AreLists
<1>2. y = Other(x) /\ x # y
  BY DEF ListCopyAssign, Which, Other
<1>3. /\ lists = [z \in Which |-> lists[z]]
      /\ IsList(ListOf(x), p) /\ IsList(ListOf(y), q)
      /\ Nodes(p) \cap Nodes(q) = {} /\ Nodes(p) \cup Nodes(q) = DOMAIN mem
  BY <1>1, <1>2 DEF TwoLists, ListOf
<1>4. ListOf(x).mem = mem /\ ListOf(y).mem = mem
      /\ ListOf(y).length = lists[y].length
  BY DEF ListOf, Joined
<1>5. IsList(none, <<>>) /\ none.mem = mem
  <2>1. ListRecord(ListOf(x))
    BY <1>3 DEF IsList
  <2>2. none.mem = mem
    BY DEF Joined
  <2> QED
    BY <2>1, <2>2, <1>4, EmptyIsList
<1>6. data \in Seq(Item) /\ Len(data) = lists[y].length
  <2>1. data = [i \in 1..Len(q) |-> mem[q[i]].data]
    BY <1>3, <1>4, AheadIs
  <2>2. \A i \in 1..Len(q) : mem[q[i]].data \in Item
    BY <1>3, <1>4, ListParts DEF Nodes
  <2>3. Len(q) = lists[y].length /\ Len(q) \in Nat
    BY <1>3, <1>4, ListParts
  <2> HIDE DEF data
  <2> QED
    BY <2>1, <2>2, <2>3
<1>7. /\ mem' = old.mem
      /\ lists' = [lists EXCEPT ![x] = Fields(copy)]
      /\ Cardinality(FreeNodes(mem)) >= lists[y].length
  BY DEF ListCopyAssign
<1> HIDE DEF none, data
<1>8. PICK r : IsList(copy, r) /\ Frame(none, copy, <<>>, r)
  BY <1>5, <1>6, <1>7, FilledIsList
<1>9. ListRecord(copy) /\ Nodes(r) \subseteq DOMAIN copy.mem
  BY <1>8 DEF IsList
<1>10. /\ DOMAIN copy.mem \ Nodes(r) = DOMAIN mem
       /\ \A n \in DOMAIN mem : /\ copy.mem[n].prev = mem[n].prev
                                /\ copy.mem[n].next = mem[n].next
  <2>1. Nodes(<<>>) = {}
    BY DEF Nodes
  <2> QED
    BY <2>1, <1>5, <1>8 DEF Frame, Same
<1> HIDE DEF copy
<1>11. IsList(o, p) /\ o.mem = copy.mem
  <2>1. IsList(Joined(mem, lists[x]), p)
    BY <1>3 DEF ListOf
  <2>2. o.mem = copy.mem
    BY DEF Joined
  <2> QED
    BY <2>1, <2>2, <1>3, <1>9, <1>10, KeepsList
<1> HIDE DEF o
<1>12. /\ IsList(old, <<>>) /\ Frame(o, old, p, <<>>)
       /\ DOMAIN old.mem = DOMAIN copy.mem \ Nodes(p)
  BY <1>11, AllRemovedIs
<1> HIDE DEF old
<1>13. \A n \in DOMAIN copy.mem \ Nodes(p) :
         /\ old.mem[n].prev = copy.mem[n].prev
         /\ old.mem[n].next = copy.mem[n].next
  BY <1>11, <1>12 DEF Frame, Same
<1>14. ListRecord(old)
  BY <1>12 DEF IsList
<1>15. /\ DOMAIN old.mem = Nodes(r) \cup Nodes(q)
       /\ Nodes(r) \cap Nodes(q) = {}
       /\ Nodes(r) \subseteq DOMAIN copy.mem \ Nodes(p)
       /\ Nodes(q) \subseteq DOMAIN copy.mem \ Nodes(p)
       /\ Nodes(q) \subseteq DOMAIN mem
  BY <1>3, <1>9, <1>10, <1>12
<1>16. IsList(Joined(old.mem, Fields(copy)), r)
  <2>1. Joined(copy.mem, Fields(copy)) = copy
    <3>1. copy.length \in Int
      BY <1>9 DEF ListRecord
    <3> QED
      BY <3>1, <1>9, JoinedIs
  <2>2. IsList(Joined(copy.mem, Fields(copy)), r)
    BY <2>1, <1>8
  <2> QED
    BY <2>2, <1>13, <1>14, <1>15, KeepsList
<1>17. IsList(Joined(old.mem, lists[y]), q)
  <2>1. IsList(Joined(mem, lists[y]), q)
    BY <1>3 DEF ListOf
  <2>2. \A n \in Nodes(q) : /\ old.mem[n].prev = mem[n].prev
                            /\ old.mem[n].next = mem[n].next
    BY <1>10, <1>13, <1>15
  <2> QED
    BY <2>1, <2>2, <1>14, <1>15, KeepsList
<1>18. /\ lists' = [z \in Which |-> lists'[z]]
       /\ lists'[x] = Fields(copy) /\ lists'[y] = lists[y]
  BY <1>2, <1>3, <1>7
<1>19. TwoLists(mem', lists', x, r, q)
  BY <1>2, <1>7, <1>15, <1>16, <1>17, <1>18 DEF TwoLists
<1> QED
  BY <1>19, FromEither DEF AreLists

ListSpec == ListInit /\ [][ListNext]_listVars

\* No operation breaks a list.
LEMMA ListStep == AreLists /\ [ListNext]_listVars => AreLists'
<1> SUFFICES ASSUME AreLists, [ListNext]_listVars PROVE AreLists'
  OBVIOUS
<1>0. CASE UNCHANGED listVars
  BY <1>0 DEF AreLists, listVars
<1>1. ASSUME NEW x \in Which
      PROVE  \E p, q : /\ TwoLists(mem, lists, x, p, q)
                       /\ IsList(ListOf(x), p) /\ ListOf(x).mem = mem
  BY DEF AreLists, TwoLists, ListOf, Joined
<1>2. ASSUME NEW x \in Which, NEW d \in Item, ListPushBack(x, d)
      PROVE  AreLists'
  <2>1. PICK p, q : /\ TwoLists(mem, lists, x, p, q)
                    /\ IsList(ListOf(x), p) /\ ListOf(x).mem = mem
    BY <1>1
  <2>2. PICK r, n : Grown(ListOf(x), p, ListPushedBack(ListOf(x), d), r, n, d)
    BY <2>1, <1>2, PushBackGrows DEF ListPushBack
  <2> QED
    BY <2>1, <2>2, <1>2, GrowsList DEF ListPushBack
<1>3. ASSUME NEW x \in Which, NEW d \in Item, ListPushFront(x, d)
      PROVE  AreLists'
  <2>1. PICK p, q : /\ TwoLists(mem, lists, x, p, q)
                    /\ IsList(ListOf(x), p) /\ ListOf(x).mem = mem
    BY <1>1
  <2>2. PICK r, n : Grown(ListOf(x), p, ListPushedFront(ListOf(x), d), r, n, d)
    BY <2>1, <1>3, PushFrontGrows DEF ListPushFront
  <2> QED
    BY <2>1, <2>2, <1>3, GrowsList DEF ListPushFront
<1>4. ASSUME NEW x \in Which, NEW d \in Item, ListRemove(x, d)
      PROVE  AreLists'
  <2>1. PICK p, q : /\ TwoLists(mem, lists, x, p, q)
                    /\ IsList(ListOf(x), p) /\ ListOf(x).mem = mem
    BY <1>1
  <2>2. PICK r : Strips(ListOf(x), p, Removed(ListOf(x), d), r, d)
    BY <2>1, RemovedIs
  <2> QED
    BY <2>1, <2>2, <1>4, BecomesList DEF ListRemove, Strips, Shrunk
<1>5. ASSUME NEW x \in Which, NEW d \in Item, NEW size \in 1..2,
             ListRebuild(x, d, size)
      PROVE  AreLists'
  <2>1. PICK p, q : /\ TwoLists(mem, lists, x, p, q)
                    /\ IsList(ListOf(x), p) /\ ListOf(x).mem = mem
    BY <1>1
  <2> DEFINE none == AllRemoved(ListOf(x))
             data == [i \in 1..size |-> d]
  <2>2. IsList(none, <<>>) /\ Frame(ListOf(x), none, p, <<>>)
    BY <2>1, AllRemovedIs
  <2>3. data \in Seq(Item) /\ Len(data) = size
    OBVIOUS
  <2>4. /\ Cardinality(FreeNodes(none.mem)) >= size
        /\ ListBecomes(x, ListFilled(none, data))
    BY <1>5 DEF ListRebuild
  <2> HIDE DEF none, data
  <2>5. PICK r : /\ IsList(ListFilled(none, data), r)
                 /\ Frame(none, ListFilled(none, data), <<>>, r)
    BY <2>2, <2>3, <2>4, FilledIsList
  <2>6. Frame(ListOf(x), ListFilled(none, data), p, r)
    BY <2>2, <2>5, FrameTrans
  <2> QED
    BY <2>1, <2>4, <2>5, <2>6, BecomesList
<1>6. ASSUME NEW x \in Which, ListClear(x)
      PROVE  AreLists'
  <2>1. PICK p, q : /\ TwoLists(mem, lists, x, p, q)
                    /\ IsList(ListOf(x), p) /\ ListOf(x).mem = mem
    BY <1>1
  <2>2. /\ IsList(AllRemoved(ListOf(x)), <<>>)
        /\ Frame(ListOf(x), AllRemoved(ListOf(x)), p, <<>>)
    BY <2>1, AllRemovedIs
  <2> QED
    BY <2>1, <2>2, <1>6, BecomesList DEF ListClear
<1>7. ASSUME ListSwap
      PROVE  AreLists'
  <2>1. PICK p, q : TwoLists(mem, lists, "a", p, q)
    BY DEF AreLists, Which
  <2>2. /\ lists' = [z \in Which |-> lists'[z]] /\ mem' = mem
        /\ lists'["a"] = lists["b"] /\ lists'["b"] = lists["a"]
    <3>1. lists = [z \in Which |-> lists[z]]
      BY <2>1 DEF TwoLists
    <3> QED
      BY <3>1, <1>7 DEF ListSwap, Which
  <2>3. Other("a") = "b"
    BY DEF Other
  <2>4. TwoLists(mem', lists', "a", q, p)
    BY <2>1, <2>2, <2>3 DEF TwoLists
  <2> QED
    BY <2>4, FromEither DEF AreLists, Which
<1> QED
  BY <1>0, <1>2, <1>3, <1>4, <1>5, <1>6, <1>7, InsertStep, ListCopyStep
  DEF ListNext

\* Of lists with these nodes the links agree.
LEMMA ListsAgree == AreLists => LinksAgree
<1> SUFFICES ASSUME AreLists PROVE LinksAgree
  OBVIOUS
<1>1. ASSUME NEW x \in Which
      PROVE  LET s == ListOf(x)
                 ahead == Met(Ahead(s))
                 behind == Met(Behind(s))
             IN  /\ Len(ahead) = s.length /\ Len(behind) = s.length
                 /\ \A i \in 1..s.length :
                      behind[i] = ahead[s.length + 1 - i]
  <2> DEFINE s == ListOf(x)
  <2>1. PICK p : IsList(s, p)
    BY DEF AreLists, TwoLists, ListOf
  <2> HIDE DEF s
  <2>2. Met(Ahead(s)) = p
    BY <2>1, AheadIs DEF ListNodes
  <2>3. Met(Behind(s)) = [i \in 1..Len(p) |-> p[Len(p) + 1 - i]]
    BY <2>1, BehindIs
  <2>4. s.length = Len(p) /\ Len(p) \in Nat
    BY <2>1, ListParts
  <2>5. Len(Met(Behind(s))) = Len(p)
    BY <2>3, <2>4
  <2> QED
    BY <2>2, <2>3, <2>4, <2>5 DEF s
<1>2. PICK p, q : TwoLists(mem, lists, "a", p, q)
  BY DEF AreLists, Which
<1>3. /\ IsList(ListOf("a"), p) /\ IsList(ListOf("b"), q)
      /\ Nodes(p) \cap Nodes(q) = {} /\ Nodes(p) \cup Nodes(q) = DOMAIN mem
  BY <1>2 DEF TwoLists, ListOf, Other
<1>4. Members(ListOf("a")) \cup Members(ListOf("b")) = DOMAIN mem
  <2>1. Members(ListOf("a")) = Nodes(p)
    BY <1>3, AheadIs
  <2>2. Members(ListOf("b")) = Nodes(q)
    BY <1>3, AheadIs
  <2> QED
    BY <1>3, <2>1, <2>2
<1>5. lists["a"].length + lists["b"].length = Cardinality(DOMAIN mem)
  <2>1. lists["a"].length = Len(p) /\ lists["b"].length = Len(q)
    BY <1>3, ListParts DEF ListOf, Joined
  <2>2. /\ IsFiniteSet(Nodes(p)) /\ Cardinality(Nodes(p)) = Len(p)
        /\ Len(p) \in Nat
    BY <1>3, ListCounted DEF IsList
  <2>3. /\ IsFiniteSet(Nodes(q)) /\ Cardinality(Nodes(q)) = Len(q)
        /\ Len(q) \in Nat
    BY <1>3, ListCounted DEF IsList
  <2>4. Cardinality(Nodes(p) \cup Nodes(q))
          = Cardinality(Nodes(p)) + Cardinality(Nodes(q))
              - Cardinality(Nodes(p) \cap Nodes(q))
    BY <2>2, <2>3, FS_Union
  <2>5. Cardinality(Nodes(p) \cap Nodes(q)) = 0
    <3>1. Cardinality({}) = 0
      BY FS_EmptySet
    <3> QED
      BY <1>3, <3>1
  <2>6. Cardinality(DOMAIN mem) = Len(p) + Len(q)
    <3>1. Nodes(p) \cup Nodes(q) = DOMAIN mem
      BY <1>3
    <3> HIDE DEF Nodes
    <3> QED
      BY <3>1, <2>2, <2>3, <2>4, <2>5
  <2> QED
    BY <2>1, <2>6
<1> QED
  BY <1>1, <1>4, <1>5 DEF LinksAgree

\* What the search leaves out, in the terms of the invariant.
LEMMA MiddleOnly ==
  ASSUME NEW s, NEW p, IsList(s, p), NEW d, Found(s, d) = Nil
  PROVE  OnlyInTheMiddle(s, d)
<1>1. \A i \in 1..Len(p) : s.mem[p[i]].data = d => i = MiddleOf(Len(p))
  BY FoundIs
<1>2. s.length = Len(p) /\ Len(p) \in Nat
  BY ListParts
<1>3. Items(s) = [i \in 1..Len(p) |-> s.mem[p[i]].data]
  BY AheadIs
<1>4. Middle(s) = MiddleOf(Len(p))
  BY <1>2 DEF Middle, MiddleOf
<1> QED
  BY <1>1, <1>3, <1>4 DEF OnlyInTheMiddle

\* find() misses the middle element only.
LEMMA ListsFind == AreLists => FindMissesTheMiddle
<1> SUFFICES ASSUME AreLists, NEW x \in Which, NEW d \in Item
             PROVE  LET s == ListOf(x)
                    IN  IF Found(s, d) = Nil THEN OnlyInTheMiddle(s, d)
                        ELSE /\ Found(s, d) \in Members(s)
                             /\ s.mem[Found(s, d)].data = d
  BY DEF FindMissesTheMiddle
<1> DEFINE s == ListOf(x)
<1>1. PICK p : IsList(s, p)
  BY DEF AreLists, TwoLists, ListOf
<1> HIDE DEF s
<1>2. CASE Found(s, d) = Nil
  BY <1>1, <1>2, MiddleOnly DEF s
<1>3. CASE Found(s, d) # Nil
  <2>1. PICK i \in 1..Len(p) : Found(s, d) = p[i] /\ s.mem[p[i]].data = d
    BY <1>1, <1>3, FoundIs
  <2>2. p[i] \in Members(s)
    BY <1>1, AheadIs DEF Nodes
  <2> QED
    BY <2>1, <2>2, <1>3 DEF s
<1> QED
  BY <1>2, <1>3

\* remove() keeps what is not equal to the value, in order.
LEMMA ListsRemove == AreLists => RemoveLeavesTheMiddle
<1> SUFFICES
  ASSUME AreLists, NEW x \in Which, NEW d \in Item
  PROVE  LET s == ListOf(x)
             t == Removed(s, d)
         IN  /\ \A n \in Members(s) \ Members(t) : s.mem[n].data = d
             /\ \A n \in Members(t) : t.mem[n].data = s.mem[n].data
             /\ \A i, j \in DOMAIN ListNodes(t) : i <= j =>
                  \E k, l \in DOMAIN ListNodes(s) :
                    /\ k <= l
                    /\ ListNodes(s)[k] = ListNodes(t)[i]
                    /\ ListNodes(s)[l] = ListNodes(t)[j]
             /\ OnlyInTheMiddle(t, d)
  BY DEF RemoveLeavesTheMiddle
<1> DEFINE s == ListOf(x)
           t == Removed(s, d)
<1>1. PICK p : IsList(s, p)
  BY DEF AreLists, TwoLists, ListOf
<1>2. PICK q : Strips(s, p, t, q, d) /\ Found(t, d) = Nil
  BY <1>1, RemovedIs
<1> HIDE DEF s, t
<1>3. IsList(t, q)
  BY <1>2 DEF Strips, Shrunk
<1>4. /\ ListNodes(s) = p /\ Members(s) = Nodes(p) /\ DOMAIN p = 1..Len(p)
      /\ ListNodes(t) = q /\ Members(t) = Nodes(q) /\ DOMAIN q = 1..Len(q)
  BY <1>1, <1>3, AheadIs, ListParts
<1>5. OnlyInTheMiddle(t, d)
  BY <1>2, <1>3, MiddleOnly
<1>6. /\ \A n \in Members(s) \ Members(t) : s.mem[n].data = d
      /\ \A n \in Members(t) : t.mem[n].data = s.mem[n].data
  BY <1>2, <1>4 DEF Strips, Shrunk
<1>7. \A i, j \in DOMAIN ListNodes(t) : i <= j =>
        \E k, l \in DOMAIN ListNodes(s) :
          /\ k <= l
          /\ ListNodes(s)[k] = ListNodes(t)[i]
          /\ ListNodes(s)[l] = ListNodes(t)[j]
  <2>1. \A i, j \in 1..Len(q) : i <= j =>
          \E k, l \in 1..Len(p) : k <= l /\ p[k] = q[i] /\ p[l] = q[j]
    BY <1>2 DEF Strips, Shrunk
  <2>2. /\ ListNodes(s) = p /\ DOMAIN p = 1..Len(p)
        /\ ListNodes(t) = q /\ DOMAIN q = 1..Len(q)
    BY <1>4
  <2> TAKE i, j \in DOMAIN ListNodes(t)
  <2> HAVE i <= j
  <2>3. i \in 1..Len(q) /\ j \in 1..Len(q)
    BY <2>2
  <2>4. PICK k, l \in 1..Len(p) : k <= l /\ p[k] = q[i] /\ p[l] = q[j]
    BY <2>1, <2>3
  <2>5. /\ ListNodes(s)[k] = ListNodes(t)[i]
        /\ ListNodes(s)[l] = ListNodes(t)[j]
    BY <2>2, <2>4
  <2>6. k \in DOMAIN ListNodes(s) /\ l \in DOMAIN ListNodes(s)
    BY <2>2, <2>4
  <2> QED
    BY <2>4, <2>5, <2>6
<1> QED
  BY <1>5, <1>6, <1>7 DEF s, t

\* insert() puts an element before its position, but for the last of several.
LEMMA ListsInsert == AreLists => InsertsBefore
<1> SUFFICES
  ASSUME AreLists, FreeNodes(mem) # {}, NEW x \in Which, NEW d \in Item,
         NEW i \in DOMAIN ListNodes(ListOf(x))
  PROVE  LET s == ListOf(x)
             at == IF i = s.length /\ i > 1 THEN i + 1 ELSE i
         IN  Items(Inserted(s, ListNodes(s)[i], d))
               = [j \in 1..(s.length + 1) |->
                    IF j < at THEN Items(s)[j]
                    ELSE IF j = at THEN d ELSE Items(s)[j - 1]]
  BY DEF InsertsBefore
<1> DEFINE s == ListOf(x)
           n == NewListNode(s)
<1>1. PICK p : IsList(s, p)
  BY DEF AreLists, TwoLists, ListOf
<1>2. s.mem = mem
  BY DEF ListOf, Joined
<1>3. i \in DOMAIN ListNodes(s)
  OBVIOUS
<1> HIDE DEF s, n
<1>4. /\ p \in Seq(Node) /\ Len(p) \in Nat /\ s.length = Len(p)
      /\ Nodes(p) \subseteq DOMAIN s.mem
      /\ ListNodes(s) = p /\ DOMAIN p = 1..Len(p)
      /\ Items(s) = [j \in 1..Len(p) |-> s.mem[p[j]].data]
  BY <1>1, AheadIs, ListParts
<1>5. i \in 1..Len(p)
  BY <1>3, <1>4
<1> DEFINE k == PlaceFor(i, p)
           q == PutIn(p, k, n)
           t == Inserted(s, p[i], d)
<1>6. Grown(s, p, t, q, n, d) /\ n \in Node \ DOMAIN s.mem
  BY <1>1, <1>2, <1>5, InsertGrows, NewListNodeIsNew DEF n
<1>7. k = IF i = s.length /\ i > 1 THEN i + 1 ELSE i
  BY <1>4 DEF PlaceFor
<1>8. k \in 1..(Len(p) + 1)
  BY <1>4, <1>5 DEF PlaceFor
<1> HIDE DEF k, t
<1>9. IsPutIn(q, p, k, n)
  BY <1>4, <1>6, <1>8, PutInIs
<1> HIDE DEF q
<1>10. /\ Len(q) = Len(p) + 1
       /\ \A j \in 1..Len(q) :
            q[j] = IF j < k THEN p[j] ELSE IF j = k THEN n ELSE p[j - 1]
  BY <1>9 DEF IsPutIn
<1>11. /\ IsList(t, q) /\ t.mem[n].data = d
       /\ \A m \in DOMAIN s.mem : t.mem[m].data = s.mem[m].data
  BY <1>6 DEF Grown
<1>12. Items(t) = [j \in 1..(Len(p) + 1) |-> t.mem[q[j]].data]
  BY <1>10, <1>11, AheadIs
<1>13. ASSUME NEW j \in 1..(Len(p) + 1)
       PROVE  t.mem[q[j]].data
                = IF j < k THEN Items(s)[j]
                  ELSE IF j = k THEN d ELSE Items(s)[j - 1]
  <2>1. q[j] = IF j < k THEN p[j] ELSE IF j = k THEN n ELSE p[j - 1]
    BY <1>10
  <2>2. CASE j < k
    <3>1. j \in 1..Len(p)
      BY <2>2, <1>4, <1>8
    <3>2. p[j] \in DOMAIN s.mem
      BY <3>1, <1>4 DEF Nodes
    <3> QED
      BY <2>1, <2>2, <3>1, <3>2, <1>4, <1>11
  <2>3. CASE j = k
    BY <2>1, <2>3, <1>8, <1>11
  <2>4. CASE j > k
    <3>1. j - 1 \in 1..Len(p) /\ ~ (j < k) /\ j # k
      BY <2>4, <1>4, <1>8
    <3>2. p[j - 1] \in DOMAIN s.mem
      BY <3>1, <1>4 DEF Nodes
    <3>3. t.mem[p[j - 1]].data = s.mem[p[j - 1]].data
      BY <3>2, <1>11
    <3>4. Items(s)[j - 1] = s.mem[p[j - 1]].data
      BY <3>1, <1>4
    <3> QED
      BY <2>1, <3>1, <3>3, <3>4
  <2> QED
    BY <2>2, <2>3, <2>4, <1>8
<1>14. Items(t) = [j \in 1..(s.length + 1) |->
                     IF j < k THEN Items(s)[j]
                     ELSE IF j = k THEN d ELSE Items(s)[j - 1]]
  BY <1>4, <1>12, <1>13
<1>15. Inserted(s, ListNodes(s)[i], d) = t
  BY <1>4 DEF t
<1> QED
  BY <1>7, <1>14, <1>15 DEF s

\* The links of both lists agree in both directions, no node is lost or in two
\* lists, and find(), remove() and insert() (334-462, 534-554) answer and act
\* on the sequence of elements as they are said to, but for the middle element
\* that __find() (338) leaves out, after any sequence of the operations on any
\* number of nodes.
THEOREM ListsAreWhole == ListSpec => []ListInv
<1>1. ListInit => AreLists
  <2> SUFFICES ASSUME ListInit PROVE AreLists
    OBVIOUS
  <2>1. mem = <<>> /\ lists = [x \in Which |-> EmptyList]
    BY DEF ListInit
  <2> DEFINE s == [mem |-> mem, head |-> Nil, tail |-> Nil, length |-> 0]
  <2>2. ListRecord(s) /\ s.mem = mem
    <3>1. DOMAIN mem = {} /\ mem \in [{} -> Cell]
      BY <2>1
    <3> QED
      BY <3>1 DEF ListRecord
  <2>3. IsList(Joined(mem, EmptyList), <<>>)
    BY <2>2, EmptyIsList
  <2>4. Nodes(<<>>) = {} /\ DOMAIN mem = {}
    BY <2>1 DEF Nodes
  <2>5. \A x \in Which : lists[x] = EmptyList /\ lists[Other(x)] = EmptyList
    BY <2>1 DEF Which, Other
  <2>6. \A x \in Which : TwoLists(mem, lists, x, <<>>, <<>>)
    BY <2>1, <2>3, <2>4, <2>5 DEF TwoLists
  <2> QED
    BY <2>6 DEF AreLists
<1>2. AreLists => ListInv
  BY ListsAgree, ListsFind, ListsRemove, ListsInsert DEF ListInv
<1> QED
  BY <1>1, <1>2, ListStep, PTL DEF ListSpec
=============================================================================
