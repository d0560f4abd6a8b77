----------------------------- MODULE CompileTime -----------------------------
(***************************************************************************)
(* compile_time_int_to_string.cpp and                                      *)
(* remove_continuous_duplicate_template_parameters.cpp: what the templates *)
(* are when they are instantiated with a number, or a list of numbers.     *)
(*                                                                         *)
(* A string is a sequence of digits, after Minus for a negative number, up *)
(* to the terminating 0.  The absolute value of a number is an int: the    *)
(* least int, for which -num has no value, does not compile.               *)
(***************************************************************************)
EXTENDS Integers, SequencesExt

CONSTANTS Number,    \* the numbers that are printed
          Element,   \* the elements of the lists
          MaxLength, \* bound: the length of a list
          Minus      \* the sign

cabs(n) == IF n < 0 THEN -n ELSE n

\* An absolute value has 31 bits.
ASSUME NumberAssumption ==
  /\ \A n \in Number : n \in Int /\ cabs(n) \div 65536 < 32768
  /\ MaxLength \in Nat

VARIABLES number, vector   \* the arguments of the templates

CompileInit == number \in Number /\ vector \in SeqOf(Element, MaxLength)

Signed(n, digits) == IF n < 0 THEN <<Minus>> \o digits ELSE digits
-----------------------------------------------------------------------------
\* approach1: the digits of what remains go before those that are there.
exploded[rem \in Nat] ==
  IF rem = 0 THEN <<>> ELSE Append(exploded[rem \div 10], rem % 10)

explode(n) == Signed(n, exploded[cabs(n)])

\* Mutation: a number of one digit more than 9 is taken for a digit.
AboveTen(i) == i > 10

HasMoreDigits(i) == i > 9

\* approach2: the objects c and c0 of the digits in the order of the memory.
UintToStrImpl[i \in Nat] ==
  IF HasMoreDigits(i) THEN Append(UintToStrImpl[i \div 10], i % 10) ELSE <<i>>

UintToStr(n) == Signed(n, UintToStrImpl[cabs(n)])

\* approach3: length() counts the digits and the constructor fills str from
\* the index of the last one down, a 16-bit number; str has 1024 elements.
lengthOf[val \in Nat] == IF val = 0 THEN 0 ELSE 1 + lengthOf[val \div 10]

length(n) == lengthOf[cabs(n)]

StrSize == 1024
Last16(n) == IF n < 0 THEN length(n) ELSE (length(n) - 1) % 65536
WritesInside(n) == Last16(n) + 1 <= StrSize

\* val after as many rounds of the loop.
Remaining(start) ==
  LET val[k \in Nat] == IF k = 0 THEN start ELSE val[k - 1] \div 10
  IN  val

Filled(n) ==
  LET first == IF n < 0 THEN 1 ELSE 0
      rounds(i) == Last16(n) - i
  IN  Signed(n, [d \in 1..length(n) |->
                   Remaining(cabs(n))[rounds(first + d - 1)] % 10])

DuplicateAhead(s, i) == i < Len(s) /\ s[i] = s[i + 1]

\* The list from each element on, without repetitions.
Deduplicated(s) ==
  LET f[i \in 1..(Len(s) + 1)] ==
        IF i > Len(s) THEN <<>>
        ELSE IF DuplicateAhead(s, i) THEN f[i + 1] ELSE <<s[i]>> \o f[i + 1]
  IN  f

RemoveDuplicates(s) == Deduplicated(s)[1]
-----------------------------------------------------------------------------
\* A decimal number as it is read: its value, and that it starts with its sign
\* and a digit that is not 0, unless it is one.
ValueOf[digits \in Seq(0..9)] ==
  IF digits = <<>> THEN 0 ELSE ValueOf[Front(digits)] * 10 + Last(digits)

Reads(s, n) ==
  LET digits == IF n < 0 THEN Tail(s) ELSE s
  IN  /\ s = Signed(n, digits)
      /\ digits # <<>> /\ digits \in Seq(0..9)
      /\ digits[1] = 0 => Len(digits) = 1
      /\ ValueOf[digits] = cabs(n)

\* The three conversions agree with decimal notation, except that 0 is the
\* empty string in the first (36) and is written outside of the array by the
\* third (116, 118), whose string stays empty.
PrintsTheNumber ==
  /\ Reads(UintToStr(number), number)
  /\ IF number = 0
     THEN explode(0) = <<>> /\ Filled(0) = <<>> /\ ~ WritesInside(0)
     ELSE /\ Reads(explode(number), number)
          /\ Reads(Filled(number), number) /\ WritesInside(number)

\* The list without repetitions has one element for every longest run of equal
\* ones, in order, and the elements of the runs are those of the list.
OneOfEachRun ==
  LET starts == {i \in DOMAIN vector : i = 1 \/ vector[i - 1] # vector[i]}
      rank(i) == Cardinality({j \in starts : j <= i})
      s == RemoveDuplicates(vector)
  IN  /\ Len(s) = Cardinality(starts)
      /\ \A i \in starts : s[rank(i)] = vector[i]

\* What the templates compute, for every number and every list of types.
TemplateInv == PrintsTheNumber /\ OneOfEachRun
=============================================================================
