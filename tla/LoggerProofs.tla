---------------------------- MODULE LoggerProofs ----------------------------
(***************************************************************************)
(* Proofs about Logger: the types, why no line goes where its file is not  *)
(* (DamageHasCause), that every line is in one file (EveryLineIsKept) and  *)
(* that closed files are whole and none is left open (FileInv), for any    *)
(* threads, sizes, lines and numbers of files.                             *)
(*                                                                         *)
(* At most one thread is in log(), and of the objects at most two live:    *)
(* the one of filePtr and the one setFile() is about to store.  While      *)
(* nothing has gone wrong but refused calls, these two share no file; each *)
(* maps a file of the size it knows, which holds the lines written through *)
(* it, one behind the other, and those of no other object (CalmInv).       *)
(***************************************************************************)
EXTENDS Logger, SequenceTheorems, TLAPS

\* Nothing has gone wrong but that calls were refused, files were not cut or
\* lines were too long for a file; or only the first two, or only the second.
Calm == causes \subseteq {"refused", "long", "unshrunk"}
Ordered == causes \subseteq {"refused", "unshrunk"}
Granted == causes \subseteq {"unshrunk"}

Live == {o \in DOMAIN mmf : ~ mmf[o].gone}
FilesOf(o) == {mmf[o].fd, mmf[o].map} \ {NoFile}

\* How far the lines reach that were copied through an object: beyond what it
\* knows of while its thread is in write().
Reach(o) ==
  IF spin # None /\ tpc[spin] = "advance" /\ using[spin] = o
  THEN mmf[o].written + line[spin].len ELSE mmf[o].written

\* The line a thread has still to copy.
Pending == IF spin # None /\ tpc[spin] # "advance" THEN {line[spin].id} ELSE {}

\* Which thread has the lock, which objects live, which parts there are.
LockInv ==
  /\ \A t \in Thread : tpc[t] # "idle" <=> spin = t
  /\ \A t \in Thread : IF tpc[t] = "idle" THEN line[t] = NoLine
                       ELSE filePtr # 0 /\ line[t] # NoLine
  /\ \A t \in Thread : line[t].id <= count
  /\ \A t \in Thread : tpc[t] = "advance" =>
       /\ using[t] # 0
       /\ mmf[using[t]].written + line[t].len <= mmf[using[t]].cap
ObjectInv ==
  /\ Live = ({filePtr} \ {0}) \cup (IF setting THEN {Len(mmf)} ELSE {})
  /\ setting => filePtr < Len(mmf)
  /\ \A o \in DOMAIN mmf : mmf[o].cap >= FileSize
PartInv ==
  /\ mmf # <<>> => name \in Name
  /\ counter <= count + 1
  /\ (\E t \in Thread : tpc[t] \in {"write", "grow"}) => counter <= count
  /\ \A f \in DOMAIN disk : f[2] < counter

\* The mappings of the objects that live, and whose files they are.
MapInv ==
  /\ ~ damaged
  /\ setting => spin = None
  /\ \A o \in Live :
       /\ ~ mmf[o].stale
       /\ IF mmf[o].map = NoFile THEN mmf[o].written = 0
          ELSE disk[mmf[o].map].size >= mmf[o].cap
  /\ \A o, p \in Live : o # p => FilesOf(o) \cap FilesOf(p) = {}
  /\ policy = "EXTEND_FILE" => \A o \in Live :
       (o = filePtr /\ setting) \/ mmf[o].map \in {mmf[o].fd, NoFile}
  /\ \A t \in Thread : tpc[t] = "advance" =>
       using[t] = filePtr /\ mmf[filePtr].map # NoFile
  /\ \A t \in Thread : tpc[t] = "rewrite" /\ line[t].len <= FileSize =>
       Fits(mmf[filePtr], line[t].len)

\* Where the lines are.
LineInv ==
  /\ \A o \in Live : \A f \in FilesOf(o) : \A l \in disk[f].lines :
       l.at + l.len <= Reach(o)
  /\ \A f, g \in DOMAIN disk : Numbers(f) \cap Numbers(g) # {} => f = g
  /\ \A f \in DOMAIN disk : Numbers(f) \subseteq (1..count) \ Pending
  /\ \A i \in 1..count : \/ i \in Pending \cup excused
                         \/ \E f \in DOMAIN disk : i \in Numbers(f)

\* The files of the objects that live are filled without a gap.
OrderInv ==
  /\ \A o \in Live : mmf[o].map \in {mmf[o].fd, NoFile}
  /\ \A o \in Live : mmf[o].fd # NoFile =>
       mmf[o].fd \in open /\ Filled(disk[mmf[o].fd].lines, Reach(o))
  /\ Granted => \A o \in Live : mmf[o].map # NoFile

CalmInv == Calm => MapInv /\ LineInv

IInv == /\ TypeOK
        /\ LockInv /\ ObjectInv /\ PartInv
        /\ CalmInv
        /\ Ordered => OrderInv
        /\ FilesAreWhole /\ FilesAreClosed
-----------------------------------------------------------------------------
(* The operators on files *)

\* NoFile is none of the files.
LEMMA NoFileIsNone == NoFile \notin FileId
BY NoneAssumption DEF NoFile, FileId

\* ftruncate() changes one file, which keeps the lines in front of its end.
LEMMA ResizedIs ==
  ASSUME NEW d, d \in [DOMAIN d -> Content], NEW f \in DOMAIN d,
         NEW size \in Nat
  PROVE  /\ Resized(d, f, size) \in [DOMAIN d -> Content]
         /\ DOMAIN Resized(d, f, size) = DOMAIN d
         /\ \A g \in DOMAIN d \ {f} : Resized(d, f, size)[g] = d[g]
         /\ Resized(d, f, size)[f].size = size
         /\ Resized(d, f, size)[f].lines =
              {l \in d[f].lines : l.at + l.len <= size}
<1>1. d[f] \in Content
  OBVIOUS
<1>2. [size |-> size, lines |-> {l \in d[f].lines : l.at + l.len <= size}]
        \in Content
  BY <1>1 DEF Content
<1> QED
  BY <1>2 DEF Resized

\* open() changes nothing but to create an empty file that was not there.
LEMMA OpenedIs ==
  ASSUME NEW d, d \in [DOMAIN d -> Content], NEW f
  PROVE  /\ DOMAIN Opened(d, f) = DOMAIN d \cup {f}
         /\ Opened(d, f) \in [DOMAIN d \cup {f} -> Content]
         /\ \A g \in DOMAIN d : Opened(d, f)[g] = d[g]
         /\ f \notin DOMAIN d =>
              Opened(d, f)[f] = [size |-> 0, lines |-> {}]
<1>1. [size |-> 0, lines |-> {}] \in Content
  BY DEF Content
<1> QED
  BY <1>1 DEF Opened

\* commit() cuts the file of the object, if it has one, to what was written, or
\* leaves it as it is.
LEMMA CommittedIs ==
  ASSUME NEW d, d \in [DOMAIN d -> Content], NEW m \in Mapping,
         m.fd \in DOMAIN d \cup {NoFile}, NEW fault \in Faults
  PROVE  LET c == Committed(d, m, fault)
         IN  /\ c \in [DOMAIN d -> Content] /\ DOMAIN c = DOMAIN d
             /\ \A g \in DOMAIN d \ {m.fd} : c[g] = d[g]
             /\ m.fd # NoFile /\ fault = None =>
                  /\ c[m.fd].size = m.written
                  /\ c[m.fd].lines =
                       {l \in d[m.fd].lines : l.at + l.len <= m.written}
             /\ fault # None => c = d
<1>1. m.written \in Nat
  BY DEF Mapping
<1>2. CASE m.fd = NoFile \/ fault # None
  BY <1>2 DEF Committed
<1>3. CASE m.fd # NoFile /\ fault = None
  BY <1>1, <1>3, ResizedIs DEF Committed
<1> QED
  BY <1>2, <1>3

\* newFile() leaves an object.
LEMMA NewFileObjectType ==
  ASSUME NEW m \in Mapping, NEW f \in FileId, NEW failing \in Calls
  PROVE  NewFileObject(m, f, failing) \in Mapping
BY DEF NewFileObject, Mapping

\* The files that newFile() leaves are those there were and the new one, unless
\* it cannot be opened.
LEMMA NewFileDiskType ==
  ASSUME disk \in [DOMAIN disk -> Content],
         NEW m \in Mapping, m.fd \in DOMAIN disk \cup {NoFile},
         NEW f \in FileId, NEW failing \in Calls, NEW fault \in Faults
  PROVE  LET d == NewFileDisk(m, f, failing, fault)
         IN  /\ failing = "open" => DOMAIN d = DOMAIN disk
             /\ failing # "open" => DOMAIN d = DOMAIN disk \cup {f}
             /\ d \in [DOMAIN d -> Content]
<1> DEFINE d == IF CommitsFirst(m) THEN Committed(disk, m, fault) ELSE disk
           opened == Opened(d, f)
           sized == Resized(opened, f, m.cap)
<1>1. d \in [DOMAIN d -> Content] /\ DOMAIN d = DOMAIN disk
  BY CommittedIs
<1>2. NewFileDisk(m, f, failing, fault) =
        IF failing = "open" THEN d
        ELSE IF failing = "ftruncate" THEN opened ELSE sized
  BY DEF NewFileDisk
<1> HIDE DEF d
<1>3. /\ DOMAIN opened = DOMAIN disk \cup {f}
      /\ opened \in [DOMAIN opened -> Content]
  BY <1>1, OpenedIs
<1> HIDE DEF opened
<1>4. DOMAIN sized = DOMAIN opened /\ sized \in [DOMAIN sized -> Content]
  <2>1. m.cap \in Nat /\ f \in DOMAIN opened
    BY <1>3 DEF Mapping
  <2>2. DOMAIN sized = DOMAIN opened /\ sized \in [DOMAIN opened -> Content]
    BY <1>3, <2>1, ResizedIs
  <2> HIDE DEF sized
  <2> QED
    BY <2>2
<1> HIDE DEF sized
<1> QED
  BY <1>1, <1>2, <1>3, <1>4

\* The object's own file is committed if it was written to, and the new one is
\* empty and has the object's size unless a call failed.  A commit that does not
\* cut the file leaves all but the new one as they are.
LEMMA NewFileDiskIs ==
  ASSUME disk \in [DOMAIN disk -> Content],
         NEW m \in Mapping, m.fd \in DOMAIN disk \cup {NoFile},
         NEW f \in FileId, NEW failing \in Calls, NEW fault \in Faults
  PROVE  LET d == NewFileDisk(m, f, failing, fault)
         IN  /\ \A g \in DOMAIN disk \ {f} :
                  g # m.fd \/ m.written = 0 \/ fault # None => d[g] = disk[g]
             /\ m.written > 0 /\ m.fd \notin {f, NoFile} /\ fault = None =>
                  /\ d[m.fd].size = m.written
                  /\ (\A l \in disk[m.fd].lines : l.at + l.len <= m.written)
                       => d[m.fd].lines = disk[m.fd].lines
             /\ f \notin DOMAIN disk /\ failing # "open" =>
                  /\ d[f].lines = {}
                  /\ failing = None => d[f].size = m.cap
<1> DEFINE d == IF CommitsFirst(m) THEN Committed(disk, m, fault) ELSE disk
           opened == Opened(d, f)
           sized == Resized(opened, f, m.cap)
<1>1. /\ d \in [DOMAIN disk -> Content] /\ DOMAIN d = DOMAIN disk
      /\ \A g \in DOMAIN disk :
           g # m.fd \/ m.written = 0 \/ fault # None => d[g] = disk[g]
      /\ m.written > 0 /\ m.fd # NoFile /\ fault = None =>
           /\ d[m.fd].size = m.written
           /\ (\A l \in disk[m.fd].lines : l.at + l.len <= m.written)
                => d[m.fd].lines = disk[m.fd].lines
  <2>2. CASE CommitsFirst(m)
    <3> DEFINE c == Committed(disk, m, fault)
    <3>1. /\ c \in [DOMAIN disk -> Content] /\ DOMAIN c = DOMAIN disk
          /\ \A g \in DOMAIN disk \ {m.fd} : c[g] = disk[g]
          /\ fault # None => c = disk
      BY CommittedIs
    <3>2. m.fd # NoFile /\ fault = None =>
            /\ c[m.fd].size = m.written
            /\ c[m.fd].lines =
                 {l \in disk[m.fd].lines : l.at + l.len <= m.written}
      BY CommittedIs
    <3>3. d = c /\ m.written > 0 /\ m.written \in Nat
      BY <2>2 DEF CommitsFirst, Mapping
    <3> HIDE DEF c, d
    <3>4. m.fd # NoFile /\ fault = None =>
            /\ d[m.fd].size = m.written
            /\ (\A l \in disk[m.fd].lines : l.at + l.len <= m.written)
                 => d[m.fd].lines = disk[m.fd].lines
      BY <3>2, <3>3
    <3> QED
      BY <3>1, <3>3, <3>4
  <2>3. CASE ~ CommitsFirst(m)
    BY <2>3 DEF CommitsFirst, Mapping
  <2> QED
    BY <2>2, <2>3
<1>2. NewFileDisk(m, f, failing, fault) =
        IF failing = "open" THEN d
        ELSE IF failing = "ftruncate" THEN opened ELSE sized
  BY DEF NewFileDisk
<1> HIDE DEF d
<1>3. /\ DOMAIN opened = DOMAIN disk \cup {f}
      /\ opened \in [DOMAIN disk \cup {f} -> Content]
      /\ \A g \in DOMAIN disk : opened[g] = d[g]
      /\ f \notin DOMAIN disk => opened[f] = [size |-> 0, lines |-> {}]
  <2>1. d \in [DOMAIN d -> Content]
    BY <1>1
  <2>2. /\ DOMAIN opened = DOMAIN d \cup {f}
        /\ opened \in [DOMAIN d \cup {f} -> Content]
        /\ \A g \in DOMAIN d : opened[g] = d[g]
        /\ f \notin DOMAIN d => opened[f] = [size |-> 0, lines |-> {}]
    BY <2>1, OpenedIs
  <2> HIDE DEF opened
  <2> QED
    BY <1>1, <2>2
<1> HIDE DEF opened
<1>4. m.cap \in Nat
  BY DEF Mapping
<1>5. /\ DOMAIN sized = DOMAIN opened
      /\ sized \in [DOMAIN opened -> Content]
      /\ \A g \in DOMAIN opened \ {f} : sized[g] = opened[g]
      /\ sized[f].size = m.cap
      /\ sized[f].lines = {l \in opened[f].lines : l.at + l.len <= m.cap}
  <2>1. opened \in [DOMAIN opened -> Content] /\ f \in DOMAIN opened
    BY <1>3
  <2> QED
    BY <1>4, <2>1, ResizedIs
<1> HIDE DEF sized
<1>6. CASE failing = "open"
  BY <1>1, <1>2, <1>6 DEF None
<1>7. CASE failing = "ftruncate"
  BY <1>1, <1>2, <1>3, <1>7 DEF None
<1>8. CASE failing \in {"mmap", None}
  BY <1>1, <1>2, <1>3, <1>5, <1>8 DEF None
<1> QED
  BY <1>6, <1>7, <1>8 DEF Calls
-----------------------------------------------------------------------------
(* What the invariant says in the steps *)

\* The constants as numbers.
LEMMA Constants ==
  /\ FileSize \in Nat \ {0} /\ MaxLines \in Nat /\ MaxFiles \in Nat
  /\ \A len \in Length : len \in Nat \ {0}
  /\ None \notin Thread
BY SizeAssumption, LengthAssumption, BoundAssumption, NoneAssumption

\* The objects, as the values of a function.
LEMMA Objects ==
  ASSUME TypeOK
  PROVE  /\ Len(mmf) \in Nat /\ DOMAIN mmf = 1..Len(mmf)
         /\ \A o \in 1..Len(mmf) :
              /\ mmf[o] \in Mapping
              /\ mmf[o].fd \in FileId \cup {NoFile}
              /\ mmf[o].map \in FileId \cup {NoFile}
              /\ mmf[o].cap \in Nat /\ mmf[o].written \in Nat
              /\ mmf[o].stale \in BOOLEAN /\ mmf[o].gone \in BOOLEAN
<1>1. mmf \in Seq(Mapping)
  BY DEF TypeOK
<1>2. /\ Len(mmf) \in Nat /\ DOMAIN mmf = 1..Len(mmf)
      /\ \A o \in 1..Len(mmf) : mmf[o] \in Mapping
  BY <1>1, LenProperties, ElementOfSeq
<1> QED
  BY <1>2 DEF Mapping

\* A thread in log() has the lock and a line, and its object is the one that
\* is written to; while all is calm there is no other.
LEMMA BusyThread ==
  ASSUME IInv, NEW t \in Thread, tpc[t] # "idle"
  PROVE  /\ spin = t /\ t # None
         /\ \A u \in Thread \ {t} : tpc[u] = "idle" /\ line[u] = NoLine
         /\ filePtr \in 1..Len(mmf) /\ name \in Name
         /\ line[t] \in [id : 1..MaxLines, len : Length]
         /\ line[t].id \in 1..count /\ line[t].len \in Nat \ {0}
         /\ Calm => ~ setting /\ Live = {filePtr}
<1>1. spin = t /\ t # None /\ filePtr # 0 /\ line[t] # NoLine
      /\ line[t].id <= count
  BY Constants DEF IInv, LockInv
<1>2. \A u \in Thread \ {t} : tpc[u] = "idle" /\ line[u] = NoLine
  BY <1>1 DEF IInv, LockInv
<1>3. filePtr \in 1..Len(mmf)
  BY <1>1, Objects DEF IInv, TypeOK
<1>4. name \in Name
  BY <1>3, Objects, EmptySeq DEF IInv, PartInv
<1>5. line[t] \in [id : 1..MaxLines, len : Length]
  BY <1>1 DEF IInv, TypeOK
<1>6. line[t].id \in 1..count /\ line[t].len \in Nat \ {0}
  BY <1>1, <1>5, Constants DEF IInv, TypeOK
<1>7. Calm => ~ setting /\ Live = {filePtr}
  BY <1>1 DEF IInv, CalmInv, MapInv, ObjectInv
<1> QED
  BY <1>1, <1>2, <1>3, <1>4, <1>5, <1>6, <1>7

\* The causes only grow.
LEMMA CausesStay ==
  ASSUME [Next]_vars
  PROVE  /\ causes \subseteq causes'
         /\ (Calm' => Calm) /\ (Ordered' => Ordered) /\ (Granted' => Granted)
<1>1. causes \subseteq causes'
  BY DEF Next, LogStep, Log, Write, Advance, DoesNotFit, GrowByNewFile,
         GrowByExtending, SetFile, StoreFile, End, Replace, vars, past
<1> QED
  BY <1>1 DEF Calm, Ordered, Granted

\* A closed file stays whole while it is not touched.
LEMMA WholeStays ==
  ASSUME NEW f, disk'[f] = disk[f], causes \subseteq causes', Whole(f)
  PROVE  Whole(f)'
BY DEF Whole

\* So do all files, and which of them are open, while neither they nor the
\* descriptors change.
LEMMA FilesStay ==
  ASSUME FilesAreWhole, FilesAreClosed, UNCHANGED <<disk, open>>,
         causes \subseteq causes', DOMAIN mmf' = DOMAIN mmf,
         \A o \in DOMAIN mmf :
           mmf'[o].fd = mmf[o].fd /\ mmf'[o].gone = mmf[o].gone
  PROVE  FilesAreWhole' /\ FilesAreClosed'
<1>1. FilesAreWhole'
  BY WholeStays DEF FilesAreWhole
<1>2. FilesAreClosed'
  BY DEF FilesAreClosed
<1> QED
  BY <1>1, <1>2

\* The invariant holds at first.
LEMMA InvInit == Init => IInv
<1> SUFFICES ASSUME Init PROVE IInv
  OBVIOUS
<1> USE DEF Init
<1>1. mmf \in Seq(Mapping) /\ Len(mmf) = 0 /\ DOMAIN mmf = {}
  OBVIOUS
<1>2. disk \in [DOMAIN disk -> Content] /\ DOMAIN disk = {}
  OBVIOUS
<1>3. TypeOK
  <2>1. /\ DOMAIN disk \subseteq FileId /\ disk \in [DOMAIN disk -> Content]
        /\ open \subseteq DOMAIN disk
        /\ mmf \in Seq(Mapping) /\ Len(mmf) <= MaxFiles
        /\ \A o \in DOMAIN mmf :
             /\ {mmf[o].fd, mmf[o].map} \subseteq DOMAIN disk \cup {NoFile}
             /\ mmf[o].written <= mmf[o].cap
    BY <1>1, <1>2, Constants
  <2>2. /\ filePtr \in 0..Len(mmf)
        /\ policy \in Policy /\ name \in Name \cup {None}
        /\ counter \in 1..(MaxLines + 1)
        /\ spin \in Thread \cup {None}
    BY <1>1, Constants DEF Policy
  <2>3. /\ tpc \in [Thread -> {"idle", "write", "advance", "grow", "rewrite"}]
        /\ line \in [Thread -> [id : 1..MaxLines, len : Length] \cup {NoLine}]
        /\ using \in [Thread -> 0..Len(mmf)]
    BY <1>1
  <2>4. setting \in BOOLEAN /\ ended \in BOOLEAN /\ damaged \in BOOLEAN
    OBVIOUS
  <2>5. /\ count \in 0..MaxLines /\ excused \subseteq 1..count
        /\ causes \subseteq Causes
    BY Constants
  <2> HIDE DEF Init
  <2> QED
    BY <2>1, <2>2, <2>3, <2>4, <2>5 DEF TypeOK
<1>4. LockInv
  BY <1>3, Constants DEF LockInv, NoLine
<1>5. ObjectInv /\ PartInv
  BY <1>1, <1>2 DEF ObjectInv, PartInv, Live
<1>6. CalmInv
  BY <1>1, <1>2 DEF CalmInv, MapInv, LineInv, Live
<1>7. OrderInv /\ FilesAreWhole /\ FilesAreClosed
  BY <1>1, <1>2 DEF OrderInv, Live, FilesAreWhole, FilesAreClosed
<1> QED
  BY <1>3, <1>4, <1>5, <1>6, <1>7 DEF IInv
-----------------------------------------------------------------------------
(* The steps that leave the files alone *)

\* What the files and the objects are does not change with what threads do.
LEMMA SameObjects ==
  ASSUME mmf' = mmf, filePtr' = filePtr, setting' = setting, ObjectInv
  PROVE  Live' = Live /\ ObjectInv' /\ \A o : FilesOf(o)' = FilesOf(o)
BY DEF ObjectInv, Live, FilesOf

\* A call of log() (285-317) that takes the lock keeps the invariant.
LEMMA LogKeeps ==
  ASSUME IInv, NEW t \in Thread, NEW len \in Length, Log(t, len)
  PROVE  IInv'
<1> USE DEF IInv
<1>1. /\ tpc[t] = "idle" /\ spin = None /\ count < MaxLines
      /\ count' = count + 1 /\ damaged' = damaged /\ ended' = ended
      /\ UNCHANGED <<files, setup>>
  BY DEF Log, LockIsFree, files, setup
<1>2. /\ count \in Nat /\ count' \in 0..MaxLines /\ count' \in 1..count'
      /\ 1..count \subseteq 1..count' /\ ~ (count' \in 1..count)
  BY <1>1, Constants DEF TypeOK
<1>3. /\ UNCHANGED <<disk, open, mmf, counter, filePtr, policy, name, setting>>
      /\ Live' = Live /\ ObjectInv' /\ \A o : FilesOf(o)' = FilesOf(o)
      /\ \A f : Numbers(f)' = Numbers(f)
  BY <1>1, SameObjects DEF files, setup, Numbers
<1>4. /\ \A u \in Thread : tpc[u] = "idle"
      /\ Pending = {} /\ \A o : Reach(o) = mmf[o].written
  BY <1>1, Constants DEF LockInv, Pending, Reach
<1>5. CASE filePtr = 0
  <2>1. /\ excused' = excused \cup {count'}
        /\ UNCHANGED <<spin, tpc, line, using, causes>>
    BY <1>5 DEF Log, threads
  <2>2. Pending' = {} /\ \A o : Reach(o)' = mmf[o].written
    BY <1>1, <1>3, <2>1 DEF Pending, Reach
  <2>3. TypeOK'
    BY <1>1, <1>2, <1>3, <2>1 DEF TypeOK
  <2>4. LockInv' /\ PartInv'
    BY <1>1, <1>2, <1>3, <1>4, <2>1 DEF LockInv, PartInv, TypeOK, NoLine
  <2>5. CalmInv'
    BY <1>1, <1>2, <1>3, <1>4, <2>1, <2>2
       DEF CalmInv, Calm, MapInv, LineInv, Fits
  <2>6. Ordered' => OrderInv'
    BY <1>1, <1>3, <1>4, <2>1, <2>2 DEF Ordered, OrderInv, Granted
  <2>7. FilesAreWhole' /\ FilesAreClosed'
    BY <1>1, <1>3, <2>1, FilesStay
  <2> QED
    BY <1>3, <2>3, <2>4, <2>5, <2>6, <2>7
<1>6. CASE filePtr # 0
  <2>1. /\ spin' = t /\ tpc' = [tpc EXCEPT ![t] = "write"]
        /\ line' = [line EXCEPT ![t] = [id |-> count', len |-> len]]
        /\ causes' = IF setting THEN causes \cup {"overlap"} ELSE causes
        /\ UNCHANGED <<using, excused>>
    BY <1>6 DEF Log
  <2>2. /\ tpc' \in [Thread -> {"idle", "write", "advance", "grow", "rewrite"}]
        /\ line' \in [Thread -> [id : 1..MaxLines, len : Length] \cup {NoLine}]
        /\ line'[t] = [id |-> count', len |-> len] /\ tpc'[t] = "write"
        /\ \A u \in Thread \ {t} : line'[u] = line[u] /\ tpc'[u] = tpc[u]
    BY <1>2, <2>1 DEF TypeOK
  <2>3. Pending' = {count'} /\ \A o : Reach(o)' = mmf[o].written
    BY <1>3, <2>1, <2>2, Constants DEF Pending, Reach
  <2>4. TypeOK'
    BY <1>1, <1>2, <1>3, <2>1, <2>2 DEF TypeOK, Causes
  <2>5. LockInv' /\ PartInv'
    BY <1>1, <1>2, <1>3, <1>4, <1>6, <2>1, <2>2
       DEF LockInv, PartInv, TypeOK, NoLine
  <2>6. CalmInv'
    BY <1>1, <1>2, <1>3, <1>4, <2>1, <2>2, <2>3
       DEF CalmInv, Calm, MapInv, LineInv, Fits
  <2>7. Ordered' => OrderInv'
    BY <1>1, <1>3, <1>4, <2>1, <2>3 DEF Ordered, OrderInv, Granted
  <2>8. FilesAreWhole' /\ FilesAreClosed'
    BY <1>1, <1>3, <2>1, FilesStay
  <2> QED
    BY <1>3, <2>4, <2>5, <2>6, <2>7, <2>8
<1> QED
  BY <1>5, <1>6

\* The thread that leaves log() gives the lock back.
LEMMA Returned ==
  ASSUME TypeOK, LockInv, NEW t \in Thread, spin = t, Return(t)
  PROVE  /\ spin' = None
         /\ tpc' \in [Thread -> {"idle", "write", "advance", "grow", "rewrite"}]
         /\ line' \in [Thread -> [id : 1..MaxLines, len : Length] \cup {NoLine}]
         /\ using' \in [Thread -> 0..Len(mmf)]
         /\ \A u \in Thread : tpc'[u] = "idle" /\ line'[u] = NoLine
         /\ count' = count => LockInv'
         /\ Pending' = {} /\ \A o : Reach(o)' = mmf'[o].written
<1>1. /\ spin' = None
      /\ tpc' = [tpc EXCEPT ![t] = "idle"]
      /\ line' = [line EXCEPT ![t] = NoLine]
      /\ using' = [using EXCEPT ![t] = 0]
  BY DEF Return
<1>2. /\ tpc' \in [Thread -> {"idle", "write", "advance", "grow", "rewrite"}]
      /\ line' \in [Thread -> [id : 1..MaxLines, len : Length] \cup {NoLine}]
  BY <1>1 DEF TypeOK
<1>3. using' \in [Thread -> 0..Len(mmf)]
  BY <1>1, Objects DEF TypeOK
<1>4. \A u \in Thread : tpc'[u] = "idle" /\ line'[u] = NoLine
  BY <1>1 DEF TypeOK, LockInv
<1>5. count' = count => LockInv'
  BY <1>1, <1>4, Constants DEF LockInv, TypeOK, NoLine
<1>6. Pending' = {} /\ \A o : Reach(o)' = mmf'[o].written
  BY <1>1 DEF Pending, Reach
<1> QED
  BY <1>1, <1>2, <1>3, <1>4, <1>5, <1>6

\* A field of an object is written.
LEMMA ObjectChanged ==
  ASSUME TypeOK, NEW o \in 1..Len(mmf), NEW m \in Mapping,
         mmf' = [mmf EXCEPT ![o] = m]
  PROVE  /\ mmf' \in Seq(Mapping) /\ Len(mmf') = Len(mmf)
         /\ DOMAIN mmf' = 1..Len(mmf)
         /\ mmf'[o] = m /\ \A p \in 1..Len(mmf) \ {o} : mmf'[p] = mmf[p]
<1>1. mmf \in Seq(Mapping)
  BY DEF TypeOK
<1>2. /\ mmf' \in Seq(Mapping) /\ Len(mmf') = Len(mmf)
      /\ \A p \in 1..Len(mmf) : mmf'[p] = IF p = o THEN m ELSE mmf[p]
  BY <1>1, ExceptSeq
<1> QED
  BY <1>2, LenProperties

\* The addresses of an object are updated (126-128).
LEMMA WrittenIs ==
  ASSUME NEW r \in Mapping, NEW n \in Nat
  PROVE  LET m == [r EXCEPT !.written = n]
         IN  /\ m \in Mapping /\ m.written = n
             /\ m.fd = r.fd /\ m.map = r.map /\ m.cap = r.cap
             /\ m.stale = r.stale /\ m.gone = r.gone
BY DEF Mapping

\* The update of the addresses (125-128) keeps the invariant.
LEMMA AdvanceKeeps ==
  ASSUME IInv, NEW t \in Thread, Advance(t)
  PROVE  IInv'
<1> USE DEF IInv
<1> DEFINE o == using[t]
           m == [mmf[o] EXCEPT !.written = @ + line[t].len]
<1>1. /\ tpc[t] = "advance" /\ Return(t)
      /\ damaged' = mmf[o].gone /\ mmf' = [mmf EXCEPT ![o] = m]
      /\ UNCHANGED <<disk, open, counter, filePtr, policy, name, setting, ended,
                     count, excused, causes>>
  BY DEF Advance, setup
<1>2. /\ spin = t /\ t # None /\ filePtr \in 1..Len(mmf)
      /\ line[t].id \in 1..count /\ line[t].len \in Nat \ {0}
      /\ Calm => Live = {filePtr}
  BY <1>1, BusyThread
<1>3. o \in 1..Len(mmf) /\ mmf[o].written + line[t].len <= mmf[o].cap
  BY <1>1, Objects DEF LockInv, TypeOK
<1>4. /\ m \in Mapping /\ m.written = mmf[o].written + line[t].len
      /\ m.fd = mmf[o].fd /\ m.map = mmf[o].map /\ m.cap = mmf[o].cap
      /\ m.stale = mmf[o].stale /\ m.gone = mmf[o].gone
  <2>1. mmf[o] \in Mapping /\ mmf[o].written + line[t].len \in Nat
    BY <1>2, <1>3, Objects
  <2> QED
    BY <2>1, WrittenIs
<1> HIDE DEF m
<1>5. /\ mmf' \in Seq(Mapping) /\ Len(mmf') = Len(mmf)
      /\ DOMAIN mmf' = 1..Len(mmf) /\ DOMAIN mmf = 1..Len(mmf)
      /\ mmf'[o] = m /\ \A p \in 1..Len(mmf) \ {o} : mmf'[p] = mmf[p]
  BY <1>1, <1>3, <1>4, ObjectChanged, Objects
<1>6. \A p \in 1..Len(mmf) :
        /\ mmf'[p].fd = mmf[p].fd /\ mmf'[p].map = mmf[p].map
        /\ mmf'[p].cap = mmf[p].cap /\ mmf'[p].stale = mmf[p].stale
        /\ mmf'[p].gone = mmf[p].gone /\ mmf'[p].written <= mmf'[p].cap
        /\ mmf'[p].written = IF p = o THEN mmf[p].written + line[t].len
                                      ELSE mmf[p].written
  BY <1>3, <1>4, <1>5 DEF TypeOK
<1>7. /\ Live' = Live /\ ObjectInv' /\ Live \subseteq 1..Len(mmf)
      /\ \A p \in 1..Len(mmf) : FilesOf(p)' = FilesOf(p)
  BY <1>1, <1>5, <1>6 DEF ObjectInv, Live, FilesOf
<1>8. \A p \in 1..Len(mmf) : Reach(p)' = Reach(p)
  BY <1>1, <1>2, <1>6, Returned DEF Reach
<1>9. damaged' \in BOOLEAN
  BY <1>1, <1>3, Objects
<1>10. TypeOK'
  BY <1>1, <1>2, <1>5, <1>6, <1>9, Returned DEF TypeOK
<1>11. LockInv' /\ PartInv'
  BY <1>1, <1>2, <1>5, Returned DEF PartInv
<1>12. Calm' => MapInv'
  <2> SUFFICES ASSUME Calm' PROVE MapInv'
    OBVIOUS
  <2>1. Calm /\ MapInv
    BY <1>1 DEF Calm, CalmInv
  <2>2. ~ damaged'
    BY <1>1, <1>2, <2>1 DEF Live, MapInv
  <2>3. \A p \in Live : IF mmf[p].map = NoFile THEN mmf'[p].written = 0
                        ELSE disk[mmf[p].map].size >= mmf[p].cap
    BY <1>1, <1>2, <1>6, <1>7, <2>1 DEF MapInv
  <2> QED
    BY <1>1, <1>2, <1>6, <1>7, <2>1, <2>2, <2>3, Returned DEF MapInv
<1>13. \A f : Numbers(f)' = Numbers(f)
  BY <1>1 DEF Numbers
<1>14. Calm' => LineInv'
  <2> SUFFICES ASSUME Calm' PROVE LineInv'
    OBVIOUS
  <2>1. LineInv
    BY <1>1 DEF Calm, CalmInv
  <2>2. Pending' = {} /\ Pending = {}
    BY <1>1, <1>2, Returned DEF Pending
  <2>3. \A p \in Live' : \A f \in FilesOf(p)' : \A l \in disk[f].lines :
          l.at + l.len <= Reach(p)'
    BY <1>7, <1>8, <2>1 DEF LineInv
  <2> QED
    BY <1>1, <1>13, <2>1, <2>2, <2>3 DEF LineInv
<1>15. Ordered' => OrderInv'
  <2> SUFFICES ASSUME Ordered' PROVE OrderInv'
    OBVIOUS
  <2>1. OrderInv
    BY <1>1 DEF Ordered
  <2>2. \A p \in Live' : mmf'[p].fd # NoFile =>
          mmf'[p].fd \in open /\ Filled(disk[mmf'[p].fd].lines, Reach(p)')
    BY <1>6, <1>7, <1>8, <2>1 DEF OrderInv
  <2> QED
    BY <1>1, <1>6, <1>7, <2>1, <2>2 DEF OrderInv, Granted
<1>16. FilesAreWhole' /\ FilesAreClosed'
  BY <1>1, <1>5, <1>6, FilesStay
<1> QED
  BY <1>7, <1>10, <1>11, <1>12, <1>14, <1>15, <1>16 DEF CalmInv

\* A line that does not fit (119-122) keeps the invariant.
LEMMA DoesNotFitKeeps ==
  ASSUME IInv, NEW t \in Thread, DoesNotFit(t)
  PROVE  IInv'
<1> USE DEF IInv
<1>1. /\ tpc[t] \in {"write", "rewrite"} /\ ~ Fits(mmf[filePtr], line[t].len)
      /\ UNCHANGED <<files, setup, count, causes, damaged>>
      /\ excused' = IF tpc[t] = "rewrite" /\ line[t].len > FileSize
                    THEN excused \cup {line[t].id} ELSE excused
  BY DEF DoesNotFit
<1>2. /\ spin = t /\ t # None /\ filePtr \in 1..Len(mmf)
      /\ line[t].id \in 1..count /\ line[t].len \in Nat \ {0}
      /\ \A u \in Thread \ {t} : tpc[u] = "idle" /\ line[u] = NoLine
  BY <1>1, BusyThread
<1>3. /\ UNCHANGED <<disk, open, mmf, counter, filePtr, policy, name, setting>>
      /\ ended' = ended
      /\ Live' = Live /\ ObjectInv' /\ \A o : FilesOf(o)' = FilesOf(o)
      /\ \A f : Numbers(f)' = Numbers(f)
  BY <1>1, SameObjects DEF files, setup, Numbers
<1>4. Pending = {line[t].id} /\ \A o : Reach(o) = mmf[o].written
  BY <1>1, <1>2 DEF Pending, Reach
<1>5. excused' \subseteq 1..count'
  BY <1>1, <1>2 DEF TypeOK
<1>6. CASE tpc[t] = "write"
  <2>1. tpc' = [tpc EXCEPT ![t] = "grow"] /\ UNCHANGED <<spin, line, using>>
    BY <1>6 DEF DoesNotFit
  <2>2. /\ tpc' \in [Thread -> {"idle", "write", "advance", "grow", "rewrite"}]
        /\ tpc'[t] = "grow" /\ \A u \in Thread \ {t} : tpc'[u] = tpc[u]
    BY <2>1 DEF TypeOK
  <2>3. Pending' = Pending /\ \A o : Reach(o)' = mmf[o].written
    BY <1>2, <1>3, <1>4, <2>1, <2>2 DEF Pending, Reach
  <2>4. TypeOK'
    BY <1>1, <1>3, <1>5, <2>1, <2>2 DEF TypeOK
  <2>5. LockInv' /\ PartInv'
    BY <1>1, <1>2, <1>3, <1>6, <2>1, <2>2 DEF LockInv, PartInv
  <2>6. CalmInv'
    BY <1>1, <1>2, <1>3, <1>4, <1>6, <2>1, <2>2, <2>3
       DEF CalmInv, Calm, MapInv, LineInv, Fits
  <2>7. Ordered' => OrderInv'
    BY <1>1, <1>3, <1>4, <2>3 DEF Ordered, OrderInv, Granted
  <2>8. FilesAreWhole' /\ FilesAreClosed'
    BY <1>1, <1>3, FilesStay
  <2> QED
    BY <1>3, <2>4, <2>5, <2>6, <2>7, <2>8
<1>7. CASE tpc[t] = "rewrite"
  <2>1. Return(t)
    BY <1>7 DEF DoesNotFit
  <2>2. TypeOK'
    BY <1>1, <1>2, <1>3, <1>5, <2>1, Returned DEF TypeOK
  <2>3. LockInv' /\ PartInv'
    BY <1>1, <1>2, <1>3, <2>1, Returned DEF PartInv
  <2>4. Calm' => MapInv'
    BY <1>1, <1>2, <1>3, <2>1, Returned DEF CalmInv, Calm, MapInv
  <2>5. Calm' => LineInv'
    <3> SUFFICES ASSUME Calm' PROVE LineInv'
      OBVIOUS
    <3>1. Calm /\ MapInv /\ LineInv
      BY <1>1 DEF Calm, CalmInv
    <3>2. line[t].id \in excused'
      BY <1>1, <1>2, <1>7, <3>1, Constants DEF MapInv
    <3> QED
      BY <1>1, <1>2, <1>3, <1>4, <2>1, <3>1, <3>2, Returned DEF LineInv
  <2>6. Ordered' => OrderInv'
    BY <1>1, <1>2, <1>3, <1>4, <2>1, Returned DEF Ordered, OrderInv, Granted
  <2>7. FilesAreWhole' /\ FilesAreClosed'
    BY <1>1, <1>3, FilesStay
  <2> QED
    BY <1>3, <2>2, <2>3, <2>4, <2>5, <2>6, <2>7 DEF CalmInv
<1> QED
  BY <1>1, <1>6, <1>7

\* A line is copied to where no line is, or over the one that is there.
LEMMA CopiedIs ==
  ASSUME NEW d, d \in [DOMAIN d -> Content], NEW f \in DOMAIN d,
         NEW l \in Line
  PROVE  /\ Copied(d, f, l) \in [DOMAIN d -> Content]
         /\ DOMAIN Copied(d, f, l) = DOMAIN d
         /\ \A g \in DOMAIN d \ {f} : Copied(d, f, l)[g] = d[g]
         /\ Copied(d, f, l)[f].size = d[f].size
         /\ Copied(d, f, l)[f].lines =
              {k \in d[f].lines : k.at # l.at} \cup {l}
<1>1. d[f] \in Content
  OBVIOUS
<1>2. [size |-> d[f].size,
       lines |-> {k \in d[f].lines : k.at # l.at} \cup {l}] \in Content
  BY <1>1 DEF Content
<1> QED
  BY <1>2 DEF Copied

\* A file that is filled up to where a line begins is filled up to where it
\* ends when the line is added.
LEMMA FilledByOneMore ==
  ASSUME NEW old \in SUBSET Line, NEW n \in Nat, NEW l \in Line, l.at = n,
         Filled(old, n)
  PROVE  Filled(old \cup {l}, n + l.len)
<1>1. \A k \in old \cup {l} : k.at \in Nat /\ k.len \in Nat \ {0}
  BY Constants DEF Line
<1>2. \A b \in 0..(n - 1) : ~ Covers(l, b)
  BY <1>1 DEF Covers
<1>3. \A b \in n..(n + l.len - 1) :
        Covers(l, b) /\ \A k \in old : ~ Covers(k, b)
  BY <1>1 DEF Covers, Filled
<1>4. l.len \in Nat
  BY <1>1
<1> DEFINE all == old \cup {l}
           end == n + l.len
<1>5. ASSUME NEW b \in 0..(end - 1)
      PROVE  \E k \in all : \A j \in all : Covers(j, b) <=> j = k
  <2>1. b \in 0..(n - 1) \/ b \in n..(n + l.len - 1)
    BY <1>4
  <2>2. CASE b \in 0..(n - 1)
    <3>1. PICK k \in old : \A j \in old : Covers(j, b) <=> j = k
      BY <2>2 DEF Filled
    <3>2. \A j \in old \cup {l} : Covers(j, b) <=> j = k
      BY <1>2, <2>2, <3>1
    <3> QED
      BY <3>2
  <2>3. CASE b \in n..(n + l.len - 1)
    <3>1. \A j \in old \cup {l} : Covers(j, b) <=> j = l
      BY <1>3, <2>3
    <3> QED
      BY <3>1
  <2> QED
    BY <2>1, <2>2, <2>3
<1>6. \A k \in all : k.at + k.len <= end
  BY <1>1 DEF Filled
<1> HIDE DEF all, end
<1>7. Filled(all, end)
  BY <1>5, <1>6 DEF Filled
<1> QED
  BY <1>7 DEF all, end

\* The copy of a line that fits (124) keeps the invariant.
LEMMA WriteKeeps ==
  ASSUME IInv, NEW t \in Thread, Write(t)
  PROVE  IInv'
<1> USE DEF IInv
<1> DEFINE m == mmf[filePtr]
           len == line[t].len
           new == [id |-> line[t].id, len |-> len, at |-> m.written]
<1>1. /\ tpc[t] \in {"write", "rewrite"} /\ Fits(m, len)
      /\ IF m.stale \/ disk[m.map].size < m.written + len
         THEN damaged' = TRUE /\ UNCHANGED <<files, threads>>
         ELSE /\ disk' = Copied(disk, m.map, new)
              /\ tpc' = [tpc EXCEPT ![t] = "advance"]
              /\ using' = [using EXCEPT ![t] = filePtr]
              /\ UNCHANGED <<open, mmf, counter, spin, line, damaged>>
      /\ UNCHANGED <<setup, count, excused, causes>>
  BY DEF Write
<1>2. /\ spin = t /\ t # None /\ filePtr \in 1..Len(mmf)
      /\ line[t].id \in 1..count /\ line[t].id \in 1..MaxLines
      /\ len \in Length /\ len \in Nat \ {0}
      /\ \A u \in Thread \ {t} : tpc[u] = "idle" /\ line[u] = NoLine
      /\ Calm => Live = {filePtr}
  BY <1>1, BusyThread
<1>3. /\ UNCHANGED <<open, mmf, counter, filePtr, policy, name, setting, spin,
                     line, ended, count, excused, causes>>
      /\ Live' = Live /\ ObjectInv' /\ \A o : FilesOf(o)' = FilesOf(o)
  BY <1>1, SameObjects DEF files, setup, threads
<1> PICK f \in FileId \cup {NoFile} : f = m.map
  BY <1>2, Objects
<1>4. /\ m.written \in Nat /\ m.cap \in Nat /\ f = m.map /\ f # NoFile
      /\ m.written + len <= m.cap
      /\ f \in DOMAIN disk /\ f \in FileId
  BY <1>1, <1>2, Objects DEF Fits, TypeOK
<1>5. Pending = {line[t].id} /\ \A o : Reach(o) = mmf[o].written
  BY <1>1, <1>2 DEF Pending, Reach
<1>6. Calm => ~ m.stale /\ m.written + len <= disk[f].size
  <2>1. \A g \in DOMAIN disk : disk[g].size \in Nat
    BY DEF TypeOK, Content
  <2>2. Calm => ~ m.stale /\ m.cap <= disk[f].size
    BY <1>2, <1>4 DEF CalmInv, MapInv
  <2> QED
    BY <1>2, <1>4, <2>1, <2>2
<1>7. CASE m.stale \/ disk[f].size < m.written + len
  <2>1. damaged' = TRUE /\ UNCHANGED <<disk, tpc, using>>
    BY <1>1, <1>7 DEF files, threads
  <2>2. ~ Calm
    <3>1. disk[f].size \in Nat
      BY <1>4 DEF TypeOK, Content
    <3> QED
      BY <1>2, <1>4, <1>6, <1>7, <3>1
  <2>3. ~ Calm' /\ ~ Ordered' /\ ~ Granted'
    BY <1>3, <2>2 DEF Calm, Ordered, Granted
  <2>4. TypeOK'
    BY <1>3, <2>1 DEF TypeOK
  <2>5. LockInv' /\ PartInv'
    BY <1>3, <2>1 DEF LockInv, PartInv
  <2>6. CalmInv' /\ FilesAreWhole' /\ FilesAreClosed'
    BY <2>3 DEF CalmInv, FilesAreWhole, FilesAreClosed, Ordered, Granted
  <2> QED
    BY <1>3, <2>3, <2>4, <2>5, <2>6
<1>8. CASE ~ (m.stale \/ disk[f].size < m.written + len)
  <2> PICK l \in Line : l = new
    BY <1>2, <1>4 DEF Line
  <2>1. /\ disk' = Copied(disk, f, l)
        /\ tpc' = [tpc EXCEPT ![t] = "advance"]
        /\ using' = [using EXCEPT ![t] = filePtr]
        /\ UNCHANGED damaged
    BY <1>1, <1>4, <1>8
  <2>2. l \in Line /\ l.id = line[t].id /\ l.len = len /\ l.at = m.written
    OBVIOUS
  <2>3. /\ disk' \in [DOMAIN disk -> Content] /\ DOMAIN disk' = DOMAIN disk
        /\ \A g \in DOMAIN disk \ {f} : disk'[g] = disk[g]
        /\ disk'[f].size = disk[f].size
        /\ disk'[f].lines = {k \in disk[f].lines : k.at # l.at} \cup {l}
    <3>1. disk \in [DOMAIN disk -> Content]
      BY DEF TypeOK
    <3> QED
      BY <1>4, <2>1, <2>2, <3>1, CopiedIs
  <2>4. /\ tpc' \in [Thread -> {"idle", "write", "advance", "grow", "rewrite"}]
        /\ tpc'[t] = "advance" /\ \A u \in Thread \ {t} : tpc'[u] = tpc[u]
        /\ using' \in [Thread -> 0..Len(mmf)] /\ using'[t] = filePtr
    BY <1>2, <2>1, Objects DEF TypeOK
  <2>5. TypeOK'
    BY <1>3, <2>1, <2>3, <2>4 DEF TypeOK
  <2>6. LockInv' /\ PartInv'
    <3>1. \A u \in Thread : tpc'[u] = "advance" <=> u = t
      BY <1>2, <2>4
    <3>2. /\ using'[t] # 0
          /\ mmf'[using'[t]].written + line'[t].len <= mmf'[using'[t]].cap
      BY <1>2, <1>3, <1>4, <2>4
    <3>3. \A u \in Thread : tpc'[u] # "idle" <=> tpc[u] # "idle"
      BY <1>1, <1>2, <2>4
    <3>4. LockInv'
      BY <1>3, <3>1, <3>2, <3>3 DEF LockInv
    <3>5. PartInv'
      BY <1>2, <1>3, <2>3, <2>4 DEF PartInv
    <3> QED
      BY <3>4, <3>5
  <2>7. Pending' = {} /\ \A o : Reach(o)' = IF o = filePtr
                                            THEN mmf[o].written + len
                                            ELSE mmf[o].written
    BY <1>2, <1>3, <2>4 DEF Pending, Reach
  <2>8. \A g \in DOMAIN disk : disk[g].lines \in SUBSET Line
    BY DEF TypeOK, Content
  <2>9. ASSUME Calm'
        PROVE  MapInv' /\ LineInv' /\ disk'[f].lines = disk[f].lines \cup {l}
    <3>1. Calm /\ MapInv /\ LineInv
      BY <1>3, <2>9 DEF Calm, CalmInv
    <3>2. filePtr \in Live /\ f \in FilesOf(filePtr)
      BY <1>2, <1>4, <3>1 DEF FilesOf
    <3>3. \A k \in disk[f].lines : k.at + k.len <= m.written
      BY <1>5, <3>1, <3>2 DEF LineInv
    <3>4. \A k \in disk[f].lines : k.at \in Nat /\ k.len \in Nat \ {0}
      BY <1>4, <2>8, Constants DEF Line
    <3>5. disk'[f].lines = disk[f].lines \cup {l}
      BY <1>4, <2>2, <2>3, <3>3, <3>4
    <3>6. /\ Numbers(f)' = Numbers(f) \cup {line[t].id}
          /\ \A g \in DOMAIN disk \ {f} : Numbers(g)' = Numbers(g)
      <4>1. \A g \in DOMAIN disk \ {f} : Numbers(g)' = Numbers(g)
        BY <2>3 DEF Numbers
      <4>2. \A i : i \in Numbers(f)' <=> i \in Numbers(f) \/ i = line[t].id
        BY <2>2, <3>5 DEF Numbers
      <4> QED
        BY <4>1, <4>2
    <3>7. MapInv'
      BY <1>2, <1>3, <1>4, <2>1, <2>3, <2>4, <3>1 DEF MapInv
    <3>8. LineInv'
      <4>1. \A o \in Live' : \A g \in FilesOf(o)' : \A k \in disk'[g].lines :
              k.at + k.len <= Reach(o)'
        <5> SUFFICES ASSUME NEW g \in FilesOf(filePtr), NEW k \in disk'[g].lines
                     PROVE  k.at + k.len <= m.written + len
          BY <1>2, <1>3, <2>7, <3>1
        <5>1. CASE k \in disk[g].lines
          <6>1. g \in DOMAIN disk
            BY <1>2, Objects DEF FilesOf, TypeOK
          <6>2. k.at \in Nat /\ k.len \in Nat
            BY <2>8, <5>1, <6>1, Constants DEF Line
          <6>3. k.at + k.len <= m.written
            BY <1>5, <3>1, <3>2, <5>1 DEF LineInv
          <6> QED
            BY <1>2, <1>4, <6>2, <6>3
        <5>2. CASE k \notin disk[g].lines
          <6>1. g \in DOMAIN disk
            BY <1>2, Objects DEF FilesOf, TypeOK
          <6>2. k = l
            BY <2>3, <3>5, <5>2, <6>1
          <6> QED
            BY <1>2, <1>4, <2>2, <6>2
        <5> QED
          BY <5>1, <5>2
      <4>2. \A g \in DOMAIN disk : line[t].id \notin Numbers(g)
        BY <1>5, <3>1 DEF LineInv
      <4>3. \A g, h \in DOMAIN disk' :
              Numbers(g)' \cap Numbers(h)' # {} => g = h
        <5>1. \A g, h \in DOMAIN disk : Numbers(g) \cap Numbers(h) # {} => g = h
          BY <3>1 DEF LineInv
        <5>2. \A g, h \in DOMAIN disk : \A i :
                i \in Numbers(g) /\ i \in Numbers(h) => g = h
          BY <5>1
        <5>3. \A g, h \in DOMAIN disk : \A i :
                i \in Numbers(g)' /\ i \in Numbers(h)' => g = h
          BY <3>6, <4>2, <5>2
        <5> QED
          BY <2>3, <5>3
      <4>4. \A g \in DOMAIN disk' : Numbers(g)' \subseteq 1..count'
        BY <1>2, <1>3, <2>3, <3>1, <3>6 DEF LineInv
      <4>5. \A i \in 1..count' : \/ i \in excused'
                                 \/ \E g \in DOMAIN disk' : i \in Numbers(g)'
        <5> SUFFICES ASSUME NEW i \in 1..count, i \notin excused
                     PROVE  \E g \in DOMAIN disk' : i \in Numbers(g)'
          BY <1>3
        <5>1. i = line[t].id \/ \E g \in DOMAIN disk : i \in Numbers(g)
          BY <1>5, <3>1 DEF LineInv
        <5> QED
          <6>1. CASE i = line[t].id
            BY <1>4, <2>3, <3>6, <6>1
          <6>2. CASE \E g \in DOMAIN disk : i \in Numbers(g)
            <7>1. PICK g \in DOMAIN disk : i \in Numbers(g)
              BY <6>2
            <7>2. i \in Numbers(g)'
              BY <3>6, <7>1
            <7> QED
              BY <2>3, <7>1, <7>2
          <6> QED
            BY <5>1, <6>1, <6>2
      <4> QED
        BY <2>7, <4>1, <4>3, <4>4, <4>5 DEF LineInv
    <3> QED
      BY <3>5, <3>7, <3>8
  <2>10. ASSUME Ordered'
         PROVE  OrderInv' /\ f \in open
    <3>1. Ordered /\ OrderInv /\ Calm'
      BY <1>3, <2>10 DEF Calm, Ordered
    <3>2. /\ Live = {filePtr} /\ f = m.fd /\ f \in open
          /\ Filled(disk[f].lines, m.written)
      BY <1>2, <1>3, <1>4, <1>5, <3>1 DEF OrderInv, Calm
    <3>3. disk'[f].lines = disk[f].lines \cup {l}
      BY <2>9, <3>1
    <3>4. Filled(disk'[f].lines, m.written + len)
      <4>1. disk[f].lines \in SUBSET Line
        BY <1>4, <2>8
      <4>2. Filled(disk[f].lines \cup {l}, m.written + l.len)
        BY <1>4, <2>2, <3>2, <4>1, FilledByOneMore
      <4> QED
        BY <2>2, <3>3, <4>2
    <3>5. /\ \A o \in Live' : mmf'[o].map \in {mmf'[o].fd, NoFile}
          /\ Granted' => \A o \in Live' : mmf'[o].map # NoFile
      BY <1>3, <3>1 DEF OrderInv, Granted
    <3>6. \A o \in Live' : /\ mmf'[o].fd \in open'
                          /\ Filled(disk'[mmf'[o].fd].lines, Reach(o)')
      BY <1>2, <1>3, <2>7, <3>2, <3>4
    <3> QED
      BY <1>3, <3>2, <3>5, <3>6 DEF OrderInv
  <2>11. FilesAreWhole' /\ FilesAreClosed'
    <3>1. FilesAreClosed'
      BY <1>3 DEF FilesAreClosed
    <3>2. FilesAreWhole'
      <4> SUFFICES ASSUME Ordered', NEW g \in DOMAIN disk' \ open'
                   PROVE  Whole(g)'
        BY DEF FilesAreWhole, Ordered
      <4>1. Whole(g) /\ g # f
        BY <1>3, <2>3, <2>10 DEF FilesAreWhole, Ordered
      <4>2. disk'[g] = disk[g]
        BY <2>3, <4>1
      <4> QED
        BY <1>3, <4>1, <4>2, WholeStays
    <3> QED
      BY <3>1, <3>2
  <2> QED
    BY <1>3, <2>5, <2>6, <2>9, <2>10, <2>11 DEF CalmInv
<1> QED
  BY <1>7, <1>8
-----------------------------------------------------------------------------
(* The steps that get a file or more of it *)

\* The line is tried again, or given up and the lock given back.
LEMMA GrownIs ==
  ASSUME IInv, NEW t \in Thread, tpc[t] = "grow",
         UNCHANGED <<filePtr, count>>,
         \/ /\ tpc' = [tpc EXCEPT ![t] = "rewrite"]
            /\ UNCHANGED <<spin, line, using, excused>>
         \/ Return(t) /\ excused' = excused \cup {line[t].id}
  PROVE  /\ spin' \in Thread \cup {None}
         /\ tpc' \in [Thread -> {"idle", "write", "advance", "grow", "rewrite"}]
         /\ line' \in [Thread -> [id : 1..MaxLines, len : Length] \cup {NoLine}]
         /\ using' \in [Thread -> 0..Len(mmf)]
         /\ excused \subseteq excused' /\ excused' \subseteq 1..count'
         /\ LockInv'
         /\ \A u \in Thread : tpc'[u] = "idle" \/ 
              /\ u = t /\ tpc'[t] = "rewrite" /\ line'[t] = line[t]
              /\ ~ Return(t)
         /\ Pending' \subseteq Pending
         /\ Pending \subseteq Pending' \cup excused'
         /\ \A o : Reach(o) = mmf[o].written /\ Reach(o)' = mmf'[o].written
<1> USE DEF IInv
<1>1. /\ spin = t /\ t # None /\ filePtr \in 1..Len(mmf)
      /\ line[t].id \in 1..count
      /\ \A u \in Thread \ {t} : tpc[u] = "idle" /\ line[u] = NoLine
  BY BusyThread
<1>2. excused \subseteq excused' /\ excused' \subseteq 1..count'
  BY <1>1 DEF TypeOK
<1>3. Pending = {line[t].id} /\ \A o : Reach(o) = mmf[o].written
  BY <1>1 DEF Pending, Reach
<1>4. CASE /\ tpc' = [tpc EXCEPT ![t] = "rewrite"]
           /\ UNCHANGED <<spin, line, using, excused>>
  <2>1. /\ tpc' \in [Thread -> {"idle", "write", "advance", "grow", "rewrite"}]
        /\ tpc'[t] = "rewrite" /\ \A u \in Thread \ {t} : tpc'[u] = tpc[u]
    BY <1>4 DEF TypeOK
  <2>2. Pending' = Pending /\ \A o : Reach(o)' = mmf'[o].written
    BY <1>1, <1>3, <1>4, <2>1 DEF Pending, Reach
  <2>3. LockInv'
    BY <1>1, <1>4, <2>1 DEF LockInv
  <2>4. ~ Return(t)
    BY <1>1, <1>4 DEF Return
  <2> QED
    BY <1>1, <1>2, <1>3, <1>4, <2>1, <2>2, <2>3, <2>4 DEF TypeOK
<1>5. CASE Return(t) /\ excused' = excused \cup {line[t].id}
  BY <1>1, <1>2, <1>3, <1>5, Returned
<1> QED
  BY <1>4, <1>5

\* The next file (261-274) keeps the invariant, whatever call fails.
LEMMA GrowByNewFileKeeps ==
  ASSUME IInv, NEW t \in Thread, GrowByNewFile(t)
  PROVE  IInv'
<1> USE DEF IInv
<1> DEFINE m == mmf[filePtr]
<1>1. /\ ~ damaged /\ tpc[t] = "grow" /\ policy = "NEW_FILE"
      /\ counter' = counter + 1
      /\ UNCHANGED <<filePtr, policy, name, setting, ended, count, damaged>>
  BY DEF GrowByNewFile, setup
<1>2. /\ spin = t /\ filePtr \in 1..Len(mmf) /\ name \in Name
      /\ line[t].len \in Nat \ {0}
      /\ Calm => ~ setting /\ Live = {filePtr}
  BY <1>1, BusyThread
<1> PICK f \in FileId : f = <<name, counter>>
  <2>1. counter \in 0..MaxLines
    BY <1>1, Constants DEF TypeOK, PartInv
  <2> QED
    BY <1>2, <2>1 DEF FileId
<1>3. PICK failing \in Calls, fault \in Faults :
        /\ mmf' = [mmf EXCEPT ![filePtr] = NewFileObject(m, f, failing)]
        /\ disk' = NewFileDisk(m, f, failing, fault)
        /\ open' = NewFileOpen(m, f, failing)
        /\ Grown(t, failing = None)
        /\ causes' = causes \cup CauseOf(m, failing) \cup CauseOfCommit(fault)
             \cup IF m.map # NoFile /\ m.written = 0 THEN {"long"} ELSE {}
  BY DEF GrowByNewFile
<1>4. /\ f \notin DOMAIN disk /\ f # NoFile /\ f[2] = counter
      /\ counter \in Nat \ {0} /\ counter <= count /\ count <= MaxLines
      /\ count \in Nat
  <2>1. /\ counter \in Nat \ {0} /\ counter <= count /\ count <= MaxLines
        /\ count \in Nat
    BY <1>1, Constants DEF PartInv, TypeOK
  <2>2. f \notin DOMAIN disk
    BY <2>1 DEF PartInv
  <2> QED
    BY <2>1, <2>2, NoFileIsNone
<1>5. /\ m \in Mapping /\ m.fd \in DOMAIN disk \cup {NoFile}
      /\ m.map \in DOMAIN disk \cup {NoFile}
      /\ m.written \in Nat /\ m.cap \in Nat /\ m.written <= m.cap
      /\ m.stale \in BOOLEAN
  BY <1>2, Objects DEF TypeOK
<1> PICK n \in Mapping : n = NewFileObject(m, f, failing)
  BY <1>5, NewFileObjectType
<1>6. /\ n.fd = (IF failing = "open" THEN NoFile ELSE f)
      /\ n.map = (IF failing = None THEN f ELSE m.map)
      /\ n.stale = (failing # None /\
                    (m.stale \/ (m.written > 0 /\ m.map # NoFile)))
      /\ n.cap = m.cap /\ n.gone = m.gone
      /\ n.written = (IF failing = None THEN 0 ELSE m.written)
  BY DEF NewFileObject, CommitsFirst
<1>7. /\ mmf' \in Seq(Mapping) /\ Len(mmf') = Len(mmf)
      /\ DOMAIN mmf' = 1..Len(mmf) /\ DOMAIN mmf = 1..Len(mmf)
      /\ mmf'[filePtr] = n
      /\ \A p \in 1..Len(mmf) \ {filePtr} : mmf'[p] = mmf[p]
  BY <1>2, <1>3, ObjectChanged, Objects
<1>8. Live' = Live /\ ObjectInv'
  BY <1>1, <1>2, <1>6, <1>7 DEF ObjectInv, Live
<1>9. /\ DOMAIN disk' = IF failing = "open" THEN DOMAIN disk
                        ELSE DOMAIN disk \cup {f}
      /\ disk' \in [DOMAIN disk' -> Content]
      /\ \A g \in DOMAIN disk :
           g # m.fd \/ m.written = 0 \/ fault # None => disk'[g] = disk[g]
      /\ m.written > 0 /\ m.fd # NoFile /\ fault = None =>
           /\ disk'[m.fd].size = m.written
           /\ (\A l \in disk[m.fd].lines : l.at + l.len <= m.written)
                => disk'[m.fd].lines = disk[m.fd].lines
      /\ failing # "open" => /\ disk'[f].lines = {}
                             /\ failing = None => disk'[f].size = m.cap
  <2>1. disk \in [DOMAIN disk -> Content]
    BY DEF TypeOK
  <2>2. m.fd # f
    BY <1>4, <1>5
  <2> HIDE DEF m
  <2> QED
    <3>1. LET d == NewFileDisk(m, f, failing, fault)
          IN  /\ failing = "open" => DOMAIN d = DOMAIN disk
              /\ failing # "open" => DOMAIN d = DOMAIN disk \cup {f}
              /\ d \in [DOMAIN d -> Content]
      BY <1>5, <2>1, NewFileDiskType
    <3>2. LET d == NewFileDisk(m, f, failing, fault)
          IN  /\ \A g \in DOMAIN disk \ {f} :
                   g # m.fd \/ m.written = 0 \/ fault # None => d[g] = disk[g]
              /\ m.written > 0 /\ m.fd \notin {f, NoFile} /\ fault = None =>
                   /\ d[m.fd].size = m.written
                   /\ (\A l \in disk[m.fd].lines : l.at + l.len <= m.written)
                        => d[m.fd].lines = disk[m.fd].lines
              /\ f \notin DOMAIN disk /\ failing # "open" =>
                   /\ d[f].lines = {}
                   /\ failing = None => d[f].size = m.cap
      BY <1>5, <2>1, NewFileDiskIs
    <3> QED
      BY <1>3, <1>4, <2>2, <3>1, <3>2
<1>10. /\ open' \subseteq open \cup {f} /\ (failing # "open" => f \in open')
       /\ open \ open' \subseteq {m.fd}
       /\ m.written = 0 => open \subseteq open'
       /\ failing # "open" /\ m.written > 0 => open' = (open \ {m.fd}) \cup {f}
  BY <1>3, <1>5 DEF NewFileOpen, CommitsFirst
<1>11. /\ causes \subseteq causes'
       /\ causes' \subseteq Causes
       /\ "failed" \notin causes' => failing = None \/ m.written = 0
       /\ "long" \notin causes' => m.map = NoFile \/ m.written > 0
       /\ "unshrunk" \notin causes' => fault = None
       /\ Granted' => failing = None
  <2>1. CauseOf(m, failing) \subseteq {"failed", "refused"}
    BY DEF CauseOf
  <2>2. /\ m.written > 0 /\ failing # None => "failed" \in CauseOf(m, failing)
        /\ failing # None => CauseOf(m, failing) \cap {"failed", "refused"} # {}
    BY DEF CauseOf
  <2>3. /\ CauseOfCommit(fault) \subseteq {"unshrunk"}
        /\ fault # None => "unshrunk" \in CauseOfCommit(fault)
    BY DEF CauseOfCommit
  <2> DEFINE long == IF m.map # NoFile /\ m.written = 0 THEN {"long"} ELSE {}
  <2>4. /\ long \subseteq {"long"}
        /\ m.map # NoFile /\ m.written = 0 => "long" \in long
    OBVIOUS
  <2>5. causes' = ((causes \cup CauseOf(m, failing))
                     \cup CauseOfCommit(fault)) \cup long
    BY <1>3
  <2> HIDE DEF long, m
  <2>6. /\ causes \subseteq causes' /\ CauseOf(m, failing) \subseteq causes'
        /\ CauseOfCommit(fault) \subseteq causes' /\ long \subseteq causes'
    BY <2>5
  <2>7. causes' \subseteq Causes
    <3>1. causes \subseteq Causes
      BY DEF TypeOK
    <3> QED
      BY <2>1, <2>3, <2>4, <2>5, <3>1 DEF Causes
  <2>8. /\ m.written > 0 /\ failing # None => "failed" \in causes'
        /\ m.map # NoFile /\ m.written = 0 => "long" \in causes'
        /\ fault # None => "unshrunk" \in causes'
    BY <2>2, <2>3, <2>4, <2>6
  <2>9. failing # None => ~ Granted'
    BY <2>2, <2>6 DEF Granted
  <2>10. m.written = 0 \/ m.written > 0
    BY <1>5
  <2> QED
    BY <2>6, <2>7, <2>8, <2>9, <2>10
<1>12. \/ /\ failing = None
          /\ tpc' = [tpc EXCEPT ![t] = "rewrite"]
          /\ UNCHANGED <<spin, line, using, excused>>
       \/ Return(t) /\ excused' = excused \cup {line[t].id}
  BY <1>3 DEF Grown
<1>13. /\ spin' \in Thread \cup {None}
       /\ tpc' \in [Thread -> {"idle", "write", "advance", "grow", "rewrite"}]
       /\ line' \in [Thread -> [id : 1..MaxLines, len : Length] \cup {NoLine}]
       /\ using' \in [Thread -> 0..Len(mmf)]
       /\ excused \subseteq excused' /\ excused' \subseteq 1..count'
       /\ LockInv'
       /\ \A u \in Thread : tpc'[u] = "idle" \/
            /\ u = t /\ tpc'[t] = "rewrite" /\ line'[t] = line[t]
            /\ ~ Return(t)
       /\ Pending' \subseteq Pending /\ Pending \subseteq Pending' \cup excused'
       /\ \A o : Reach(o) = mmf[o].written /\ Reach(o)' = mmf'[o].written
  BY <1>1, <1>12, GrownIs
<1>14. TypeOK'
  <2>1. /\ DOMAIN disk' \subseteq FileId /\ DOMAIN disk \subseteq DOMAIN disk'
        /\ disk' \in [DOMAIN disk' -> Content]
    BY <1>9 DEF TypeOK
  <2>2. open' \subseteq DOMAIN disk'
    <3>1. open \subseteq DOMAIN disk
      BY DEF TypeOK
    <3>2. failing = "open" => open' \subseteq open
      BY <1>3 DEF NewFileOpen
    <3> QED
      BY <1>9, <1>10, <3>1, <3>2
  <2>3. \A o \in DOMAIN mmf' :
          /\ {mmf'[o].fd, mmf'[o].map} \subseteq DOMAIN disk' \cup {NoFile}
          /\ mmf'[o].written <= mmf'[o].cap
    <3>1. /\ {n.fd, n.map} \subseteq DOMAIN disk' \cup {NoFile}
          /\ n.written <= n.cap
      BY <1>5, <1>6, <1>9 DEF None
    <3>2. \A o \in 1..Len(mmf) :
            /\ {mmf[o].fd, mmf[o].map} \subseteq DOMAIN disk \cup {NoFile}
            /\ mmf[o].written <= mmf[o].cap
      BY <1>7 DEF TypeOK
    <3> QED
      BY <1>7, <2>1, <3>1, <3>2
  <2>4. counter' \in 1..(MaxLines + 1)
    BY <1>1, <1>4, Constants
  <2> QED
    BY <1>1, <1>7, <1>11, <1>13, <2>1, <2>2, <2>3, <2>4 DEF TypeOK
<1>15. PartInv'
  <2>1. \A g \in DOMAIN disk : g[2] < counter /\ g[2] \in Nat
    <3>1. \A g \in FileId : g[2] \in Nat
      BY Constants DEF FileId
    <3> QED
      BY <3>1 DEF PartInv, TypeOK
  <2>2. \A g \in DOMAIN disk' : g[2] < counter'
    BY <1>1, <1>4, <1>9, <2>1
  <2> QED
    BY <1>1, <1>2, <1>4, <1>13, <2>2 DEF PartInv
<1>16. ASSUME Calm'
       PROVE  MapInv' /\ LineInv'
  <2>1. Calm /\ MapInv /\ LineInv /\ (failing = None \/ m.written = 0)
    BY <1>11, <1>16 DEF Calm, CalmInv
  <2>2. Live' = {filePtr} /\ ~ setting'
    BY <1>1, <1>2, <1>8, <2>1
  <2>3. MapInv'
    <3>1. ~ n.stale
      BY <1>2, <1>5, <1>6, <2>1 DEF MapInv
    <3>2. IF n.map = NoFile THEN n.written = 0 ELSE disk'[n.map].size >= n.cap
      <4>1. CASE failing = None
        BY <1>4, <1>5, <1>6, <1>9, <4>1 DEF None
      <4>2. CASE failing # None
        BY <1>2, <1>5, <1>6, <1>9, <2>1, <4>2 DEF MapInv
      <4> QED
        BY <4>1, <4>2
    <3>3. Return(t) \/ (line[t].len <= FileSize => Fits(n, line[t].len))
      <4>1. m.cap >= FileSize
        BY <1>2, <1>7 DEF ObjectInv
      <4> QED
        BY <1>2, <1>4, <1>5, <1>6, <1>12, <4>1, Constants DEF Fits
    <3>4. \A u \in Thread : tpc'[u] = "rewrite" /\ line'[u].len <= FileSize =>
            Fits(n, line'[u].len)
      BY <1>13, <3>3
    <3> QED
      BY <1>1, <1>7, <1>13, <2>1, <2>2, <3>1, <3>2, <3>4 DEF MapInv
  <2>4. \A g \in DOMAIN disk : disk'[g].lines = disk[g].lines
    <3> SUFFICES ASSUME NEW g \in DOMAIN disk, g = m.fd, m.written > 0
                 PROVE  disk'[g].lines = disk[g].lines
      BY <1>5, <1>9
    <3>1. g # NoFile
      BY NoFileIsNone DEF TypeOK
    <3>2. \A l \in disk[g].lines : l.at + l.len <= m.written
      BY <1>2, <1>13, <2>1, <3>1 DEF LineInv, FilesOf
    <3> QED
      BY <1>9, <3>1, <3>2
  <2>5. /\ \A g \in DOMAIN disk : Numbers(g)' = Numbers(g)
        /\ f \in DOMAIN disk' => Numbers(f)' = {}
    BY <1>4, <1>9, <2>4 DEF Numbers
  <2>6. LineInv'
    <3>1. \A o \in Live' : \A g \in FilesOf(o)' : \A l \in disk'[g].lines :
            l.at + l.len <= Reach(o)'
      <4> SUFFICES ASSUME NEW g \in {n.fd, n.map} \ {NoFile},
                          NEW l \in disk'[g].lines
                   PROVE  l.at + l.len <= n.written
        BY <1>7, <1>13, <2>2 DEF FilesOf
      <4>1. g # f
        <5>1. n.map = f => failing = None
          BY <1>4, <1>5, <1>6
        <5>2. n.fd = f => failing # "open"
          BY <1>4, <1>6
        <5>3. failing # "open" => disk'[f].lines = {}
          BY <1>9
        <5> QED
          BY <5>1, <5>2, <5>3 DEF None
      <4>2. g = m.map /\ failing # None /\ g \in DOMAIN disk
        BY <1>5, <1>6, <4>1
      <4>3. l \in disk[g].lines /\ g \in FilesOf(filePtr)
        BY <2>4, <4>2 DEF FilesOf
      <4> QED
        BY <1>2, <1>6, <1>13, <2>1, <4>2, <4>3 DEF LineInv
    <3>2. \A g, h \in DOMAIN disk' : Numbers(g)' \cap Numbers(h)' # {} => g = h
      <4>1. \A g, h \in DOMAIN disk : Numbers(g) \cap Numbers(h) # {} => g = h
        BY <2>1 DEF LineInv
      <4> QED
        BY <1>9, <2>5, <4>1
    <3>3. \A g \in DOMAIN disk' : Numbers(g)' \subseteq (1..count') \ Pending'
      <4>1. \A g \in DOMAIN disk : Numbers(g) \subseteq (1..count) \ Pending
        BY <2>1 DEF LineInv
      <4>2. DOMAIN disk' \subseteq DOMAIN disk \cup {f}
        BY <1>9
      <4> QED
        <5>1. SUFFICES ASSUME NEW g \in DOMAIN disk, NEW i \in Numbers(g)
                       PROVE  i \in (1..count') \ Pending'
          BY <2>5, <4>2
        <5>2. i \in 1..count /\ i \notin Pending
          BY <4>1, <5>1
        <5> QED
          BY <1>1, <1>13, <5>2
    <3>4. \A i \in 1..count' : \/ i \in Pending' \cup excused'
                               \/ \E g \in DOMAIN disk' : i \in Numbers(g)'
      <4> SUFFICES ASSUME NEW i \in 1..count, i \notin Pending' \cup excused'
                   PROVE  \E g \in DOMAIN disk' : i \in Numbers(g)'
        BY <1>1
      <4>1. \E g \in DOMAIN disk : i \in Numbers(g)
        BY <1>13, <2>1 DEF LineInv
      <4> QED
        BY <1>9, <2>5, <4>1
    <3> QED
      BY <3>1, <3>2, <3>3, <3>4 DEF LineInv
  <2> QED
    BY <2>3, <2>6
<1>17. ASSUME Ordered'
       PROVE  OrderInv' /\ FilesAreWhole'
  <2>1. /\ Ordered /\ OrderInv /\ Live' = {filePtr} /\ Live = {filePtr}
        /\ failing = None \/ (m.written = 0 /\ m.map = NoFile)
    BY <1>2, <1>5, <1>8, <1>11, <1>17 DEF Ordered, Calm
  <2>2. OrderInv'
    <3>1. n.map \in {n.fd, NoFile}
      BY <1>6, <2>1 DEF None
    <3>2. n.fd # NoFile =>
            n.fd \in open' /\ Filled(disk'[n.fd].lines, n.written)
      <4> SUFFICES ASSUME n.fd # NoFile
                   PROVE  n.fd \in open' /\ Filled(disk'[n.fd].lines, n.written)
        OBVIOUS
      <4>1. n.fd = f /\ failing # "open" /\ n.written = 0 /\ disk'[f].lines = {}
        BY <1>6, <1>9, <2>1
      <4> QED
        BY <1>10, <4>1 DEF Filled
    <3>3. Granted' => n.map # NoFile
      BY <1>4, <1>6, <1>11
    <3> QED
      BY <1>7, <1>13, <2>1, <3>1, <3>2, <3>3 DEF OrderInv
  <2>3. m.fd # NoFile => m.fd \in open /\ Filled(disk[m.fd].lines, m.written)
    BY <1>13, <2>1 DEF OrderInv
  <2>4. ASSUME NEW g \in DOMAIN disk' \ open'
        PROVE  Whole(g)'
    <3>1. g \in DOMAIN disk
      BY <1>9, <1>10, <2>4
    <3>2. CASE g \notin open
      <4>1. g # m.fd
        BY <2>3, <3>1, <3>2, NoFileIsNone DEF TypeOK
      <4>2. Whole(g) /\ disk'[g] = disk[g]
        BY <1>9, <2>1, <3>1, <3>2, <4>1 DEF FilesAreWhole, Ordered
      <4> QED
        BY <1>11, <4>2, WholeStays
    <3>3. CASE g \in open
      <4>1. g = m.fd /\ m.written > 0 /\ g # NoFile
        BY <1>5, <1>10, <2>4, <3>1, <3>3, NoFileIsNone DEF TypeOK
      <4>2. \A l \in disk[g].lines : l.at + l.len <= m.written
        BY <2>3, <4>1 DEF Filled
      <4>3. CASE fault = None
        <5>1. disk'[g].lines = disk[g].lines /\ disk'[g].size = m.written
          BY <1>9, <4>1, <4>2, <4>3
        <5>2. /\ Filled(disk'[g].lines, m.written)
              /\ m.written \in 0..disk'[g].size
          BY <1>5, <2>3, <4>1, <5>1
        <5> QED
          BY <5>1, <5>2 DEF Whole
      <4>4. CASE fault # None
        <5>1. disk'[g] = disk[g] /\ "unshrunk" \in causes'
          BY <1>9, <1>11, <3>1, <4>4
        <5>2. m.map = m.fd /\ m.map # NoFile /\ m.cap <= disk[g].size
          <6>1. Calm /\ filePtr \in Live
            BY <2>1 DEF Ordered, Calm
          <6> QED
            BY <2>1, <4>1, <6>1 DEF CalmInv, MapInv, OrderInv
        <5>3. disk[g].size \in Nat
          BY <3>1 DEF TypeOK, Content
        <5>4. /\ m.written \in 0..disk'[g].size
              /\ Filled(disk'[g].lines, m.written)
          BY <1>5, <2>3, <4>1, <5>1, <5>2, <5>3
        <5> QED
          BY <5>1, <5>4 DEF Whole
      <4> QED
        BY <4>3, <4>4
    <3> QED
      BY <3>2, <3>3
  <2> QED
    BY <2>2, <2>4 DEF FilesAreWhole
<1>18. FilesAreWhole'
  BY <1>17 DEF FilesAreWhole, Ordered
<1>19. FilesAreClosed'
  <2> SUFFICES ASSUME Granted'
               PROVE  open' = {mmf'[o].fd : o \in Live'}
    BY DEF FilesAreClosed, Live, Granted
  <2>1. Granted /\ failing = None /\ OrderInv /\ Live = {filePtr}
    BY <1>2, <1>11 DEF Ordered, Calm, Granted
  <2>2. m.written > 0
    BY <1>11, <2>1 DEF OrderInv, Granted
  <2>3. open = {m.fd}
    BY <2>1 DEF FilesAreClosed, Live, Granted
  <2>4. open' = {f}
    BY <1>10, <2>1, <2>2, <2>3 DEF None
  <2> QED
    BY <1>6, <1>7, <1>8, <2>1, <2>4 DEF None
<1> QED
  BY <1>8, <1>13, <1>14, <1>15, <1>16, <1>17, <1>18, <1>19 DEF CalmInv

\* A longer file (131-154) keeps the invariant, whatever call fails.
LEMMA GrowByExtendingKeeps ==
  ASSUME IInv, NEW t \in Thread, GrowByExtending(t)
  PROVE  IInv'
<1> USE DEF IInv
<1> DEFINE m == mmf[filePtr]
<1>1. /\ ~ damaged /\ tpc[t] = "grow" /\ policy = "EXTEND_FILE"
      /\ UNCHANGED <<open, counter>>
      /\ UNCHANGED <<filePtr, policy, name, setting, ended, count, damaged>>
  BY DEF GrowByExtending, setup, files
<1>2. /\ spin = t /\ filePtr \in 1..Len(mmf) /\ name \in Name
      /\ line[t].len \in Nat \ {0}
      /\ Calm => ~ setting /\ Live = {filePtr}
  BY <1>1, BusyThread
<1>3. /\ m \in Mapping /\ m.fd \in DOMAIN disk \cup {NoFile}
      /\ m.map \in DOMAIN disk \cup {NoFile}
      /\ m.written \in Nat /\ m.cap \in Nat /\ m.written <= m.cap
      /\ m.stale \in BOOLEAN
  BY <1>2, Objects DEF TypeOK
<1>4. \/ Return(t) /\ excused' = excused \cup {line[t].id}
      \/ /\ m.map # NoFile
         /\ tpc' = [tpc EXCEPT ![t] = "rewrite"]
         /\ UNCHANGED <<spin, line, using, excused>>
         /\ mmf' = [mmf EXCEPT ![filePtr].cap = m.cap + FileSize]
  BY DEF GrowByExtending, Grown
<1>5. /\ spin' \in Thread \cup {None}
      /\ tpc' \in [Thread -> {"idle", "write", "advance", "grow", "rewrite"}]
      /\ line' \in [Thread -> [id : 1..MaxLines, len : Length] \cup {NoLine}]
      /\ using' \in [Thread -> 0..Len(mmf)]
      /\ excused \subseteq excused' /\ excused' \subseteq 1..count'
      /\ LockInv'
      /\ \A u \in Thread : tpc'[u] = "idle" \/
           /\ u = t /\ tpc'[t] = "rewrite" /\ line'[t] = line[t]
           /\ ~ Return(t)
      /\ Pending' \subseteq Pending /\ Pending \subseteq Pending' \cup excused'
      /\ \A o : Reach(o) = mmf[o].written /\ Reach(o)' = mmf'[o].written
  BY <1>1, <1>4, GrownIs
<1>6. CASE /\ Return(t) /\ causes' = causes \cup {"refused"}
           /\ UNCHANGED files
  <2>1. /\ UNCHANGED <<disk, mmf>> /\ causes \subseteq causes'
        /\ ~ Granted'
        /\ Live' = Live /\ ObjectInv' /\ \A o : FilesOf(o)' = FilesOf(o)
        /\ \A f : Numbers(f)' = Numbers(f)
    <3>1. UNCHANGED <<disk, mmf>> /\ causes' = causes \cup {"refused"}
      BY <1>6 DEF files
    <3>2. \A f : Numbers(f)' = Numbers(f)
      BY <3>1 DEF Numbers
    <3>3. Live' = Live /\ ObjectInv' /\ \A o : FilesOf(o)' = FilesOf(o)
      BY <1>1, <3>1, SameObjects
    <3> QED
      BY <3>1, <3>2, <3>3 DEF Granted
  <2>2. TypeOK'
    BY <1>1, <1>5, <1>6, <2>1 DEF TypeOK, Causes
  <2>3. PartInv' /\ \A u \in Thread : tpc'[u] = "idle"
    BY <1>1, <1>5, <1>6, <2>1 DEF PartInv
  <2>4. ASSUME Calm' PROVE MapInv' /\ LineInv'
    <3>1. Calm /\ MapInv /\ LineInv
      BY <2>1, <2>4 DEF Calm, CalmInv
    <3>2. MapInv'
      BY <1>1, <1>2, <2>1, <2>3, <3>1 DEF MapInv
    <3>3. LineInv'
      BY <1>1, <1>5, <2>1, <3>1 DEF LineInv
    <3> QED
      BY <3>2, <3>3
  <2>5. Ordered' => OrderInv'
    BY <1>1, <1>5, <2>1 DEF Ordered, OrderInv
  <2>6. FilesAreWhole' /\ FilesAreClosed'
    BY <1>1, <2>1, FilesStay
  <2> QED
    BY <1>5, <2>1, <2>2, <2>3, <2>4, <2>5, <2>6 DEF CalmInv
<1>7. CASE /\ m.map # NoFile /\ ~ Return(t)
           /\ mmf' = [mmf EXCEPT ![filePtr].cap = m.cap + FileSize]
           /\ \/ /\ m.fd # NoFile
                 /\ disk' = Resized(disk, m.fd, m.cap + FileSize)
                 /\ UNCHANGED causes
              \/ causes' = causes \cup {"failed"} /\ UNCHANGED disk
  <2> PICK n \in Mapping : n = [m EXCEPT !.cap = m.cap + FileSize]
    <3>1. m.cap + FileSize \in Nat
      BY <1>3, Constants
    <3> HIDE DEF m
    <3> QED
      BY <1>3, <3>1 DEF Mapping
  <2>1. /\ n.fd = m.fd /\ n.map = m.map /\ n.cap = m.cap + FileSize
        /\ n.written = m.written /\ n.stale = m.stale /\ n.gone = m.gone
        /\ mmf' = [mmf EXCEPT ![filePtr] = n]
        /\ n.cap \in Nat /\ m.cap <= n.cap
    BY <1>3, <1>7, Constants DEF Mapping
  <2>2. /\ mmf' \in Seq(Mapping) /\ Len(mmf') = Len(mmf)
        /\ DOMAIN mmf' = 1..Len(mmf) /\ DOMAIN mmf = 1..Len(mmf)
        /\ mmf'[filePtr] = n
        /\ \A p \in 1..Len(mmf) \ {filePtr} : mmf'[p] = mmf[p]
    BY <1>2, <2>1, ObjectChanged, Objects
  <2>3. /\ Live' = Live /\ ObjectInv'
        /\ \A o \in 1..Len(mmf) : FilesOf(o)' = FilesOf(o)
    <3>1. Live' = Live /\ \A o \in 1..Len(mmf) : FilesOf(o)' = FilesOf(o)
      BY <1>2, <2>1, <2>2 DEF Live, FilesOf
    <3>2. \A o \in 1..Len(mmf) : mmf'[o].cap >= FileSize
      BY <1>2, <1>3, <2>1, <2>2, Constants DEF ObjectInv
    <3> QED
      BY <1>1, <2>2, <3>1, <3>2 DEF ObjectInv
  <2>4. /\ disk' \in [DOMAIN disk -> Content] /\ DOMAIN disk' = DOMAIN disk
        /\ \A g \in DOMAIN disk \ {m.fd} : disk'[g] = disk[g]
        /\ "failed" \notin causes' =>
             /\ m.fd # NoFile /\ disk'[m.fd].size = n.cap
             /\ disk'[m.fd].lines =
                  {l \in disk[m.fd].lines : l.at + l.len <= n.cap}
    <3>1. disk \in [DOMAIN disk -> Content]
      BY DEF TypeOK
    <3>2. CASE /\ m.fd # NoFile /\ disk' = Resized(disk, m.fd, n.cap)
      <4>1. m.fd \in DOMAIN disk
        BY <1>3, <3>2
      <4> HIDE DEF m
      <4> QED
        BY <2>1, <3>1, <3>2, <4>1, ResizedIs
    <3> QED
      BY <1>7, <2>1, <3>1, <3>2
  <2>5. TypeOK'
    <3>1. \A o \in DOMAIN mmf' :
            /\ {mmf'[o].fd, mmf'[o].map} \subseteq DOMAIN disk' \cup {NoFile}
            /\ mmf'[o].written <= mmf'[o].cap
      <4>1. \A o \in 1..Len(mmf) :
              /\ {mmf[o].fd, mmf[o].map} \subseteq DOMAIN disk \cup {NoFile}
              /\ mmf[o].written <= mmf[o].cap
        BY <2>2 DEF TypeOK
      <4>2. n.written <= n.cap
        BY <1>3, <2>1
      <4> QED
        BY <1>2, <2>1, <2>2, <2>4, <4>1, <4>2
    <3>2. causes' \subseteq Causes
      BY <1>7 DEF TypeOK, Causes
    <3> QED
      BY <1>1, <1>5, <2>2, <2>4, <3>1, <3>2 DEF TypeOK
  <2>6. PartInv'
    BY <1>1, <1>2, <1>5, <2>4 DEF PartInv
  <2>7. causes \subseteq causes'
    BY <1>7
  <2>8. ASSUME Calm' PROVE Calm /\ MapInv /\ LineInv /\ m.map = m.fd
    <3>1. Calm /\ MapInv /\ LineInv
      BY <2>7, <2>8 DEF Calm, CalmInv
    <3> QED
      BY <1>1, <1>2, <1>7, <3>1 DEF MapInv
  <2>9. ASSUME Calm' PROVE \A g \in DOMAIN disk : disk'[g].lines = disk[g].lines
    <3>1. m.fd # NoFile /\ "failed" \notin causes'
      BY <1>7, <2>8, <2>9 DEF Calm
    <3>2. \A l \in disk[m.fd].lines : l.at + l.len <= m.written
      BY <1>2, <1>5, <2>8, <2>9, <3>1 DEF LineInv, FilesOf
    <3>3. disk[m.fd].lines \in SUBSET Line
      BY <1>3, <3>1 DEF TypeOK, Content
    <3>4. \A l \in disk[m.fd].lines : l.at + l.len <= n.cap
      <4>1. \A l \in Line : l.at + l.len \in Nat
        BY Constants DEF Line
      <4> QED
        BY <1>3, <2>1, <3>2, <3>3, <4>1
    <3>5. disk'[m.fd].lines = disk[m.fd].lines
      BY <2>4, <3>1, <3>4
    <3> QED
      BY <2>4, <3>5
  <2>10. ASSUME Calm' PROVE MapInv' /\ LineInv'
    <3>1. Live = {filePtr} /\ ~ setting
      BY <1>2, <2>8, <2>10
    <3>2. MapInv'
      <4>1. ~ n.stale /\ disk'[n.map].size >= n.cap
        <5>1. disk'[m.fd].size = n.cap
          BY <2>4, <2>10 DEF Calm
        <5> QED
          BY <1>2, <2>1, <2>8, <2>10, <3>1, <5>1 DEF MapInv
      <4>2. line[t].len <= FileSize => Fits(n, line[t].len)
        BY <1>2, <1>3, <1>7, <2>1, Constants DEF Fits
      <4>3. \A u \in Thread : tpc'[u] = "rewrite" /\ line'[u].len <= FileSize =>
              Fits(n, line'[u].len)
        BY <1>5, <4>2
      <4> QED
        <5>1. /\ ~ damaged' /\ setting' = FALSE /\ filePtr' = filePtr
              /\ Live' = {filePtr} /\ mmf'[filePtr] = n
          BY <1>1, <2>2, <2>3, <3>1
        <5>2. /\ \A u \in Thread : tpc'[u] # "advance"
              /\ n.map # NoFile /\ n.map = n.fd
          BY <1>5, <1>7, <2>1, <2>8, <2>10
        <5> HIDE DEF m
        <5> QED
          BY <4>1, <4>3, <5>1, <5>2 DEF MapInv
    <3>3. LineInv'
      <4>1. \A g \in DOMAIN disk : Numbers(g)' = Numbers(g)
        BY <2>9, <2>10 DEF Numbers
      <4>2. \A o \in Live' : \A f \in FilesOf(o)' : \A l \in disk'[f].lines :
              l.at + l.len <= Reach(o)'
        <5>1. FilesOf(filePtr) \subseteq DOMAIN disk
          BY <1>3 DEF FilesOf
        <5>2. \A f \in FilesOf(filePtr) : \A l \in disk[f].lines :
                l.at + l.len <= m.written
          BY <1>5, <2>8, <2>10, <3>1 DEF LineInv
        <5> QED
          BY <1>2, <1>5, <2>1, <2>2, <2>3, <2>9, <2>10, <3>1, <5>1, <5>2
      <4>3. \A f, g \in DOMAIN disk' :
              Numbers(f)' \cap Numbers(g)' # {} => f = g
        BY <2>4, <2>8, <2>10, <4>1 DEF LineInv
      <4>4. \A f \in DOMAIN disk' : Numbers(f)' \subseteq (1..count') \ Pending'
        <5>1. \A f \in DOMAIN disk : Numbers(f) \subseteq (1..count) \ Pending
          BY <2>8, <2>10 DEF LineInv
        <5> QED
          BY <1>1, <1>5, <2>4, <4>1, <5>1
      <4>5. \A i \in 1..count' : \/ i \in Pending' \cup excused'
                                 \/ \E f \in DOMAIN disk' : i \in Numbers(f)'
        <5>1. \A i \in 1..count : \/ i \in Pending \cup excused
                                  \/ \E f \in DOMAIN disk : i \in Numbers(f)
          BY <2>8, <2>10 DEF LineInv
        <5> QED
          BY <1>1, <1>5, <2>4, <4>1, <5>1
      <4> QED
        BY <4>2, <4>3, <4>4, <4>5 DEF LineInv
    <3> QED
      BY <3>2, <3>3
  <2>11. ASSUME Ordered' PROVE OrderInv' /\ FilesAreWhole'
    <3>1. Calm' /\ Ordered /\ OrderInv
      BY <2>7, <2>11 DEF Calm, Ordered
    <3>2. m.fd \in open
      BY <1>2, <1>7, <2>8, <3>1 DEF OrderInv
    <3>3. OrderInv'
      <4>1. \A o \in Live' : /\ mmf'[o].fd = mmf[o].fd
                             /\ mmf'[o].map = mmf[o].map
                             /\ Reach(o)' = Reach(o)
                             /\ mmf[o].fd \in DOMAIN disk \cup {NoFile}
        BY <1>2, <1>3, <1>5, <2>1, <2>2, <2>3, <2>8, <3>1
      <4>2. \A o \in Live' : mmf'[o].fd # NoFile =>
              mmf'[o].fd \in open' /\ Filled(disk'[mmf'[o].fd].lines, Reach(o)')
        BY <1>1, <2>3, <2>9, <3>1, <4>1 DEF OrderInv
      <4> QED
        BY <2>3, <2>7, <3>1, <4>1, <4>2 DEF OrderInv, Granted
    <3>4. FilesAreWhole'
      <4>1. \A g \in DOMAIN disk' \ open' :
              g \in DOMAIN disk \ open /\ disk'[g] = disk[g] /\ Whole(g)
        BY <1>1, <2>4, <3>1, <3>2 DEF FilesAreWhole, Ordered
      <4> QED
        BY <2>7, <4>1, WholeStays DEF FilesAreWhole
    <3> QED
      BY <3>3, <3>4
  <2>12. FilesAreWhole'
    BY <2>11 DEF FilesAreWhole, Ordered
  <2>13. FilesAreClosed'
    <3>1. \A o \in 1..Len(mmf) : /\ mmf'[o].fd = mmf[o].fd
                                 /\ mmf'[o].gone = mmf[o].gone
      BY <1>2, <2>1, <2>2
    <3> QED
      BY <1>1, <2>2, <2>7, <3>1 DEF FilesAreClosed
  <2> QED
    BY <1>5, <2>3, <2>5, <2>6, <2>10, <2>11, <2>12, <2>13 DEF CalmInv
<1>8. tpc' = [tpc EXCEPT ![t] = "rewrite"] => ~ Return(t)
  BY <1>2 DEF Return, TypeOK
<1> QED
  BY <1>6, <1>7, <1>8 DEF GrowByExtending, Grown
-----------------------------------------------------------------------------
(* setFile(), and the end of the program *)

\* The first newFile() of an object touches no file but the one it opens.
LEMMA FirstFileIs ==
  ASSUME disk \in [DOMAIN disk -> Content],
         NEW f \in FileId, NEW failing \in Calls
  PROVE  LET d == NewFileDisk(Fresh, f, failing, None)
         IN  /\ failing = "open" => DOMAIN d = DOMAIN disk
             /\ failing # "open" => DOMAIN d = DOMAIN disk \cup {f}
             /\ d \in [DOMAIN d -> Content]
             /\ \A g \in DOMAIN disk \ {f} : d[g] = disk[g]
             /\ f \notin DOMAIN disk /\ failing # "open" =>
                  d[f].lines = {} /\ (failing = None => d[f].size = FileSize)
<1>1. /\ Fresh \in Mapping /\ Fresh.fd \in DOMAIN disk \cup {NoFile}
      /\ Fresh.written = 0 /\ Fresh.cap = FileSize
  BY Constants DEF Fresh, Mapping
<1>2. None \in Faults
  BY DEF Faults
<1>3. LET d == NewFileDisk(Fresh, f, failing, None)
      IN  /\ failing = "open" => DOMAIN d = DOMAIN disk
          /\ failing # "open" => DOMAIN d = DOMAIN disk \cup {f}
          /\ d \in [DOMAIN d -> Content]
  BY <1>1, <1>2, NewFileDiskType
<1>4. LET d == NewFileDisk(Fresh, f, failing, None)
      IN  /\ \A g \in DOMAIN disk \ {f} :
               g # Fresh.fd \/ Fresh.written = 0 => d[g] = disk[g]
          /\ f \notin DOMAIN disk /\ failing # "open" =>
               /\ d[f].lines = {}
               /\ failing = None => d[f].size = Fresh.cap
  BY <1>1, <1>2, NewFileDiskIs
<1> QED
  BY <1>1, <1>3, <1>4

\* The new object of setFile() (276-282) keeps the invariant.
LEMMA SetFileKeeps ==
  ASSUME IInv, NEW nm \in Name, NEW p \in Policy, SetFile(nm, p)
  PROVE  IInv'
<1> USE DEF IInv
<1> PICK k \in Nat : k = Len(mmf) + 1
  BY Objects
<1>1. /\ ~ damaged /\ ~ setting /\ Len(mmf) < MaxFiles
      /\ name' = nm /\ policy' = p /\ setting' = TRUE
      /\ UNCHANGED <<counter, spin, tpc, line, using, filePtr, ended, count,
                     excused, damaged>>
  BY DEF SetFile, threads
<1>f. PICK f \in FileId : f = <<nm, 0>>
  <2>1. 0 \in 0..MaxLines
    BY Constants
  <2> QED
    BY <2>1 DEF FileId
<1>2. PICK failing \in Calls :
        /\ mmf' = Append(mmf, NewFileObject(Fresh, f, failing))
        /\ disk' = NewFileDisk(Fresh, f, failing, None)
        /\ open' = NewFileOpen(Fresh, f, failing)
        /\ causes' = causes \cup CauseOf(Fresh, failing)
             \cup (IF f \in DOMAIN disk THEN {"reuse"} ELSE {})
             \cup (IF spin # None THEN {"overlap"} ELSE {})
  BY <1>f DEF SetFile
<1>3. /\ Fresh \in Mapping /\ Fresh.fd = NoFile /\ Fresh.map = NoFile
      /\ Fresh.cap = FileSize /\ Fresh.written = 0
      /\ Fresh.stale = FALSE /\ Fresh.gone = FALSE
      /\ FileSize \in Nat \ {0} /\ f # NoFile
  BY <1>f, Constants, NoFileIsNone DEF Fresh, Mapping
<1>m. PICK m \in Mapping : m = Fresh
  BY <1>3
<1>n. PICK n \in Mapping : n = NewFileObject(m, f, failing)
  BY NewFileObjectType
<1>4. /\ n.fd = (IF failing = "open" THEN NoFile ELSE f)
      /\ n.map = (IF failing = None THEN f ELSE NoFile)
      /\ n.cap = FileSize /\ n.written = 0
      /\ n.stale = FALSE /\ n.gone = FALSE
  BY <1>m, <1>n, <1>3 DEF NewFileObject, CommitsFirst
<1>5. /\ mmf' = Append(mmf, n) /\ mmf \in Seq(Mapping)
  BY <1>m, <1>n, <1>2 DEF TypeOK
<1>6. /\ mmf' \in Seq(Mapping) /\ Len(mmf') = k /\ k \in Nat
      /\ DOMAIN mmf' = 1..k /\ DOMAIN mmf = 1..Len(mmf) /\ Len(mmf) \in Nat
      /\ mmf'[k] = n /\ \A o \in 1..Len(mmf) : mmf'[o] = mmf[o]
  BY <1>5, AppendProperties, LenProperties, Objects
<1>7. /\ DOMAIN disk' = IF failing = "open" THEN DOMAIN disk
                        ELSE DOMAIN disk \cup {f}
      /\ disk' \in [DOMAIN disk' -> Content]
      /\ \A g \in DOMAIN disk \ {f} : disk'[g] = disk[g]
      /\ f \notin DOMAIN disk /\ failing # "open" =>
           disk'[f].lines = {} /\ (failing = None => disk'[f].size = FileSize)
  <2>1. disk \in [DOMAIN disk -> Content]
    BY DEF TypeOK
  <2>2. disk' = NewFileDisk(Fresh, f, failing, None)
    BY <1>2
  <2> QED
    BY <2>1, <2>2, FirstFileIs
<1>8. open' = open \cup (IF failing = "open" THEN {} ELSE {f})
  BY <1>2, <1>3 DEF NewFileOpen, CommitsFirst
<1>9. /\ causes \subseteq causes'
      /\ causes' \subseteq Causes
      /\ "overlap" \notin causes' => spin = None
      /\ "reuse" \notin causes' => f \notin DOMAIN disk
      /\ Granted' => failing = None
  <2> DEFINE reuse == IF f \in DOMAIN disk THEN {"reuse"} ELSE {}
             overlap == IF spin # None THEN {"overlap"} ELSE {}
  <2>1. /\ reuse \subseteq {"reuse"} /\ overlap \subseteq {"overlap"}
        /\ f \in DOMAIN disk => "reuse" \in reuse
        /\ spin # None => "overlap" \in overlap
    OBVIOUS
  <2>2. /\ CauseOf(Fresh, failing) \subseteq {"failed", "refused"}
        /\ failing # None =>
             CauseOf(Fresh, failing) \cap {"failed", "refused"} # {}
    BY DEF CauseOf
  <2>3. causes' = ((causes \cup CauseOf(Fresh, failing)) \cup reuse)
                    \cup overlap
    BY <1>2
  <2>4. causes \subseteq Causes
    BY DEF TypeOK
  <2> HIDE DEF reuse, overlap
  <2>5. /\ causes \subseteq causes' /\ CauseOf(Fresh, failing) \subseteq causes'
        /\ reuse \subseteq causes' /\ overlap \subseteq causes'
    BY <2>3
  <2>6. causes' \subseteq Causes
    BY <2>1, <2>2, <2>3, <2>4 DEF Causes
  <2>7. /\ "overlap" \notin causes' => spin = None
        /\ "reuse" \notin causes' => f \notin DOMAIN disk
    BY <2>1, <2>5
  <2>8. Granted' => failing = None
    BY <2>2, <2>5 DEF Granted
  <2> QED
    BY <2>5, <2>6, <2>7, <2>8
<1>10. /\ Live' = Live \cup {k} /\ Live \subseteq 1..Len(mmf) /\ filePtr < k
       /\ filePtr \in 0..Len(mmf) /\ k \notin 1..Len(mmf)
  BY <1>4, <1>6 DEF Live, TypeOK
<1>11. ObjectInv'
  <2>1. \A o \in DOMAIN mmf' : mmf'[o].cap >= FileSize
    BY <1>3, <1>4, <1>6 DEF ObjectInv
  <2> QED
    BY <1>1, <1>6, <1>10, <2>1 DEF ObjectInv
<1>12. TypeOK'
  <2>1. /\ DOMAIN disk' \subseteq FileId /\ DOMAIN disk \subseteq DOMAIN disk'
        /\ disk' \in [DOMAIN disk' -> Content] /\ open' \subseteq DOMAIN disk'
    BY <1>7, <1>8 DEF TypeOK
  <2>2. \A o \in DOMAIN mmf' :
          /\ {mmf'[o].fd, mmf'[o].map} \subseteq DOMAIN disk' \cup {NoFile}
          /\ mmf'[o].written <= mmf'[o].cap
    <3>1. /\ {n.fd, n.map} \subseteq DOMAIN disk' \cup {NoFile}
          /\ n.written <= n.cap
      BY <1>3, <1>4, <1>7 DEF None
    <3>2. \A o \in 1..Len(mmf) :
            /\ {mmf[o].fd, mmf[o].map} \subseteq DOMAIN disk \cup {NoFile}
            /\ mmf[o].written <= mmf[o].cap
      BY <1>6 DEF TypeOK
    <3> QED
      BY <1>6, <2>1, <3>1, <3>2
  <2>3. /\ Len(mmf') <= MaxFiles /\ filePtr' \in 0..Len(mmf')
        /\ using' \in [Thread -> 0..Len(mmf')]
    BY <1>1, <1>6, Constants DEF TypeOK
  <2> QED
    BY <1>1, <1>6, <1>9, <2>1, <2>2, <2>3 DEF TypeOK
<1>13. LockInv'
  <2>1. \A t \in Thread : tpc[t] = "advance" => mmf'[using[t]] = mmf[using[t]]
    BY <1>6 DEF LockInv, TypeOK
  <2> QED
    BY <1>1, <2>1 DEF LockInv
<1>14. PartInv'
  <2>1. f[2] < counter
    BY <1>f, Constants DEF TypeOK
  <2> QED
    BY <1>1, <1>7, <2>1 DEF PartInv
<1>15. ASSUME Calm'
       PROVE  /\ Calm /\ MapInv /\ LineInv
              /\ spin = None /\ f \notin DOMAIN disk
              /\ \A t \in Thread : tpc[t] = "idle"
              /\ Pending = {} /\ Pending' = {}
              /\ \A o : Reach(o) = mmf[o].written /\ Reach(o)' = mmf'[o].written
  <2>1. Calm /\ MapInv /\ LineInv /\ spin = None /\ f \notin DOMAIN disk
    BY <1>9, <1>15 DEF Calm, CalmInv
  <2> QED
    BY <1>1, <2>1, Constants DEF LockInv, Pending, Reach
<1>16. \A o \in 1..Len(mmf) :
         /\ FilesOf(o)' = FilesOf(o) /\ FilesOf(o) \subseteq DOMAIN disk
         /\ mmf[o].fd \in DOMAIN disk \cup {NoFile}
  BY <1>6 DEF FilesOf, TypeOK
<1>17. FilesOf(k)' \subseteq {f}
  BY <1>4, <1>6 DEF FilesOf
<1>18. ASSUME Calm' PROVE MapInv' /\ LineInv'
  <2>1. MapInv'
    <3>1. \A o \in Live' :
            /\ ~ mmf'[o].stale
            /\ IF mmf'[o].map = NoFile THEN mmf'[o].written = 0
               ELSE disk'[mmf'[o].map].size >= mmf'[o].cap
      <4>1. ASSUME NEW o \in Live
            PROVE  /\ ~ mmf'[o].stale
                   /\ IF mmf'[o].map = NoFile THEN mmf'[o].written = 0
                      ELSE disk'[mmf'[o].map].size >= mmf'[o].cap
        <5>1. mmf'[o] = mmf[o] /\ mmf[o].map \in DOMAIN disk \cup {NoFile}
          BY <1>6, <1>10 DEF TypeOK
        <5> QED
          BY <1>7, <1>15, <1>18, <5>1 DEF MapInv
      <4>2. /\ ~ n.stale
            /\ IF n.map = NoFile THEN n.written = 0
               ELSE disk'[n.map].size >= n.cap
        BY <1>3, <1>4, <1>7, <1>15, <1>18 DEF None
      <4> QED
        BY <1>6, <1>10, <4>1, <4>2
    <3>2. \A o, q \in Live' : o # q => (FilesOf(o) \cap FilesOf(q))' = {}
      <4>1. \A o, q \in Live : o # q => FilesOf(o) \cap FilesOf(q) = {}
        BY <1>15, <1>18 DEF MapInv
      <4>2. \A o \in Live : f \notin FilesOf(o)
        BY <1>10, <1>15, <1>16, <1>18
      <4> QED
        BY <1>10, <1>16, <1>17, <4>1, <4>2
    <3>3. \A o \in Live' : (o = filePtr' /\ setting')
                             \/ mmf'[o].map \in {mmf'[o].fd, NoFile}
      <4>1. n.map \in {n.fd, NoFile}
        BY <1>4 DEF None
      <4>2. \A o \in Live : o = filePtr
        BY <1>1 DEF ObjectInv
      <4> QED
        BY <1>1, <1>6, <1>10, <4>1, <4>2
    <3> QED
      BY <1>1, <1>15, <1>18, <3>1, <3>2, <3>3 DEF MapInv
  <2>2. LineInv'
    <3>1. /\ \A g \in DOMAIN disk :
               disk'[g] = disk[g] /\ Numbers(g)' = Numbers(g)
          /\ f \in DOMAIN disk' => Numbers(f)' = {} /\ disk'[f].lines = {}
          /\ DOMAIN disk' \subseteq DOMAIN disk \cup {f}
          /\ DOMAIN disk \subseteq DOMAIN disk'
      BY <1>7, <1>15, <1>18 DEF Numbers
    <3>2. \A o \in Live' : \A g \in FilesOf(o)' : \A l \in disk'[g].lines :
            l.at + l.len <= Reach(o)'
      <4>1. \A o \in Live : \A g \in FilesOf(o) : \A l \in disk[g].lines :
              l.at + l.len <= Reach(o)'
        BY <1>6, <1>10, <1>15, <1>18 DEF LineInv
      <4>2. f \in FilesOf(k)' => f \in DOMAIN disk'
        BY <1>3, <1>4, <1>6, <1>7 DEF FilesOf, None
      <4>3. \A g \in FilesOf(k)' : disk'[g].lines = {}
        BY <1>17, <3>1, <4>2
      <4> QED
        BY <1>10, <1>16, <3>1, <4>1, <4>3
    <3>3. \A g, h \in DOMAIN disk' : Numbers(g)' \cap Numbers(h)' # {} => g = h
      <4>1. \A g, h \in DOMAIN disk : Numbers(g) \cap Numbers(h) # {} => g = h
        BY <1>15, <1>18 DEF LineInv
      <4> QED
        BY <3>1, <4>1
    <3>4. \A g \in DOMAIN disk' : Numbers(g)' \subseteq 1..count'
      <4>1. \A g \in DOMAIN disk : Numbers(g) \subseteq 1..count
        BY <1>15, <1>18 DEF LineInv
      <4> QED
        BY <1>1, <3>1, <4>1
    <3>5. \A i \in 1..count' : \/ i \in excused'
                               \/ \E g \in DOMAIN disk' : i \in Numbers(g)'
      <4>1. \A i \in 1..count : \/ i \in excused
                                \/ \E g \in DOMAIN disk : i \in Numbers(g)
        BY <1>15, <1>18 DEF LineInv
      <4> QED
        BY <1>1, <3>1, <4>1
    <3> QED
      BY <1>15, <1>18, <3>2, <3>3, <3>4, <3>5 DEF LineInv
  <2> QED
    BY <2>1, <2>2
<1>19. ASSUME Ordered' PROVE OrderInv' /\ FilesAreWhole'
  <2>1. Calm' /\ Ordered /\ OrderInv
    BY <1>9, <1>19 DEF Calm, Ordered
  <2>2. OrderInv'
    <3>1. \A o \in Live : /\ mmf'[o] = mmf[o] /\ Reach(o)' = Reach(o)
                          /\ mmf[o].fd \in DOMAIN disk \cup {NoFile}
      BY <1>6, <1>10, <1>15, <1>16, <2>1
    <3>2. \A g \in DOMAIN disk : disk'[g] = disk[g]
      BY <1>7, <1>15, <2>1
    <3>3. \A o \in Live : /\ mmf'[o].map \in {mmf'[o].fd, NoFile}
                          /\ Granted' => mmf'[o].map # NoFile
                          /\ mmf'[o].fd # NoFile =>
                               /\ mmf'[o].fd \in open'
                               /\ Filled(disk'[mmf'[o].fd].lines, Reach(o)')
      BY <1>8, <1>9, <2>1, <3>1, <3>2 DEF OrderInv, Granted
    <3>4. /\ n.map \in {n.fd, NoFile}
          /\ Granted' => n.map # NoFile
          /\ n.fd # NoFile => n.fd \in open' /\ Filled(disk'[n.fd].lines, 0)
      <4>1. Filled({}, 0)
        BY DEF Filled
      <4> QED
        <5>1. n.fd # NoFile => n.fd \in open' /\ disk'[n.fd].lines = {}
          BY <1>4, <1>7, <1>8, <1>15, <2>1
        <5>2. Granted' => n.map # NoFile
          BY <1>3, <1>4, <1>9
        <5> QED
          BY <1>4, <4>1, <5>1, <5>2 DEF None
    <3>5. mmf'[k] = n /\ Reach(k)' = 0
      BY <1>4, <1>6, <1>15, <2>1
    <3> QED
      BY <1>10, <3>3, <3>4, <3>5 DEF OrderInv
  <2>3. \A g \in DOMAIN disk' \ open' :
          g \in DOMAIN disk \ open /\ disk'[g] = disk[g]
    BY <1>7, <1>8, <1>15, <2>1
  <2>4. FilesAreWhole'
    BY <1>9, <2>1, <2>3, WholeStays DEF FilesAreWhole, Ordered
  <2> QED
    BY <2>2, <2>4
<1>20. FilesAreWhole'
  BY <1>19 DEF FilesAreWhole, Ordered
<1>21. FilesAreClosed'
  <2> SUFFICES ASSUME Granted'
               PROVE  open' = {mmf'[o].fd : o \in Live'}
    BY DEF FilesAreClosed, Live, Granted
  <2>1. open = {mmf[o].fd : o \in Live} /\ failing = None
    BY <1>9 DEF FilesAreClosed, Live, Granted
  <2>2. open' = open \cup {f} /\ n.fd = f
    BY <1>4, <1>8, <2>1 DEF None
  <2> QED
    BY <1>6, <1>10, <2>1, <2>2
<1> QED
  BY <1>11, <1>12, <1>13, <1>14, <1>18, <1>19, <1>20, <1>21 DEF CalmInv

\* The object that filePtr owned goes, and the one that was built, if any, takes
\* its place.
LEMMA ReplaceKeeps ==
  ASSUME IInv, NEW o \in 0..Len(mmf), Replace(o), ~ damaged,
         ended' \in BOOLEAN, setting' = FALSE,
         {o} \ {0} = IF setting THEN {Len(mmf)} ELSE {},
         setting \/ \A t \in Thread : tpc[t] = "idle",
         UNCHANGED <<counter, threads, policy, name, count, excused, damaged>>
  PROVE  IInv'
<1> USE DEF IInv
<1>1. /\ filePtr' = o
      /\ UNCHANGED <<counter, spin, tpc, line, using, policy, name, count,
                     excused, damaged>>
  BY DEF Replace, threads
<1>c. /\ causes \subseteq causes' /\ causes' \subseteq Causes
      /\ (Calm' => Calm) /\ (Ordered' => Ordered) /\ (Granted' => Granted)
  <2>1. causes \subseteq causes' /\ causes' \subseteq causes \cup {"unshrunk"}
    BY DEF Replace, CauseOfCommit
  <2> QED
    BY <2>1 DEF TypeOK, Causes, Calm, Ordered, Granted
<1>2. /\ DOMAIN mmf = 1..Len(mmf) /\ Len(mmf) \in Nat
      /\ filePtr \in 0..Len(mmf)
      /\ setting => o = Len(mmf) /\ o # 0 /\ filePtr < o
      /\ ~ setting => o = 0
  BY Objects DEF ObjectInv, TypeOK
<1>3. Calm => /\ MapInv /\ LineInv /\ spin = None
              /\ \A t \in Thread : tpc[t] = "idle"
  <2> SUFFICES ASSUME Calm PROVE spin = None
    BY Constants DEF LockInv, CalmInv
  <2> QED
    BY DEF CalmInv, MapInv, LockInv, TypeOK
<1>4. LockInv' \/ mmf' # mmf
  BY <1>1, <1>2 DEF LockInv
<1>5. Pending' = Pending
  BY <1>1 DEF Pending
<1>6. CASE filePtr = 0
  <2>1. UNCHANGED <<disk, open, mmf, causes>>
    BY <1>6 DEF Replace
  <2>2. /\ Live' = Live /\ \A p : FilesOf(p)' = FilesOf(p)
        /\ \A p : Reach(p)' = Reach(p) /\ \A f : Numbers(f)' = Numbers(f)
    BY <1>1, <2>1 DEF Live, FilesOf, Reach, Numbers
  <2>3. ObjectInv'
    BY <1>1, <1>2, <1>6, <2>1, <2>2 DEF ObjectInv
  <2>4. TypeOK'
    BY <1>1, <1>c, <1>2, <2>1 DEF TypeOK
  <2>5. LockInv' /\ PartInv'
    BY <1>1, <1>4, <2>1 DEF PartInv
  <2>6. Calm' => MapInv' /\ LineInv'
    <3> SUFFICES ASSUME Calm' PROVE MapInv' /\ LineInv'
      OBVIOUS
    <3>1. MapInv /\ LineInv /\ \A t \in Thread : tpc[t] = "idle"
      BY <1>1, <1>c, <1>3
    <3>2. \A p \in Live : p # filePtr
      <4>1. Live \subseteq 1..Len(mmf)
        BY <1>2 DEF Live
      <4>2. Len(mmf) \in Nat
        BY <1>2
      <4> HIDE DEF IInv
      <4> QED
        BY <1>6, <4>1, <4>2
    <3>3. MapInv'
      BY <1>1, <2>1, <2>2, <3>1, <3>2 DEF MapInv
    <3>4. LineInv'
      BY <1>1, <1>5, <2>1, <2>2, <3>1 DEF LineInv
    <3> QED
      BY <3>3, <3>4
  <2>7. Ordered' => OrderInv'
    BY <1>1, <2>1, <2>2 DEF Ordered, OrderInv, Granted
  <2>8. FilesAreWhole' /\ FilesAreClosed'
    BY <2>1, FilesStay
  <2> QED
    BY <2>3, <2>4, <2>5, <2>6, <2>7, <2>8 DEF CalmInv
<1>7. CASE filePtr # 0
  <2>0. filePtr \in 1..Len(mmf)
    <3>1. Len(mmf) \in Nat /\ filePtr \in 0..Len(mmf)
      BY <1>2
    <3> HIDE DEF IInv
    <3> QED
      BY <1>7, <3>1
  <2> PICK m \in Mapping : m = mmf[filePtr]
    BY <2>0, Objects
  <2>s. PICK fault \in Faults :
          /\ disk' = Committed(disk, m, fault)
          /\ causes' = causes \cup CauseOfCommit(fault)
    BY <1>7 DEF Replace, FaultsOf, Faults
  <2>1. /\ open' = open \ {m.fd} /\ mmf' = [mmf EXCEPT ![filePtr].gone = TRUE]
        /\ fault # None => "unshrunk" \in causes'
    BY <1>7, <2>s DEF Replace, CauseOfCommit
  <2> PICK n \in Mapping : n = [m EXCEPT !.gone = TRUE]
    BY DEF Mapping
  <2>2. /\ n.fd = m.fd /\ n.map = m.map /\ n.cap = m.cap
        /\ n.written = m.written /\ n.stale = m.stale /\ n.gone = TRUE
        /\ mmf' = [mmf EXCEPT ![filePtr] = n]
    BY <2>1 DEF Mapping
  <2>3. /\ mmf' \in Seq(Mapping) /\ Len(mmf') = Len(mmf)
        /\ DOMAIN mmf' = 1..Len(mmf) /\ mmf'[filePtr] = n
        /\ \A p \in 1..Len(mmf) \ {filePtr} : mmf'[p] = mmf[p]
    BY <2>0, <2>2, ObjectChanged
  <2>4. /\ \A p \in 1..Len(mmf) :
             /\ mmf'[p].fd = mmf[p].fd /\ mmf'[p].map = mmf[p].map
             /\ mmf'[p].cap = mmf[p].cap /\ mmf'[p].written = mmf[p].written
             /\ mmf'[p].stale = mmf[p].stale
             /\ FilesOf(p)' = FilesOf(p) /\ Reach(p)' = Reach(p)
        /\ Live' = Live \ {filePtr} /\ Live \subseteq 1..Len(mmf)
    BY <1>1, <1>2, <1>7, <2>2, <2>3 DEF FilesOf, Reach, Live
  <2>5. ObjectInv'
    BY <1>1, <1>2, <2>3, <2>4 DEF ObjectInv
  <2>6. /\ disk' \in [DOMAIN disk -> Content] /\ DOMAIN disk' = DOMAIN disk
        /\ \A g \in DOMAIN disk \ {m.fd} : disk'[g] = disk[g]
        /\ m.fd # NoFile /\ fault = None =>
             /\ disk'[m.fd].size = m.written
             /\ disk'[m.fd].lines =
                  {l \in disk[m.fd].lines : l.at + l.len <= m.written}
        /\ fault # None => disk' = disk
        /\ m.fd \in DOMAIN disk \cup {NoFile}
    <3>1. /\ disk \in [DOMAIN disk -> Content]
          /\ m.fd \in DOMAIN disk \cup {NoFile}
      BY <1>2, <1>7 DEF TypeOK
    <3> QED
      BY <2>s, <3>1, CommittedIs
  <2>7. TypeOK'
    <3>1. \A p \in DOMAIN mmf' :
            /\ {mmf'[p].fd, mmf'[p].map} \subseteq DOMAIN disk' \cup {NoFile}
            /\ mmf'[p].written <= mmf'[p].cap
      BY <1>2, <2>3, <2>4, <2>6 DEF TypeOK
    <3>2. open' \subseteq DOMAIN disk'
      BY <2>1, <2>6 DEF TypeOK
    <3>3. causes' \subseteq Causes
      BY <1>c
    <3>4. DOMAIN disk' \subseteq FileId /\ disk' \in [DOMAIN disk' -> Content]
      BY <2>6 DEF TypeOK
    <3> QED
      BY <1>1, <1>2, <2>3, <3>1, <3>2, <3>3, <3>4 DEF TypeOK
  <2>8. LockInv'
    <3>1. \A t \in Thread : tpc[t] = "advance" => using[t] \in 1..Len(mmf)
      BY <1>2 DEF LockInv, TypeOK
    <3> QED
      BY <1>1, <1>2, <2>4, <3>1 DEF LockInv
  <2>9. PartInv'
    BY <1>1, <1>2, <1>7, <2>6, Objects, EmptySeq DEF PartInv
  <2>10. filePtr \in Live
    BY <1>7 DEF ObjectInv
  <2>11. ASSUME Calm'
         PROVE  /\ Calm /\ MapInv /\ LineInv /\ spin = None
                /\ \A p \in Live' : m.fd \notin FilesOf(p)
                /\ \A p : Reach(p) = mmf[p].written
                /\ \A g \in DOMAIN disk : disk'[g].lines = disk[g].lines
    <3>1. Calm /\ MapInv /\ LineInv /\ spin = None
      BY <1>1, <1>c, <1>3, <2>11
    <3>2. \A p : Reach(p) = mmf[p].written
      BY <3>1 DEF Reach
    <3>3. \A p \in Live' : FilesOf(p) \cap FilesOf(filePtr) = {}
      BY <2>4, <2>10, <3>1 DEF MapInv
    <3>4. m.fd # NoFile => m.fd \in FilesOf(filePtr)
      BY DEF FilesOf
    <3>5. m.fd # NoFile => \A l \in disk[m.fd].lines : l.at + l.len <= m.written
      BY <2>10, <3>1, <3>2, <3>4 DEF LineInv
    <3>6. \A g \in DOMAIN disk : disk'[g].lines = disk[g].lines
      <4> SUFFICES ASSUME NEW g \in DOMAIN disk, g = m.fd
                   PROVE  disk'[g].lines = disk[g].lines
        BY <2>6
      <4>1. m.fd # NoFile
        BY NoFileIsNone DEF TypeOK
      <4> QED
        BY <2>6, <3>5, <4>1
    <3>7. \A p \in Live' : m.fd \notin FilesOf(p)
      BY <3>3, <3>4 DEF FilesOf
    <3> QED
      BY <3>1, <3>2, <3>6, <3>7
  <2>12. ASSUME Calm' PROVE MapInv' /\ LineInv'
    <3>1. MapInv'
      <4>1. \A p \in Live' :
              /\ ~ mmf'[p].stale
              /\ IF mmf'[p].map = NoFile THEN mmf'[p].written = 0
                 ELSE disk'[mmf'[p].map].size >= mmf'[p].cap
        <5> SUFFICES ASSUME NEW p \in Live'
                     PROVE  /\ ~ mmf[p].stale
                            /\ IF mmf[p].map = NoFile THEN mmf[p].written = 0
                               ELSE disk'[mmf[p].map].size >= mmf[p].cap
          BY <2>4
        <5>1. /\ ~ mmf[p].stale
              /\ IF mmf[p].map = NoFile THEN mmf[p].written = 0
                 ELSE disk[mmf[p].map].size >= mmf[p].cap
          BY <2>4, <2>11, <2>12 DEF MapInv
        <5>2. mmf[p].map # NoFile =>
                mmf[p].map # m.fd /\ mmf[p].map \in DOMAIN disk
          BY <1>2, <2>4, <2>11, <2>12 DEF FilesOf, TypeOK
        <5> QED
          BY <2>6, <5>1, <5>2
      <4>2. \A p, q \in Live' : p # q => (FilesOf(p) \cap FilesOf(q))' = {}
        BY <2>4, <2>11, <2>12 DEF MapInv
      <4>3. policy = "EXTEND_FILE" => \A p \in Live' :
              mmf'[p].map \in {mmf'[p].fd, NoFile}
        <5> SUFFICES ASSUME policy = "EXTEND_FILE", NEW p \in Live'
                     PROVE  mmf[p].map \in {mmf[p].fd, NoFile}
          BY <2>4
        <5>1. p \in Live /\ p # filePtr
          BY <2>4
        <5> QED
          BY <2>11, <2>12, <5>1 DEF MapInv
      <4>4. \A t \in Thread : tpc'[t] = "idle"
        BY <1>1, <1>3, <2>11, <2>12
      <4> QED
        BY <1>1, <2>11, <2>12, <4>1, <4>2, <4>3, <4>4 DEF MapInv
    <3>2. LineInv'
      <4>1. \A f \in DOMAIN disk : Numbers(f)' = Numbers(f)
        BY <2>11, <2>12 DEF Numbers
      <4>2. \A p \in Live' : \A f \in FilesOf(p)' : \A l \in disk'[f].lines :
              l.at + l.len <= Reach(p)'
        <5>1. \A p \in Live' : FilesOf(p) \subseteq DOMAIN disk
          BY <1>2, <2>4 DEF FilesOf, TypeOK
        <5>2. \A p \in Live : \A f \in FilesOf(p) : \A l \in disk[f].lines :
                l.at + l.len <= Reach(p)
          BY <2>11, <2>12 DEF LineInv
        <5> QED
          BY <2>4, <2>11, <2>12, <5>1, <5>2
      <4>3. /\ \A f, g \in DOMAIN disk :
                 Numbers(f) \cap Numbers(g) # {} => f = g
            /\ \A f \in DOMAIN disk : Numbers(f) \subseteq (1..count) \ Pending
            /\ \A i \in 1..count : \/ i \in Pending \cup excused
                                   \/ \E f \in DOMAIN disk : i \in Numbers(f)
        BY <2>11, <2>12 DEF LineInv
      <4>4. \A f, g \in DOMAIN disk' :
              Numbers(f)' \cap Numbers(g)' # {} => f = g
        BY <2>6, <4>1, <4>3
      <4>5. \A f \in DOMAIN disk' : Numbers(f)' \subseteq (1..count') \ Pending'
        BY <1>1, <1>5, <2>6, <4>1, <4>3
      <4>6. \A i \in 1..count' : \/ i \in Pending' \cup excused'
                                 \/ \E f \in DOMAIN disk' : i \in Numbers(f)'
        BY <1>1, <1>5, <2>6, <4>1, <4>3
      <4> QED
        BY <4>2, <4>4, <4>5, <4>6 DEF LineInv
    <3> QED
      BY <3>1, <3>2
  <2>13. ASSUME Ordered' PROVE OrderInv' /\ FilesAreWhole'
    <3>1. Calm' /\ Ordered /\ OrderInv
      BY <1>1, <1>c, <2>13 DEF Calm, Ordered
    <3>2. m.fd # NoFile => Filled(disk[m.fd].lines, m.written)
      BY <2>10, <2>11, <3>1 DEF OrderInv
    <3>3. OrderInv'
      <4>1. \A p \in Live' : p \in Live /\ mmf[p].fd # NoFile =>
              mmf[p].fd # m.fd /\ mmf[p].fd \in DOMAIN disk
        BY <1>2, <2>4, <2>11, <3>1 DEF FilesOf, TypeOK
      <4>2. \A p \in Live' : mmf'[p].fd # NoFile =>
              mmf'[p].fd \in open' /\ Filled(disk'[mmf'[p].fd].lines, Reach(p)')
        BY <2>1, <2>4, <2>11, <3>1, <4>1 DEF OrderInv
      <4> QED
        BY <1>1, <1>c, <2>4, <3>1, <4>2 DEF OrderInv
    <3>4. FilesAreWhole'
      <4> SUFFICES ASSUME NEW g \in DOMAIN disk \ open'
                   PROVE  Whole(g)'
        BY <2>6 DEF FilesAreWhole
      <4>1. g # NoFile
        BY NoFileIsNone DEF TypeOK
      <4>2. CASE g = m.fd
        <5>1. Filled(disk'[g].lines, m.written)
          BY <2>11, <3>1, <3>2, <4>1, <4>2
        <5>2. CASE fault = None
          BY <2>6, <4>1, <4>2, <5>1, <5>2, Objects DEF Whole, Mapping
        <5>3. CASE fault # None
          <6>1. /\ m.written \in Nat /\ m.cap \in Nat /\ m.written <= m.cap
                /\ disk[g].size \in Nat
            BY <1>2, <2>0 DEF TypeOK, Content, Mapping
          <6>2. m.map = NoFile => m.written = 0
            BY <2>10, <2>11, <3>1 DEF MapInv
          <6>3. m.map # NoFile => m.map = g /\ disk[g].size >= m.cap
            BY <2>10, <2>11, <3>1, <4>2 DEF MapInv, OrderInv
          <6>4. m.written \in 0..disk'[g].size
            BY <2>6, <5>3, <6>1, <6>2, <6>3
          <6> QED
            BY <2>1, <5>1, <5>3, <6>4 DEF Whole
        <5> QED
          BY <5>2, <5>3
      <4>3. CASE g # m.fd
        <5>1. Whole(g) /\ disk'[g] = disk[g]
          BY <2>1, <2>6, <3>1, <4>3 DEF FilesAreWhole, Ordered
        <5> QED
          BY <1>c, <5>1, WholeStays
      <4> QED
        BY <4>2, <4>3
    <3> QED
      BY <3>3, <3>4
  <2>14. FilesAreWhole'
    BY <2>13 DEF FilesAreWhole, Ordered
  <2>15. FilesAreClosed'
    <3> SUFFICES ASSUME Granted'
                 PROVE  open' = {mmf'[p].fd : p \in Live'}
      BY DEF FilesAreClosed, Live, Granted
    <3>1. Calm' /\ OrderInv /\ Granted /\ open = {mmf[p].fd : p \in Live}
      BY <1>c DEF Calm, Ordered, Granted, FilesAreClosed, Live
    <3>2. \A p \in Live' : mmf[p].fd # m.fd
      BY <1>1, <2>4, <2>11, <3>1 DEF OrderInv, FilesOf
    <3> QED
      BY <2>1, <2>4, <2>10, <3>1, <3>2
  <2> QED
    BY <2>5, <2>7, <2>8, <2>9, <2>12, <2>13, <2>14, <2>15 DEF CalmInv
<1> QED
  BY <1>6, <1>7

\* The end of the old object (114-117) keeps the invariant.
LEMMA StoreFileKeeps ==
  ASSUME IInv, StoreFile
  PROVE  IInv'
<1>1. /\ ~ damaged /\ setting /\ setting' = FALSE /\ Replace(Len(mmf))
      /\ UNCHANGED <<counter, threads, policy, name, ended, count, excused,
                     damaged>>
  BY DEF StoreFile
<1>2. ended' \in BOOLEAN
  BY <1>1 DEF IInv, TypeOK
<1>3. Len(mmf) \in 0..Len(mmf) /\ Len(mmf) # 0
  BY <1>1, Objects DEF IInv, ObjectInv, TypeOK
<1>4. {Len(mmf)} \ {0} = IF setting THEN {Len(mmf)} ELSE {}
  BY <1>1, <1>3
<1>5. UNCHANGED <<counter, threads, policy, name, count, excused, damaged>>
  BY <1>1
<1> QED
  BY <1>1, <1>2, <1>3, <1>4, <1>5, ReplaceKeeps

\* The end of the program (114-117) keeps the invariant.
LEMMA EndKeeps ==
  ASSUME IInv, End
  PROVE  IInv'
<1>1. /\ ~ damaged /\ ~ setting /\ ended' = TRUE /\ Replace(0)
      /\ \A t \in Thread : tpc[t] = "idle"
      /\ UNCHANGED <<counter, threads, policy, name, setting, count, excused,
                     damaged>>
  BY DEF End
<1>2. setting' = FALSE /\ 0 \in 0..Len(mmf)
  BY <1>1, Objects DEF IInv, TypeOK
<1>3. {0} \ {0} = IF setting THEN {Len(mmf)} ELSE {}
  BY <1>1
<1>4. /\ UNCHANGED <<counter, threads, policy, name, count, excused, damaged>>
      /\ ended' \in BOOLEAN
  BY <1>1
<1> QED
  BY <1>1, <1>2, <1>3, <1>4, ReplaceKeeps

\* Every step keeps the invariant.
LEMMA InvNext == IInv /\ [Next]_vars => IInv'
<1> SUFFICES ASSUME IInv, [Next]_vars PROVE IInv'
  OBVIOUS
<1>1. ASSUME NEW t \in Thread, LogStep(t) PROVE IInv'
  BY <1>1, WriteKeeps, AdvanceKeeps, DoesNotFitKeeps, GrowByNewFileKeeps,
     GrowByExtendingKeeps DEF LogStep
<1>2. ASSUME NEW t \in Thread, NEW len \in Length, Log(t, len) PROVE IInv'
  BY <1>2, LogKeeps
<1>3. ASSUME NEW nm \in Name, NEW p \in Policy, SetFile(nm, p) PROVE IInv'
  BY <1>3, SetFileKeeps
<1>4. CASE UNCHANGED vars
  <2>1. UNCHANGED <<disk, open, mmf, counter, spin, tpc, line, using, filePtr,
                    policy, name, setting, ended, count, excused, causes,
                    damaged>>
    BY <1>4 DEF vars, files, threads, setup, past
  <2>2. /\ Live' = Live /\ Pending' = Pending
        /\ \A x : /\ FilesOf(x)' = FilesOf(x) /\ Reach(x)' = Reach(x)
                 /\ Numbers(x)' = Numbers(x) /\ Whole(x)' = Whole(x)
    BY <2>1 DEF Live, FilesOf, Reach, Pending, Numbers, Whole
  <2>3. TypeOK'
    BY <2>1 DEF IInv, TypeOK
  <2>4. LockInv' /\ ObjectInv' /\ PartInv'
    BY <2>1, <2>2 DEF IInv, LockInv, ObjectInv, PartInv
  <2>5. CalmInv'
    <3>1. MapInv => MapInv'
      BY <2>1, <2>2 DEF MapInv
    <3>2. LineInv => LineInv'
      BY <2>1, <2>2 DEF LineInv
    <3> QED
      BY <2>1, <3>1, <3>2 DEF IInv, CalmInv, Calm
  <2>6. Ordered' => OrderInv'
    BY <2>1, <2>2 DEF IInv, Ordered, OrderInv, Granted
  <2>7. FilesAreWhole' /\ FilesAreClosed'
    BY <2>1, <2>2 DEF IInv, FilesAreWhole, FilesAreClosed
  <2> QED
    BY <2>3, <2>4, <2>5, <2>6, <2>7 DEF IInv
<1> QED
  BY <1>1, <1>2, <1>3, <1>4, StoreFileKeeps, EndKeeps DEF Next
-----------------------------------------------------------------------------
(* The theorems *)

\* The inductive invariant holds in every state of the logger.
THEOREM Invariant == Spec => []IInv
BY InvInit, InvNext, PTL DEF Spec

\* The variables take the values of their types, a file that was closed (192)
\* holds whole lines without a gap, and nothing else unless the call that cuts
\* it failed, and newFile() leaves no file open: as long as nothing has gone
\* wrong that each of them names.
THEOREM FilesInOrder == Spec => []FileInv
<1>1. IInv => FileInv
  BY DEF IInv, FileInv
<1> QED
  BY <1>1, Invariant, PTL

\* No line goes where the file is not, but for one of three causes: setFile()
\* overlaps a call of log() (282), a file is opened again, or a call fails
\* after the old file was committed or mapped anew (147, 158, 163).
THEOREM DamageExplained == Spec => []DamageHasCause
<1>1. IInv => DamageHasCause
  <2> SUFFICES ASSUME IInv, damaged
               PROVE  causes \cap {"overlap", "reuse", "failed"} # {}
    BY DEF DamageHasCause
  <2>1. ~ Calm
    BY DEF IInv, CalmInv, MapInv
  <2>2. causes \subseteq Causes
    BY DEF IInv, TypeOK
  <2> QED
    BY <2>1, <2>2 DEF Calm, Causes
<1> QED
  BY <1>1, Invariant, PTL

\* Every line is in exactly one file once log() has returned (309), unless it
\* was given up for want of a file, because the file could not grow, or because
\* of its length.
THEOREM LinesKept == Spec => []EveryLineIsKept
<1>1. IInv => EveryLineIsKept
  <2> SUFFICES ASSUME IInv, Calm, NEW i \in 1..count \ (InHand \cup excused)
               PROVE  \E f \in DOMAIN disk :
                        \A g \in DOMAIN disk : i \in Numbers(g) <=> g = f
    BY DEF EveryLineIsKept, Calm
  <2>1. LineInv
    BY DEF IInv, CalmInv
  <2>2. Pending \subseteq InHand
    BY DEF Pending, InHand, IInv, TypeOK
  <2>3. PICK f \in DOMAIN disk : i \in Numbers(f)
    BY <2>1, <2>2 DEF LineInv
  <2>4. \A g \in DOMAIN disk : i \in Numbers(g) => g = f
    <3>1. ASSUME NEW g \in DOMAIN disk, i \in Numbers(g) PROVE g = f
      <4>1. Numbers(g) \cap Numbers(f) # {}
        BY <2>3, <3>1
      <4> QED
        BY <2>1, <4>1 DEF LineInv
    <3> QED
      BY <3>1
  <2> QED
    BY <2>3, <2>4
<1> QED
  BY <1>1, Invariant, PTL
=============================================================================
