------------------------------- MODULE Logger -------------------------------
(***************************************************************************)
(* logger.cpp: Logger, which writes the lines of several threads into a    *)
(* MemoryMappedFile that is replaced or extended when it is full.          *)
(*                                                                         *)
(* A file is named by the name given to setFile() and the number of the    *)
(* part (0 for none).  What is in it are the lines and where they begin;   *)
(* a line is its number and length.  Three steps of log() are told apart:  *)
(* the copy of the line, the update of the addresses after it, and what is *)
(* done when the line does not fit.  The formatting, the console and the   *)
(* level are left out.  Each call of log() stands for a line that passes.  *)
(*                                                                         *)
(* Of the system calls, open(), mmap(), mremap() and every ftruncate() may *)
(* fail; munmap() and close() are taken to succeed, and what msync() does  *)
(* is not seen by the program.                                             *)
(***************************************************************************)
EXTENDS Integers, Sequences

CONSTANTS Thread,      \* the threads that log; one more calls setFile()
          Name,        \* the names given to setFile()
          FileSize,    \* fileSize_
          Length,      \* the lengths of lines
          MaxLines,    \* bound: how many lines are logged
          MaxFiles     \* bound: how often setFile() is called

ASSUME SizeAssumption == FileSize \in Nat \ {0}
ASSUME LengthAssumption == Length \subseteq Nat \ {0}
ASSUME BoundAssumption == MaxLines \in Nat /\ MaxFiles \in Nat

None == "none"
NoFile == <<None, 0>>
Policy == {"NEW_FILE", "EXTEND_FILE"}
FileId == Name \X (0..MaxLines)

ASSUME NoneAssumption == None \notin Thread \cup Name

VARIABLES disk,      \* the files there are: their size and lines
          open,      \* the files a descriptor is open for
          mmf,       \* the MemoryMappedFile objects, as they were built:
                     \* fd: the file of fileDesc_; map: the file whose mapping
                     \* the addresses point into; stale: it is unmapped; cap:
                     \* currFileSize_; written: writtenBytes_; gone: destroyed
          filePtr,   \* the object filePtr owns, 0 for none
          policy, name, counter,   \* policy_, fileName_, fileCounter
          spin,      \* the thread that holds spinLock
          tpc, line, using,        \* a thread in log(): where, with which
                                   \* line, in write() of which object
          setting,   \* setFile() has built an object and not yet stored it
          count,     \* how many calls of log() there were
          excused,   \* history: lines given up: there was no file, growing it
                     \* failed, or it cannot hold the line
          causes,    \* history: what has gone wrong around the logger
          damaged,   \* a line was written to memory that is not the file's
          ended      \* the program has destroyed filePtr

files == <<disk, open, mmf, counter>>
threads == <<spin, tpc, line, using>>
setup == <<filePtr, policy, name, setting, ended>>
past == <<count, excused, causes, damaged>>
vars == <<files, threads, setup, past>>

NoLine == [id |-> 0, len |-> 0]

Init == /\ disk = <<>> /\ open = {} /\ mmf = <<>> /\ counter = 1
        /\ filePtr = 0 /\ policy = "NEW_FILE" /\ name = None
        /\ spin = None
        /\ tpc = [t \in Thread |-> "idle"]
        /\ line = [t \in Thread |-> NoLine]
        /\ using = [t \in Thread |-> 0]
        /\ setting = FALSE /\ ended = FALSE
        /\ count = 0 /\ excused = {} /\ causes = {} /\ damaged = FALSE

InHand == {line[t].id : t \in Thread}
-----------------------------------------------------------------------------
(* MemoryMappedFile *)

\* ftruncate: what lies behind the new end is lost.
Resized(d, f, size) ==
  [d EXCEPT ![f] = [size |-> size,
                    lines |-> {l \in @.lines : l.at + l.len <= size}]]

\* open() with O_CREAT: a file that is there already stays as it is.
Opened(d, f) ==
  [g \in DOMAIN d \cup {f} |->
     IF g \in DOMAIN d THEN d[g] ELSE [size |-> 0, lines |-> {}]]

\* Mutation: the file is cut to what it was made for, not to what was written.
CommittedToFileSize(d, m, fault) ==
  IF m.fd = NoFile \/ fault # None THEN d ELSE Resized(d, m.fd, FileSize)

\* commit(): the file is cut to what was written, then closed; the addresses
\* stay as they are.  What the ftruncate() returns is not looked at (192): if it
\* fails, the file keeps its size.
Committed(d, m, fault) ==
  IF m.fd = NoFile \/ fault # None THEN d ELSE Resized(d, m.fd, m.written)

\* The faults of commit(): without a file the call is not made.
Faults == {None, "ftruncate"}
FaultsOf(m) == IF m.fd = NoFile THEN {None} ELSE Faults

CauseOfCommit(fault) == IF fault = None THEN {} ELSE {"unshrunk"}

CommitsFirst(m) == m.written > 0

\* newFile() of file f on object m, with the call that fails, if any, and the
\* fault of the commit before it: the object, the files and the open descriptors
\* it leaves.
NewFileObject(m, f, failing) ==
  [fd |-> IF failing = "open" THEN NoFile ELSE f,
   map |-> IF failing = None THEN f ELSE m.map,
   stale |-> failing # None /\ (m.stale \/ (CommitsFirst(m) /\ m.map # NoFile)),
   cap |-> m.cap,
   written |-> IF failing = None THEN 0 ELSE m.written,
   gone |-> m.gone]

NewFileDisk(m, f, failing, fault) ==
  LET d == IF CommitsFirst(m) THEN Committed(disk, m, fault) ELSE disk
  IN  IF failing = "open" THEN d
      ELSE IF failing = "ftruncate" THEN Opened(d, f)
      ELSE Resized(Opened(d, f), f, m.cap)

NewFileOpen(m, f, failing) ==
  (IF CommitsFirst(m) THEN open \ {m.fd} ELSE open)
    \cup (IF failing = "open" THEN {} ELSE {f})

Calls == {None, "open", "ftruncate", "mmap"}

\* What a failed newFile() means: the addresses of an unmapped file stay in
\* use, or the object is as it was and only lacks a file.
CauseOf(m, failing) ==
  IF failing = None THEN {}
  ELSE IF m.written > 0 THEN {"failed"} ELSE {"refused"}

\* Mutation: one byte too many.
FitsLoosely(m, len) == m.map # NoFile /\ m.written + len <= m.cap + 1

\* Without a mapping both addresses are null and nothing fits.
Fits(m, len) == m.map # NoFile /\ m.written + len <= m.cap
-----------------------------------------------------------------------------
(* log() *)

\* Mutation: the lock is not waited for.
LockIsIgnored == TRUE

LockIsFree == spin = None

Log(t, len) ==
  /\ ~ damaged /\ ~ ended
  /\ tpc[t] = "idle"
  /\ LockIsFree
  /\ count < MaxLines
  /\ count' = count + 1
  /\ IF filePtr = 0
     THEN /\ excused' = excused \cup {count'}
          /\ UNCHANGED <<threads, causes>>
     ELSE /\ spin' = t
          /\ tpc' = [tpc EXCEPT ![t] = "write"]
          /\ line' = [line EXCEPT ![t] = [id |-> count', len |-> len]]
          /\ causes' = IF setting THEN causes \cup {"overlap"} ELSE causes
          /\ UNCHANGED <<using, excused>>
  /\ UNCHANGED <<files, setup, damaged>>

Return(t) == /\ spin' = None
             /\ tpc' = [tpc EXCEPT ![t] = "idle"]
             /\ line' = [line EXCEPT ![t] = NoLine]
             /\ using' = [using EXCEPT ![t] = 0]

\* memcpy() of a line, to where it begins in the file.
Copied(d, f, l) ==
  [d EXCEPT ![f] = [size |-> @.size,
                    lines |-> {k \in @.lines : k.at # l.at} \cup {l}]]

\* write(), up to the copy: the first and the second attempt.
Write(t) ==
  LET m == mmf[filePtr]
      l == [id |-> line[t].id, len |-> line[t].len, at |-> m.written]
  IN  /\ ~ damaged
      /\ tpc[t] \in {"write", "rewrite"}
      /\ Fits(m, l.len)
      /\ IF m.stale \/ disk[m.map].size < l.at + l.len
         THEN damaged' = TRUE /\ UNCHANGED <<files, threads>>
         ELSE /\ disk' = Copied(disk, m.map, l)
              /\ tpc' = [tpc EXCEPT ![t] = "advance"]
              /\ using' = [using EXCEPT ![t] = filePtr]
              /\ UNCHANGED <<open, mmf, counter, spin, line, damaged>>
      /\ UNCHANGED <<setup, count, excused, causes>>

\* write(), after the copy.
Advance(t) ==
  /\ ~ damaged
  /\ tpc[t] = "advance"
  /\ damaged' = mmf[using[t]].gone
  /\ mmf' = [mmf EXCEPT ![using[t]].written = @ + line[t].len]
  /\ Return(t)
  /\ UNCHANGED <<disk, open, counter, setup, count, excused, causes>>

DoesNotFit(t) ==
  /\ ~ damaged
  /\ tpc[t] \in {"write", "rewrite"}
  /\ ~ Fits(mmf[filePtr], line[t].len)
  /\ IF tpc[t] = "write"
     THEN tpc' = [tpc EXCEPT ![t] = "grow"] /\ UNCHANGED <<spin, line, using>>
     ELSE Return(t)
  /\ excused' = IF tpc[t] = "rewrite" /\ line[t].len > FileSize
                THEN excused \cup {line[t].id} ELSE excused
  /\ UNCHANGED <<files, setup, count, causes, damaged>>

\* After newFile() or extendFile() the line is written again, or given up.
Grown(t, ok) ==
  IF ok THEN /\ tpc' = [tpc EXCEPT ![t] = "rewrite"]
             /\ UNCHANGED <<spin, line, using, excused>>
        ELSE Return(t) /\ excused' = excused \cup {line[t].id}

GrowByNewFile(t) ==
  /\ ~ damaged
  /\ tpc[t] = "grow"
  /\ policy = "NEW_FILE"
  /\ \E failing \in Calls, fault \in Faults :
       LET m == mmf[filePtr]
           f == <<name, counter>>
       IN  /\ fault \in IF CommitsFirst(m) THEN FaultsOf(m) ELSE {None}
           /\ mmf' = [mmf EXCEPT ![filePtr] = NewFileObject(m, f, failing)]
           /\ disk' = NewFileDisk(m, f, failing, fault)
           /\ open' = NewFileOpen(m, f, failing)
           /\ Grown(t, failing = None)
           /\ causes' = causes \cup CauseOf(m, failing)
                \cup CauseOfCommit(fault)
                \cup IF m.map # NoFile /\ m.written = 0 THEN {"long"} ELSE {}
  /\ counter' = counter + 1
  /\ UNCHANGED <<setup, count, damaged>>

\* extendFile(): mremap() fails on addresses that are not mapped; what the
\* ftruncate() after it returns is not looked at.
GrowByExtending(t) ==
  LET m == mmf[filePtr]
      cap == m.cap + FileSize
  IN  /\ ~ damaged
      /\ tpc[t] = "grow"
      /\ policy = "EXTEND_FILE"
      /\ \/ /\ Grown(t, FALSE)
            /\ causes' = causes \cup {"refused"}
            /\ UNCHANGED files
         \/ /\ m.map # NoFile /\ ~ m.stale
            /\ Grown(t, TRUE)
            /\ mmf' = [mmf EXCEPT ![filePtr].cap = cap]
            /\ \/ /\ m.fd # NoFile
                  /\ disk' = Resized(disk, m.fd, cap)
                  /\ UNCHANGED causes
               \/ causes' = causes \cup {"failed"} /\ UNCHANGED disk
            /\ UNCHANGED <<open, counter>>
      /\ UNCHANGED <<setup, count, damaged>>
-----------------------------------------------------------------------------
(* setFile(), and the end of the program *)

\* An object before its constructor calls newFile().
Fresh == [fd |-> NoFile, map |-> NoFile, stale |-> FALSE, cap |-> FileSize,
          written |-> 0, gone |-> FALSE]

\* The fields are set and the new object is built, its newFile() included.
SetFile(n, p) ==
  /\ ~ damaged /\ ~ ended /\ ~ setting
  /\ Len(mmf) < MaxFiles
  /\ \E failing \in Calls :
       LET f == <<n, 0>>
       IN  /\ mmf' = Append(mmf, NewFileObject(Fresh, f, failing))
           /\ disk' = NewFileDisk(Fresh, f, failing, None)
           /\ open' = NewFileOpen(Fresh, f, failing)
           /\ causes' = causes \cup CauseOf(Fresh, failing)
                \cup (IF f \in DOMAIN disk THEN {"reuse"} ELSE {})
                \cup (IF spin # None THEN {"overlap"} ELSE {})
  /\ name' = n
  /\ policy' = p
  /\ setting' = TRUE
  /\ UNCHANGED <<counter, threads, filePtr, ended, count, excused,
                 damaged>>

\* reset(), and the destructor of the object that filePtr owned: commit().
Replace(o) ==
  /\ filePtr' = o
  /\ IF filePtr = 0 THEN UNCHANGED <<disk, open, mmf, causes>>
     ELSE /\ \E fault \in FaultsOf(mmf[filePtr]) :
               /\ disk' = Committed(disk, mmf[filePtr], fault)
               /\ causes' = causes \cup CauseOfCommit(fault)
          /\ open' = open \ {mmf[filePtr].fd}
          /\ mmf' = [mmf EXCEPT ![filePtr].gone = TRUE]

StoreFile == /\ ~ damaged
             /\ setting
             /\ setting' = FALSE
             /\ Replace(Len(mmf))
             /\ UNCHANGED <<counter, threads, policy, name, ended, count,
                            excused, damaged>>

\* main() returns after it has joined the threads.
End == /\ ~ damaged /\ ~ ended /\ ~ setting
       /\ \A t \in Thread : tpc[t] = "idle"
       /\ ended' = TRUE
       /\ Replace(0)
       /\ UNCHANGED <<counter, threads, policy, name, setting, count,
                      excused, damaged>>
-----------------------------------------------------------------------------
LogStep(t) == \/ Write(t) \/ Advance(t) \/ DoesNotFit(t)
              \/ GrowByNewFile(t) \/ GrowByExtending(t)

Next == \/ \E t \in Thread : LogStep(t) \/ \E len \in Length : Log(t, len)
        \/ \E n \in Name, p \in Policy : SetFile(n, p)
        \/ StoreFile \/ End

Spec == Init /\ [][Next]_vars
-----------------------------------------------------------------------------
Causes == {"overlap", "reuse", "refused", "failed", "long", "unshrunk"}
Line == [id : 1..MaxLines, len : Length, at : Nat]
Content == [size : Nat, lines : SUBSET Line]
Mapping == [fd : FileId \cup {NoFile}, map : FileId \cup {NoFile},
            stale : BOOLEAN, cap : Nat, written : Nat, gone : BOOLEAN]

\* The values the variables take: no object has written more than it maps.
TypeOK ==
  /\ DOMAIN disk \subseteq FileId
  /\ disk \in [DOMAIN disk -> Content]
  /\ open \subseteq DOMAIN disk
  /\ mmf \in Seq(Mapping) /\ Len(mmf) <= MaxFiles
  /\ \A o \in DOMAIN mmf :
       /\ {mmf[o].fd, mmf[o].map} \subseteq DOMAIN disk \cup {NoFile}
       /\ mmf[o].written <= mmf[o].cap
  /\ filePtr \in 0..Len(mmf)
  /\ policy \in Policy
  /\ name \in Name \cup {None}
  /\ counter \in 1..(MaxLines + 1)
  /\ spin \in Thread \cup {None}
  /\ tpc \in [Thread -> {"idle", "write", "advance", "grow", "rewrite"}]
  /\ line \in [Thread -> [id : 1..MaxLines, len : Length] \cup {NoLine}]
  /\ using \in [Thread -> 0..Len(mmf)]
  /\ setting \in BOOLEAN /\ ended \in BOOLEAN /\ damaged \in BOOLEAN
  /\ count \in 0..MaxLines /\ excused \subseteq 1..count
  /\ causes \subseteq Causes

\* The lines never go where the file is not, unless setFile() overlaps a call
\* of log() (282) or opens the same file again, a newFile() fails after the old
\* file was committed (158, 163), or extendFile() could not extend the file
\* (147).  Every other failing call is survived, the shrink of a commit too.
DamageHasCause == damaged => causes \cap {"overlap", "reuse", "failed"} # {}

\* Each of the first n bytes of a file with these lines belongs to one of them,
\* and no line goes beyond.
Covers(l, b) == l.at <= b /\ b < l.at + l.len
Filled(lines, n) ==
  /\ \A l \in lines : l.at + l.len <= n
  /\ \A b \in 0..(n - 1) :
       \E l \in lines : \A k \in lines : Covers(k, b) <=> k = l

\* A file that was closed holds whole lines without a gap and, unless a shrink
\* failed (192), nothing else; no failing shrink costs a line, or a part of one.
Whole(f) == \E n \in 0..disk[f].size :
              /\ Filled(disk[f].lines, n)
              /\ "unshrunk" \notin causes => n = disk[f].size
FilesAreWhole ==
  causes \subseteq {"refused", "unshrunk"} =>
    \A f \in DOMAIN disk \ open : Whole(f)

\* The lines that a file holds.
Numbers(f) == {l.id : l \in disk[f].lines}

\* Every line that was logged is in exactly one file, unless there was no file
\* to write to, the file could not grow, or the line is longer than a file:
\* after newFile() and extendFile() there is room for it, and no other line
\* takes its place.
EveryLineIsKept ==
  causes \subseteq {"refused", "long", "unshrunk"} =>
    \A i \in 1..count \ (InHand \cup excused) :
      \E f \in DOMAIN disk :
        \A g \in DOMAIN disk : i \in Numbers(g) <=> g = f

\* As long as no call but a shrink fails and lines are not longer than files,
\* the only open files are those of the objects there are: newFile() leaves none
\* behind.
FilesAreClosed ==
  causes \subseteq {"unshrunk"} =>
    open = {mmf[o].fd : o \in {p \in DOMAIN mmf : ~ mmf[p].gone}}

\* The files and the objects that map them, while nothing has gone wrong that
\* the part excludes.
FileInv == TypeOK /\ FilesAreWhole /\ FilesAreClosed
=============================================================================
