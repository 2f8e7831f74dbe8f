---------------------------- MODULE TailerProofs ----------------------------
(***************************************************************************)
(* Proofs about module Tailer, for every size of buffer, line and file and *)
(* every number of files, errors and restarts: what lineBuffer holds, that *)
(* the messages are the lines of what was read, that nothing is lost or    *)
(* published twice, and that Tailer implements LineStream.                 *)
(***************************************************************************)
EXTENDS TailerStream, Recursion, SequenceTheorems, WellFoundedInduction, TLAPS

(***************************************************************************)
(* flushCompleteLines.                                                     *)
(***************************************************************************)
\* A non-empty set of positions up to n has a greatest element, which Max returns.
LEMMA MaxOfPositions ==
  ASSUME NEW n \in Nat, NEW P \in SUBSET (1..n), P # {}
  PROVE  Max(P) \in P /\ \A i \in P : Max(P) >= i
<1> DEFINE T == {k \in Nat : \E i \in P : k = n - i}
<1>1. T \subseteq Nat /\ T # {}
  <2>1. PICK i \in P : TRUE
    OBVIOUS
  <2>2. n - i \in T
    OBVIOUS
  <2> QED
    BY <2>2
<1>2. PICK x \in T : \A y \in T : ~ (<<y, x>> \in OpToRel(<, Nat))
  BY <1>1, WFMin, NatLessThanWellFounded
<1>3. \A y \in T : ~(y < x)
  BY <1>1, <1>2 DEF OpToRel
<1>4. PICK m \in P : x = n - m
  OBVIOUS
<1>5. \A i \in P : m >= i
  <2> TAKE i \in P
  <2>1. i \in 1..n /\ m \in 1..n
    OBVIOUS
  <2>2. n - i \in T
    BY <2>1
  <2>3. ~(n - i < n - m)
    BY <2>2, <1>3, <1>4
  <2> QED
    BY <2>1, <2>3
<1> QED
  BY <1>5 DEF Max

LEMMA LastNewlineInRange ==
  ASSUME NEW s \in Seq(Byte)
  PROVE  LastNewline(s) \in 0..Len(s)
<1>1. Len(s) \in Nat /\ Newlines(s) \in SUBSET (1..Len(s))
  BY DEF Newlines
<1>2. CASE Newlines(s) = {}
  BY <1>1, <1>2 DEF LastNewline
<1>3. CASE Newlines(s) # {}
  <2>1. Max(Newlines(s)) \in Newlines(s)
    BY <1>1, <1>3, MaxOfPositions
  <2> QED
    BY <1>1, <1>3, <2>1 DEF LastNewline
<1> QED
  BY <1>2, <1>3

\* What flushCompleteLines leaves is the end of what it was given, and fits the limit
\* when the buffer held at most one line limit before the read.
LEMMA RestIsSuffix ==
  ASSUME NEW s \in Seq(Byte), Len(s) <= MaxLine + ReadBuf
  PROVE  /\ Rest(s) \in Seq(Byte)
         /\ Len(Rest(s)) <= Len(s)
         /\ Len(Rest(s)) <= MaxLine
         /\ Rest(s) = SubSeq(s, Len(s) - Len(Rest(s)) + 1, Len(s))
<1> DEFINE c == IF Oversized(s) THEN MaxLine ELSE LastNewline(s)
<1>1. Len(s) \in Nat /\ c \in 0..Len(s)
  BY LastNewlineInRange, TailerAssumption DEF Oversized
<1>2. Rest(s) = SubSeq(s, c + 1, Len(s))
  BY DEF Rest
<1>3. Rest(s) \in Seq(Byte) /\ Len(Rest(s)) = Len(s) - c
  <2>1. \A i \in (c + 1)..Len(s) : s[i] \in Byte
    BY <1>1
  <2> HIDE DEF c
  <2> QED
    BY <1>1, <1>2, <2>1, SubSeqProperties
<1>4. Len(s) - c <= MaxLine
  BY <1>1, TailerAssumption DEF Oversized
<1>5. Len(s) - Len(Rest(s)) + 1 = c + 1
  BY <1>1, <1>3
<1> HIDE DEF c
<1>6. Rest(s) = SubSeq(s, Len(s) - Len(Rest(s)) + 1, Len(s))
  BY <1>2, <1>5
<1>7. Len(Rest(s)) <= Len(s) /\ Len(Rest(s)) <= MaxLine
  BY <1>1, <1>3, <1>4
<1> QED
  BY <1>3, <1>6, <1>7

(***************************************************************************)
(* Subsequences.                                                           *)
(***************************************************************************)
\* A suffix of a slice of d is the slice with the same end.
LEMMA SuffixOfSlice ==
  ASSUME NEW d \in Seq(Byte), NEW i \in Nat, NEW j \in Nat, NEW r \in Nat,
         1 <= i, j <= Len(d), r <= j - i + 1,
         NEW s, s = SubSeq(d, i, j)
  PROVE  SubSeq(s, Len(s) - r + 1, Len(s)) = SubSeq(d, j - r + 1, j)
<1> DEFINE t == SubSeq(s, Len(s) - r + 1, Len(s))
<1> DEFINE u == SubSeq(d, j - r + 1, j)
<1>1. /\ s \in Seq(Byte) /\ Len(s) = j - i + 1
      /\ \A x \in 1..(j - i + 1) : s[x] = d[i + x - 1]
  <2>1. \A x \in i..j : d[x] \in Byte
    OBVIOUS
  <2> QED
    BY <2>1, SubSeqProperties
<1>2. /\ t \in Seq(Byte) /\ Len(t) = r
      /\ \A x \in 1..r : t[x] = s[Len(s) - r + 1 + x - 1]
  <2>1. \A x \in (Len(s) - r + 1)..Len(s) : s[x] \in Byte
    BY <1>1
  <2> QED
    BY <1>1, <2>1, SubSeqProperties
<1>3. /\ u \in Seq(Byte) /\ Len(u) = r
      /\ \A x \in 1..r : u[x] = d[j - r + 1 + x - 1]
  <2>1. \A x \in (j - r + 1)..j : d[x] \in Byte
    OBVIOUS
  <2> QED
    BY <2>1, SubSeqProperties
<1>4. ASSUME NEW x \in 1..r PROVE t[x] = u[x]
  <2> DEFINE y == Len(s) - r + 1 + x - 1
  <2>1. y \in 1..(j - i + 1) /\ i + y - 1 = j - r + 1 + x - 1
    BY <1>1
  <2> HIDE DEF t, u, y
  <2>2. s[y] = d[i + y - 1]
    BY <1>1, <2>1
  <2>3. t[x] = s[y]
    BY <1>2 DEF y
  <2> QED
    BY <1>3, <2>1, <2>2, <2>3
<1> HIDE DEF t, u
<1>5. t = u
  BY <1>2, <1>3, <1>4, SeqEqual
<1> QED
  BY <1>5 DEF t, u

\* Appending to d leaves its slices alone.
LEMMA SliceOfAppend ==
  ASSUME NEW d \in Seq(Byte), NEW e \in Byte, NEW i \in Nat, NEW j \in Nat,
         1 <= i, j <= Len(d)
  PROVE  SubSeq(Append(d, e), i, j) = SubSeq(d, i, j)
<1>1. Append(d, e) \in Seq(Byte) /\ \A x \in 1..Len(d) : Append(d, e)[x] = d[x]
  BY AppendProperties
<1>2. \A x \in i..j : Append(d, e)[x] = d[x] /\ d[x] \in Byte
  BY <1>1
<1> DEFINE a == SubSeq(Append(d, e), i, j)
<1> DEFINE b == SubSeq(d, i, j)
<1>3. /\ a \in Seq(Byte) /\ Len(a) = (IF i <= j THEN j - i + 1 ELSE 0)
      /\ \A x \in 1..(j - i + 1) : a[x] = Append(d, e)[i + x - 1]
  BY <1>2, SubSeqProperties
<1>4. /\ b \in Seq(Byte) /\ Len(b) = (IF i <= j THEN j - i + 1 ELSE 0)
      /\ \A x \in 1..(j - i + 1) : b[x] = d[i + x - 1]
  BY <1>2, SubSeqProperties
<1> HIDE DEF a, b
<1>5. \A x \in 1..Len(a) : a[x] = b[x]
  BY <1>2, <1>3, <1>4
<1>6. a = b
  BY <1>3, <1>4, <1>5, SeqEqual
<1> QED
  BY <1>6 DEF a, b

\* The heart of the matter: when lineBuffer b stands just before offset o in the file d,
\* n more bytes are read and the buffer is flushed, what is left stands just before
\* o + n.
LEMMA FlushKeepsTail ==
  ASSUME NEW d \in Seq(Byte), NEW b \in Seq(Byte), NEW o \in Nat, NEW n \in Nat,
         o + n <= Len(d), Len(b) <= o, Len(b) <= MaxLine, n <= ReadBuf,
         b = SubSeq(d, o - Len(b) + 1, o)
  PROVE  LET rest == Rest(b \o SubSeq(d, o + 1, o + n))
         IN  /\ Len(rest) <= o + n
             /\ rest = SubSeq(d, o + n - Len(rest) + 1, o + n)
<1> DEFINE buf == b \o SubSeq(d, o + 1, o + n)
<1> DEFINE first == o - Len(b) + 1
<1>1. Len(b) \in Nat /\ Len(d) \in Nat /\ ReadBuf \in Nat /\ MaxLine \in Nat
  BY TailerAssumption
<1>2. buf = SubSeq(d, first, o + n)
  <2>1. /\ first \in 1..(Len(d) + 1)
        /\ o \in (first - 1)..Len(d)
        /\ o + n \in o..Len(d)
    BY <1>1
  <2>2. SubSeq(d, first, o) \o SubSeq(d, o + 1, o + n) = SubSeq(d, first, o + n)
    BY <2>1, ConcatAdjacentSubSeq
  <2> QED
    BY <2>2
<1>3. buf \in Seq(Byte) /\ Len(buf) = Len(b) + n
  <2>1. first \in Nat /\ 1 <= first /\ o + n - first + 1 = Len(b) + n
    BY <1>1
  <2>2. \A x \in first..(o + n) : d[x] \in Byte
    BY <1>1, <2>1
  <2> HIDE DEF buf, first
  <2>3. SubSeq(d, first, o + n) \in Seq(Byte)
        /\ Len(SubSeq(d, first, o + n)) = IF first <= o + n THEN o + n - first + 1 ELSE 0
    BY <2>1, <2>2, SubSeqProperties
  <2> QED
    BY <1>1, <1>2, <2>1, <2>3
<1> DEFINE rest == Rest(buf)
<1> HIDE DEF buf
<1>4. /\ rest \in Seq(Byte) /\ Len(rest) <= Len(buf)
      /\ rest = SubSeq(buf, Len(buf) - Len(rest) + 1, Len(buf))
  BY <1>1, <1>3, RestIsSuffix
<1>5. SubSeq(buf, Len(buf) - Len(rest) + 1, Len(buf))
        = SubSeq(d, o + n - Len(rest) + 1, o + n)
  <2>1. Len(rest) \in Nat /\ first \in Nat /\ 1 <= first /\ o + n \in Nat
        /\ Len(rest) <= o + n - first + 1
    BY <1>1, <1>3, <1>4
  <2> DEFINE r == Len(rest)
  <2> DEFINE last == o + n
  <2>2. r \in Nat /\ last \in Nat /\ last <= Len(d) /\ r <= last - first + 1
    BY <2>1
  <2>3. buf = SubSeq(d, first, last)
    BY <1>2
  <2> HIDE DEF r, last, first
  <2>4. SubSeq(buf, Len(buf) - r + 1, Len(buf)) = SubSeq(d, last - r + 1, last)
    BY <2>1, <2>2, <2>3, SuffixOfSlice
  <2> QED
    BY <2>4 DEF r, last
<1>6. Len(rest) <= o + n
  BY <1>1, <1>3, <1>4
<1>7. rest = SubSeq(d, o + n - Len(rest) + 1, o + n)
  BY <1>4, <1>5
<1> QED
  BY <1>6, <1>7 DEF buf, rest

(***************************************************************************)
(* The inductive invariant.                                                *)
(***************************************************************************)
\* No file was modified in the future, so newestMatch has a greatest mtime to find.
ClockOK == \A i \in Inodes : mtime[i] <= now

\* The calls that use f are made with a file open, those that open one without.
FileOpenWhenUsed ==
  /\ pc \in {"check", "check2", "newer", "newer2", "fstat", "read", "publish",
             "publishErr", "restat", "drained"} => fd # NoFile
  /\ pc \in {"find", "open", "open2", "done"} => fd = NoFile

IInv == TypeOK /\ ClockOK /\ FileOpenWhenUsed /\ BufferBounded /\ BufferIsTail

\* Among finitely many matches one is the newest.
LEMMA NewestMatchIsCandidate ==
  ASSUME TypeOK, ClockOK, Candidates # {}
  PROVE  NewestMatch \in Candidates
<1> DEFINE age(p) == mtime[dir[p]] + 1
<1> DEFINE Ages == {t \in 1..(now + 1) : \E p \in Candidates : t = age(p)}
<1>0. \A p \in Candidates : p \in 1..NumPaths /\ dir[p] \in Inodes
  BY DEF Candidates, Matches, Paths, TypeOK, DiskType, FileType, LookType
<1>1. \A p \in Candidates : age(p) \in 1..(now + 1) /\ mtime[dir[p]] \in Nat
  BY <1>0 DEF TypeOK, DiskType, FileType, LookType, EnvType, HistoryType, ClockOK
<1>2. Ages \in SUBSET (1..(now + 1)) /\ Ages # {} /\ now + 1 \in Nat
  <2>1. PICK p \in Candidates : TRUE
    OBVIOUS
  <2>2. age(p) \in Ages
    BY <1>1
  <2> QED
    BY <2>2 DEF TypeOK, DiskType, FileType, LookType, EnvType, HistoryType
<1>3. Max(Ages) \in Ages /\ \A t \in Ages : Max(Ages) >= t
  BY <1>2, MaxOfPositions
<1> DEFINE Newest == {p \in Candidates : age(p) = Max(Ages)}
<1>4. Newest \in SUBSET (1..NumPaths) /\ Newest # {} /\ NumPaths \in Nat
  BY <1>0, <1>3, TailerAssumption
<1>5. Max(Newest) \in Newest /\ \A p \in Newest : Max(Newest) >= p
  BY <1>4, MaxOfPositions
<1> DEFINE w == Max(Newest)
<1>6. ASSUME NEW q \in Candidates \ {w} PROVE NewerThan(w, q)
  <2>1. age(q) \in Ages /\ age(w) = Max(Ages) /\ w \in Candidates
    BY <1>1, <1>5
  <2>2. age(w) >= age(q)
    BY <1>3, <2>1
  <2>3. mtime[dir[w]] \in Nat /\ mtime[dir[q]] \in Nat /\ w \in Nat /\ q \in Nat
    <3> HIDE DEF w
    <3> QED
      BY <1>0, <1>1, <2>1, TailerAssumption
  <2>4. CASE age(w) = age(q)
    <3>1. q \in Newest
      BY <2>1, <2>4
    <3>2. w >= q
      BY <1>5, <3>1
    <3> HIDE DEF w
    <3> QED
      BY <2>3, <2>4, <3>2 DEF NewerThan
  <2>5. CASE age(w) # age(q)
    <3> HIDE DEF w
    <3> QED
      BY <2>2, <2>3, <2>5 DEF NewerThan
  <2> QED
    BY <2>4, <2>5
<1>7. w \in Candidates
  BY <1>5
<1> HIDE DEF w
<1> QED
  BY <1>6, <1>7 DEF NewestMatch

LEMMA InitIInv == Init => IInv
<1> SUFFICES ASSUME Init PROVE IInv
  OBVIOUS
<1>1. <<>> \in Seq(Byte) /\ Len(<<>>) = 0
  OBVIOUS
<1>2. TypeOK
  <2>1. path \in Paths /\ cycle \in 0..(RotationCheckEvery - 1)
    BY TailerAssumption DEF Init, Paths
  <2>2. data \in [Inodes -> Seq(Byte)] /\ mtime \in [Inodes -> Nat]
        /\ lineBuffer \in Seq(Byte)
    BY <1>1 DEF Init
  <2>3. pc \in PCs
    BY DEF Init, PCs
  <2> QED
    BY <2>1, <2>2, <2>3 DEF Init, TypeOK, DiskType, FileType, LookType, EnvType, HistoryType
<1>3. ClockOK
  BY DEF Init, ClockOK
<1>4. FileOpenWhenUsed /\ BufferIsTail
  BY DEF Init, FileOpenWhenUsed, BufferIsTail
<1>5. BufferBounded
  BY <1>1, TailerAssumption DEF Init, BufferBounded
<1> QED
  BY <1>2, <1>3, <1>4, <1>5 DEF IInv


(***************************************************************************)
(* Every step preserves it.                                                *)
(***************************************************************************)
\* A step that leaves the open file, its content and lineBuffer alone.
LEMMA SameFile ==
  ASSUME IInv, UNCHANGED <<data, fd, offset, lineBuffer, truncated>>
  PROVE  BufferBounded' /\ BufferIsTail'
  BY DEF IInv, BufferBounded, BufferIsTail

\* A step that closes the file.
LEMMA FileClosed ==
  ASSUME fd' = NoFile, lineBuffer' = <<>>
  PROVE  BufferBounded' /\ BufferIsTail'
  BY TailerAssumption DEF BufferBounded, BufferIsTail

LEMMA EmptyBuffer == <<>> \in Seq(Byte)
  OBVIOUS

LEMMA CycleInRange ==
  ASSUME TypeOK PROVE (cycle + 1) % RotationCheckEvery \in 0..(RotationCheckEvery - 1)
  BY TailerAssumption DEF TypeOK, DiskType, FileType, LookType, EnvType, HistoryType

LEMMA WriteIInv == IInv /\ Write => IInv'
<1> SUFFICES ASSUME IInv, Write PROVE IInv'
  OBVIOUS
<1> USE DEF IInv
<1>1. PICK i \in Inodes \cap (Linked \cup {fd}), k \in Kinds :
        /\ data' = [data EXCEPT ![i] = Append(@, [id |-> written + 1, k |-> k])]
        /\ Touch(i)
  BY DEF Write
<1>2. UNCHANGED <<dir, moves, tailer, env, session, seen>> /\ written' = written + 1
  BY DEF Write
<1> DEFINE e == [id |-> written + 1, k |-> k]
<1>3. e \in Byte
  BY TailerAssumption DEF Byte, TypeOK, DiskType, FileType, LookType, EnvType, HistoryType
<1>4. Append(data[i], e) \in Seq(Byte) /\ Len(Append(data[i], e)) = Len(data[i]) + 1
  BY <1>3, AppendProperties DEF TypeOK, DiskType, FileType, LookType, EnvType, HistoryType
<1>5. now' \in Nat /\ now' >= now /\ mtime' = [mtime EXCEPT ![i] = now']
  BY <1>1 DEF Touch, TypeOK, DiskType, FileType, LookType, EnvType, HistoryType
<1>6. TypeOK'
  BY <1>1, <1>2, <1>4, <1>5
     DEF TypeOK, DiskType, FileType, LookType, EnvType, HistoryType, tailer, file, look,
         env, session, seen
<1>7. ClockOK'
  BY <1>5 DEF ClockOK, TypeOK, DiskType, FileType, LookType, EnvType, HistoryType
<1>8. FileOpenWhenUsed' /\ BufferBounded'
  BY <1>2 DEF FileOpenWhenUsed, BufferBounded, tailer, file
<1>9. BufferIsTail'
  <2>1. CASE fd = i /\ fd # NoFile /\ ~truncated
    <3>1. /\ Len(lineBuffer) <= offset /\ offset <= Len(data[i])
          /\ lineBuffer = SubSeq(data[i], offset - Len(lineBuffer) + 1, offset)
          /\ Len(lineBuffer) \in Nat /\ offset \in Nat /\ data[i] \in Seq(Byte)
      BY <2>1 DEF BufferIsTail, TypeOK, DiskType, FileType, LookType, EnvType, HistoryType
    <3>2. data'[i] = Append(data[i], e)
      BY <1>1 DEF TypeOK, DiskType, FileType, LookType, EnvType, HistoryType
    <3>3. offset - Len(lineBuffer) + 1 \in Nat /\ 1 <= offset - Len(lineBuffer) + 1
      BY <3>1
    <3>4. SubSeq(Append(data[i], e), offset - Len(lineBuffer) + 1, offset)
            = SubSeq(data[i], offset - Len(lineBuffer) + 1, offset)
      BY <1>3, <3>1, <3>3, SliceOfAppend
    <3> HIDE DEF e
    <3> QED
      BY <1>2, <1>4, <2>1, <3>1, <3>2, <3>4 DEF BufferIsTail, tailer, file, session
  <2>2. CASE fd # i /\ fd # NoFile
    <3>1. data'[fd] = data[fd]
      BY <1>1, <2>2 DEF TypeOK, DiskType, FileType, LookType, EnvType, HistoryType
    <3> QED
      BY <1>2, <2>2, <3>1 DEF BufferIsTail, tailer, file, session
  <2>3. CASE fd = NoFile \/ truncated
    BY <1>2, <2>3 DEF BufferIsTail, tailer, file, session
  <2> QED
    BY <2>1, <2>2, <2>3
<1> QED
  BY <1>6, <1>7, <1>8, <1>9

LEMMA MovesIInv == ASSUME NEW p \in Paths
                   PROVE  IInv /\ (NewFile(p) \/ Remove(p) \/ Truncate(p)) => IInv'
<1> SUFFICES ASSUME IInv, NewFile(p) \/ Remove(p) \/ Truncate(p) PROVE IInv'
  OBVIOUS
<1> USE DEF IInv
<1>0. <<>> \in Seq(Byte)
  OBVIOUS
<1>1. CASE NewFile(p)
  <2>1. PICK i \in Inodes \ (Linked \cup {fd}) :
          /\ dir' = [dir EXCEPT ![p] = i]
          /\ data' = [data EXCEPT ![i] = <<>>]
          /\ Touch(i)
          /\ gone' = gone \ {i}
    BY <1>1 DEF NewFile
  <2>2. /\ UNCHANGED <<written, tailer, env, session, startId, faulted>>
        /\ moves' = moves + 1
    BY <1>1 DEF NewFile, Move
  <2>3. now' \in Nat /\ now' >= now /\ mtime' = [mtime EXCEPT ![i] = now']
    BY <2>1 DEF Touch, TypeOK, DiskType, FileType, LookType, EnvType, HistoryType
  <2>4. TypeOK'
    BY <1>0, <2>1, <2>2, <2>3
       DEF TypeOK, DiskType, FileType, LookType, EnvType, HistoryType, tailer, file, look,
           env, session
  <2>5. ClockOK'
    BY <2>3 DEF ClockOK, TypeOK, DiskType, FileType, LookType, EnvType, HistoryType
  <2>6. FileOpenWhenUsed' /\ BufferBounded'
    BY <2>2 DEF FileOpenWhenUsed, BufferBounded, tailer, file
  <2>7. fd # NoFile => data'[fd] = data[fd]
    BY <2>1 DEF TypeOK, DiskType, FileType, LookType, EnvType, HistoryType
  <2>8. BufferIsTail'
    BY <2>2, <2>7 DEF BufferIsTail, tailer, file, session
  <2> QED
    BY <2>4, <2>5, <2>6, <2>8
<1>2. CASE Remove(p)
  <2>1. TypeOK'
    BY <1>2
       DEF Remove, Move, TypeOK, DiskType, FileType, LookType, EnvType, HistoryType,
           tailer, file, look, env, session, seen
  <2>2. ClockOK' /\ FileOpenWhenUsed'
    BY <1>2 DEF Remove, ClockOK, FileOpenWhenUsed, tailer, file
  <2>3. BufferBounded' /\ BufferIsTail'
    BY <1>2, SameFile DEF Remove, tailer, file, session
  <2> QED
    BY <2>1, <2>2, <2>3
<1>3. CASE Truncate(p)
  <2>1. dir[p] \in Inodes
    BY <1>3 DEF Truncate, TypeOK, DiskType, FileType, LookType, EnvType, HistoryType
  <2>2. now' \in Nat /\ now' >= now /\ mtime' = [mtime EXCEPT ![dir[p]] = now']
    BY <1>3 DEF Truncate, Touch, TypeOK, DiskType, FileType, LookType, EnvType, HistoryType
  <2>3. /\ UNCHANGED <<dir, written, tailer, env, sess, start, due, seen>>
        /\ moves' = moves + 1 /\ truncated' = (truncated \/ dir[p] = fd)
        /\ data' = [data EXCEPT ![dir[p]] = <<>>]
    BY <1>3 DEF Truncate, Move
  <2>4. TypeOK'
    <3>1. truncated' \in BOOLEAN
      BY <2>3
    <3>2. data' \in [Inodes -> Seq(Byte)]
      BY <1>0, <2>1, <2>3 DEF TypeOK, DiskType, FileType, LookType, EnvType, HistoryType
    <3> QED
      BY <2>1, <2>2, <2>3, <3>1, <3>2
         DEF TypeOK, DiskType, FileType, LookType, EnvType, HistoryType, tailer, file,
             look, env, seen
  <2>5. ClockOK'
    BY <2>1, <2>2 DEF ClockOK, TypeOK, DiskType, FileType, LookType, EnvType, HistoryType
  <2>6. FileOpenWhenUsed' /\ BufferBounded'
    BY <2>3 DEF FileOpenWhenUsed, BufferBounded, tailer, file
  <2>7. fd # NoFile /\ ~truncated' => ~truncated /\ data'[fd] = data[fd]
    BY <2>1, <2>3 DEF TypeOK, DiskType, FileType, LookType, EnvType, HistoryType
  <2>8. BufferIsTail'
    BY <2>3, <2>7 DEF BufferIsTail, tailer, file
  <2> QED
    BY <2>4, <2>5, <2>6, <2>8
<1> QED
  BY <1>1, <1>2, <1>3

\* The calls that neither read the file nor open it.
LEMMA PlainStepsIInv ==
  ASSUME IInv,
         \/ CheckPresent \/ CheckReplaced \/ StatFile \/ PublishBatch \/ Restat
         \/ AfterDrain \/ OpenStat \/ StatCurrent \/ FindNewer \/ Wake \/ Cancel
  PROVE  IInv'
<1> USE DEF IInv, TypeOK
<1>1. CASE CheckPresent
  <2>1. pc' \in PCs
    BY <1>1 DEF CheckPresent, Goto, PCs
  <2>2. FileType'
    BY <1>1, EmptyBuffer DEF CheckPresent, CloseFile, FileType, file
  <2>3. DiskType' /\ LookType'
    BY <1>1 DEF CheckPresent, DiskType, disk, LookType, look
  <2>4. EnvType'
    BY <1>1 DEF CheckPresent, EnvType, env
  <2>5. HistoryType'
    BY <1>1 DEF CheckPresent, HistoryType, session, seen
  <2>6. ClockOK' /\ FileOpenWhenUsed'
    BY <1>1 DEF CheckPresent, At, Goto, file, CloseFile, ClockOK, FileOpenWhenUsed,
       disk
  <2>7. BufferBounded' /\ BufferIsTail'
    BY <1>1, SameFile, FileClosed DEF CheckPresent, CloseFile, disk, file, session
  <2> QED
    BY <2>1, <2>2, <2>3, <2>4, <2>5, <2>6, <2>7
<1>2. CASE CheckReplaced
  <2>1. pc' \in PCs
    BY <1>2 DEF CheckReplaced, Goto, PCs
  <2>2. FileType'
    BY <1>2, EmptyBuffer DEF CheckReplaced, CloseFile, FileType, file
  <2>3. DiskType' /\ LookType'
    BY <1>2 DEF CheckReplaced, DiskType, disk, LookType, look
  <2>4. EnvType'
    BY <1>2 DEF CheckReplaced, IOError, EnvType, env
  <2>5. HistoryType'
    BY <1>2 DEF CheckReplaced, HistoryType, session, seen
  <2>6. ClockOK' /\ FileOpenWhenUsed'
    BY <1>2 DEF CheckReplaced, At, Goto, file, CloseFile, ClockOK, FileOpenWhenUsed,
       disk
  <2>7. BufferBounded' /\ BufferIsTail'
    BY <1>2, SameFile, FileClosed DEF CheckReplaced, CloseFile, disk, file, session
  <2> QED
    BY <2>1, <2>2, <2>3, <2>4, <2>5, <2>6, <2>7
<1>3. CASE StatFile
  <2>1. pc' \in PCs
    BY <1>3 DEF StatFile, Goto, PCs, ReadOrDrained
  <2>2. FileType'
    BY <1>3, EmptyBuffer DEF StatFile, CloseFile, FileType, file
  <2>3. DiskType' /\ LookType'
    BY <1>3 DEF StatFile, DiskType, disk, LookType, look
  <2>4. EnvType'
    BY <1>3 DEF StatFile, IOError, EnvType, env
  <2>5. HistoryType'
    BY <1>3 DEF StatFile, HistoryType, session, seen
  <2>6. ClockOK' /\ FileOpenWhenUsed'
    BY <1>3 DEF StatFile, At, Goto, file, CloseFile, ReadOrDrained, ClockOK,
       FileOpenWhenUsed, disk
  <2>7. BufferBounded' /\ BufferIsTail'
    BY <1>3, SameFile, FileClosed DEF StatFile, CloseFile, disk, file, session
  <2> QED
    BY <2>1, <2>2, <2>3, <2>4, <2>5, <2>6, <2>7
<1>4. CASE PublishBatch
  <2>1. pc' \in PCs
    BY <1>4 DEF PublishBatch, Goto, PCs
  <2>2. FileType'
    BY <1>4, EmptyBuffer DEF PublishBatch, CloseFile, FileType, file
  <2>3. DiskType' /\ LookType'
    BY <1>4 DEF PublishBatch, DiskType, disk, LookType, look
  <2>4. EnvType'
    BY <1>4 DEF PublishBatch, EnvType, env
  <2>5. HistoryType'
    BY <1>4 DEF PublishBatch, HistoryType, session, seen
  <2>6. ClockOK' /\ FileOpenWhenUsed'
    BY <1>4 DEF PublishBatch, At, Goto, file, CloseFile, ClockOK, FileOpenWhenUsed,
       disk
  <2>7. BufferBounded' /\ BufferIsTail'
    BY <1>4, SameFile, FileClosed DEF PublishBatch, CloseFile, disk, file, session
  <2> QED
    BY <2>1, <2>2, <2>3, <2>4, <2>5, <2>6, <2>7
<1>5. CASE Restat
  <2>1. pc' \in PCs
    BY <1>5 DEF Restat, Goto, PCs, ReadOrDrained
  <2>2. FileType'
    BY <1>5, EmptyBuffer DEF Restat, CloseFile, FileType, file
  <2>3. DiskType' /\ LookType'
    BY <1>5 DEF Restat, DiskType, disk, LookType, look
  <2>4. EnvType'
    BY <1>5 DEF Restat, IOError, EnvType, env
  <2>5. HistoryType'
    BY <1>5 DEF Restat, HistoryType, session, seen
  <2>6. ClockOK' /\ FileOpenWhenUsed'
    BY <1>5 DEF Restat, At, Goto, file, CloseFile, ReadOrDrained, ClockOK,
       FileOpenWhenUsed, disk
  <2>7. BufferBounded' /\ BufferIsTail'
    BY <1>5, SameFile, FileClosed DEF Restat, CloseFile, disk, file, session
  <2> QED
    BY <2>1, <2>2, <2>3, <2>4, <2>5, <2>6, <2>7
<1>6. CASE AfterDrain
  <2>1. pc' \in PCs
    BY <1>6 DEF AfterDrain, Goto, PCs
  <2>2. FileType'
    BY <1>6, EmptyBuffer DEF AfterDrain, CloseFile, FileType, file
  <2>3. DiskType' /\ LookType'
    BY <1>6 DEF AfterDrain, DiskType, disk, LookType, look, FileType, FileOpenWhenUsed,
       At
  <2>4. EnvType'
    BY <1>6 DEF AfterDrain, EnvType, env
  <2>5. HistoryType'
    BY <1>6 DEF AfterDrain, HistoryType, session, seen, FileType, FileOpenWhenUsed, At
  <2>6. ClockOK' /\ FileOpenWhenUsed'
    BY <1>6 DEF AfterDrain, At, Goto, file, CloseFile, ClockOK, FileOpenWhenUsed, disk
  <2>7. BufferBounded' /\ BufferIsTail'
    BY <1>6, SameFile, FileClosed DEF AfterDrain, CloseFile, disk, file, session
  <2> QED
    BY <2>1, <2>2, <2>3, <2>4, <2>5, <2>6, <2>7
<1>7. CASE OpenStat
  <2>1. pc' \in PCs
    BY <1>7 DEF OpenStat, OpenFails, Goto, PCs
  <2>2. FileType'
    BY <1>7 DEF OpenStat, OpenFails, FileType, file, DiskType
  <2>3. DiskType' /\ LookType'
    BY <1>7 DEF OpenStat, OpenFails, DiskType, disk, LookType, look
  <2>4. EnvType'
    BY <1>7 DEF OpenStat, OpenFails, IOError, EnvType, env
  <2>5. HistoryType'
    BY <1>7 DEF OpenStat, OpenFails, HistoryType, session, seen
  <2>6. ClockOK' /\ FileOpenWhenUsed'
    BY <1>7 DEF OpenStat, OpenFails, At, Goto, file, ClockOK, FileOpenWhenUsed, disk
  <2>7. BufferBounded' /\ BufferIsTail'
    BY <1>7, SameFile DEF OpenStat, OpenFails, disk, file, session
  <2> QED
    BY <2>1, <2>2, <2>3, <2>4, <2>5, <2>6, <2>7
<1>8. CASE StatCurrent
  <2>1. pc' \in PCs
    BY <1>8 DEF StatCurrent, Goto, PCs
  <2>2. FileType'
    BY <1>8 DEF StatCurrent, FileType, file
  <2>3. DiskType' /\ LookType'
    BY <1>8 DEF StatCurrent, DiskType, disk, LookType, look, FileType,
       FileOpenWhenUsed, At
  <2>4. EnvType'
    BY <1>8 DEF StatCurrent, IOError, EnvType, env
  <2>5. HistoryType'
    BY <1>8 DEF StatCurrent, HistoryType, session, seen
  <2>6. ClockOK' /\ FileOpenWhenUsed'
    BY <1>8 DEF StatCurrent, At, Goto, file, ClockOK, FileOpenWhenUsed, disk
  <2>7. BufferBounded' /\ BufferIsTail'
    BY <1>8, SameFile DEF StatCurrent, disk, file, session
  <2> QED
    BY <2>1, <2>2, <2>3, <2>4, <2>5, <2>6, <2>7
<1>9. CASE FindNewer
  <2>1. pc' \in PCs
    BY <1>9 DEF FindNewer, Goto, PCs
  <2>2. FileType'
    BY <1>9 DEF FindNewer, FileType, file
  <2>3. DiskType' /\ LookType'
    BY <1>9 DEF FindNewer, PrunedLeft, HasNewerMatch, DiskType, disk, LookType, look
  <2>4. EnvType'
    BY <1>9 DEF FindNewer, EnvType, env
  <2>5. HistoryType'
    BY <1>9 DEF FindNewer, HistoryType, session, seen, DiskType, FileType,
       FileOpenWhenUsed, At, HasNewerMatch
  <2>6. ClockOK' /\ FileOpenWhenUsed'
    BY <1>9 DEF FindNewer, At, Goto, file, ClockOK, FileOpenWhenUsed, disk
  <2>7. BufferBounded' /\ BufferIsTail'
    BY <1>9, SameFile DEF FindNewer, disk, file, session
  <2> QED
    BY <2>1, <2>2, <2>3, <2>4, <2>5, <2>6, <2>7
<1>10. CASE Wake
  <2>1. pc' \in PCs
    BY <1>10 DEF Wake, Goto, PCs
  <2>2. FileType'
    BY <1>10 DEF Wake, FileType, file
  <2>3. DiskType' /\ LookType'
    BY <1>10 DEF Wake, DiskType, disk, LookType, look
  <2>4. EnvType'
    BY <1>10 DEF Wake, EnvType, env
  <2>5. HistoryType'
    BY <1>10 DEF Wake, HistoryType, session, seen
  <2>6. ClockOK' /\ FileOpenWhenUsed'
    BY <1>10 DEF Wake, At, Goto, file, ClockOK, FileOpenWhenUsed, disk
  <2>7. BufferBounded' /\ BufferIsTail'
    BY <1>10, SameFile DEF Wake, disk, file, session
  <2> QED
    BY <2>1, <2>2, <2>3, <2>4, <2>5, <2>6, <2>7
<1>11. CASE Cancel
  <2>1. pc' \in PCs
    BY <1>11 DEF Cancel, tailer
  <2>2. FileType'
    BY <1>11 DEF Cancel, FileType, file, tailer
  <2>3. DiskType' /\ LookType'
    BY <1>11 DEF Cancel, DiskType, disk, LookType, look, tailer
  <2>4. EnvType'
    BY <1>11 DEF Cancel, EnvType, env
  <2>5. HistoryType'
    BY <1>11 DEF Cancel, HistoryType, session, seen
  <2>6. ClockOK' /\ FileOpenWhenUsed'
    BY <1>11 DEF Cancel, tailer, file, ClockOK, FileOpenWhenUsed, disk
  <2>7. BufferBounded' /\ BufferIsTail'
    BY <1>11, SameFile DEF Cancel, disk, file, session, tailer
  <2> QED
    BY <2>1, <2>2, <2>3, <2>4, <2>5, <2>6, <2>7
<1> QED
  BY <1>1, <1>2, <1>3, <1>4, <1>5, <1>6, <1>7, <1>8, <1>9, <1>10, <1>11

\* Nothing lies between an offset and itself.
LEMMA EmptySlice == ASSUME NEW s, NEW o \in Nat PROVE SubSeq(s, o + 1, o) = <<>>
<1>1. o \in Int /\ o + 1 \in Int /\ o < o + 1
  OBVIOUS
<1> QED
  BY <1>1, SubSeqEmpty

\* The top of the loop, finding a file and opening it.
LEMMA OpenStepsIInv ==
  ASSUME IInv, LoopTop \/ FindFile \/ OpenFile
  PROVE  IInv'
<1> USE DEF IInv, TypeOK
<1>1. CASE LoopTop
  <2>1. pc' \in PCs
    BY <1>1 DEF LoopTop, BeginCycle, Goto, PCs
  <2>2. FileType'
    BY <1>1, EmptyBuffer DEF LoopTop, CloseFile, FileType, file
  <2>3. DiskType' /\ EnvType' /\ HistoryType'
    BY <1>1 DEF LoopTop, DiskType, disk, EnvType, env, HistoryType, session, seen
  <2>4. LookType'
    BY <1>1, CycleInRange DEF LoopTop, BeginCycle, LookType, look
  <2>5. ClockOK' /\ FileOpenWhenUsed'
    BY <1>1 DEF LoopTop, BeginCycle, CloseFile, Goto, ClockOK, FileOpenWhenUsed, disk, file
  <2>6. BufferBounded' /\ BufferIsTail'
    BY <1>1, SameFile, FileClosed DEF LoopTop, CloseFile, disk, file, session
  <2> QED
    BY <2>1, <2>2, <2>3, <2>4, <2>5, <2>6
<1>2. CASE FindFile
  <2>1. pc' \in PCs
    BY <1>2 DEF FindFile, Goto, PCs
  <2>2. path' \in Paths
    <3>1. Candidates # {} => NewestMatch \in Paths
      BY NewestMatchIsCandidate DEF Candidates, Matches
    <3> QED
      BY <1>2, <3>1 DEF FindFile, FileType
  <2>3. FileType'
    BY <1>2, <2>2 DEF FindFile, FileType
  <2>4. DiskType' /\ EnvType' /\ HistoryType'
    BY <1>2 DEF FindFile, DiskType, disk, EnvType, env, HistoryType, session, seen
  <2>5. LookType'
    BY <1>2 DEF FindFile, PrunedLeft, LookType
  <2>6. ClockOK' /\ FileOpenWhenUsed'
    BY <1>2 DEF FindFile, At, Goto, ClockOK, FileOpenWhenUsed, disk
  <2>7. BufferBounded' /\ BufferIsTail'
    BY <1>2, SameFile DEF FindFile, disk, session
  <2> QED
    BY <2>1, <2>3, <2>4, <2>5, <2>6, <2>7
<1>3. CASE OpenFile /\ OpenFails
  <2>1. DiskType' /\ FileType' /\ LookType' /\ HistoryType'
    BY <1>3 DEF OpenFails, DiskType, disk, FileType, file, LookType, look, HistoryType,
       session, seen
  <2>2. EnvType' /\ pc' \in PCs
    BY <1>3 DEF OpenFails, IOError, Goto, PCs, EnvType, env
  <2>3. ClockOK' /\ FileOpenWhenUsed'
    BY <1>3 DEF OpenFails, Goto, ClockOK, FileOpenWhenUsed, disk
  <2>4. BufferBounded' /\ BufferIsTail'
    BY <1>3, SameFile DEF OpenFails, disk, file, session
  <2> QED
    BY <2>1, <2>2, <2>3, <2>4
<1>4. CASE OpenFile /\ ~OpenFails
  <2>1. /\ dir[path] # NoFile /\ fd' = dir[path] /\ offset' = OpenOffset(dir[path])
        /\ startAtEnd' = FALSE /\ BeginCycle
        /\ sess' = sess + 1 /\ start' = offset' /\ truncated' = FALSE /\ due' = 0
        /\ startId' = (IF startAtEnd /\ restarts = 0 THEN written ELSE startId)
        /\ faulted' = (faulted \/ dir[path] # fileIno)
        /\ UNCHANGED <<disk, path, fileIno, lineBuffer, switchPending, left, curM, out, env,
                       gone>>
    BY <1>4 DEF OpenFile
  <2>2. dir[path] \in Inodes
    BY <2>1 DEF DiskType, FileType
  <2>3. offset' \in Nat /\ offset' <= Len(data[dir[path]])
    BY <2>1, <2>2 DEF OpenOffset, DiskType
  <2>4. pc' \in PCs
    BY <2>1 DEF BeginCycle, Goto, PCs
  <2>5. FileType' /\ LookType'
    <3>1. offset' \in Nat /\ startAtEnd' \in BOOLEAN /\ fd' \in Inodes
      BY <2>1, <2>2, <2>3
    <3>2. FileType'
      BY <2>1, <3>1 DEF FileType
    <3>3. cycle' \in 0..(RotationCheckEvery - 1)
      BY <2>1, CycleInRange DEF BeginCycle
    <3>4. LookType'
      BY <2>1, <3>3 DEF LookType
    <3> QED
      BY <3>2, <3>4
  <2>6. DiskType' /\ EnvType'
    BY <2>1 DEF DiskType, disk, EnvType, env
  <2>7. HistoryType'
    <3>1. faulted' \in BOOLEAN
      BY <2>1
    <3>2. startId' \in Nat
      BY <2>1 DEF HistoryType, DiskType
    <3> QED
      <4>1. sess' \in Nat
        BY <2>1 DEF HistoryType
      <4>2. start' \in Nat
        BY <2>1, <2>3
      <4>3. due' \in Nat /\ truncated' \in BOOLEAN
        BY <2>1
      <4> QED
        BY <2>1, <3>1, <3>2, <4>1, <4>2, <4>3 DEF HistoryType
  <2>8. ClockOK' /\ FileOpenWhenUsed'
    BY <2>1, <2>2, TailerAssumption DEF BeginCycle, Goto, ClockOK, FileOpenWhenUsed, disk
  <2>9. lineBuffer' = <<>> /\ Len(lineBuffer') = 0
    BY <1>4, <2>1 DEF OpenFile, At, FileOpenWhenUsed, BufferIsTail
  <2>10. SubSeq(data[dir[path]], offset' - Len(lineBuffer') + 1, offset') = <<>>
    <3>1. offset' \in Nat
      BY <2>3
    <3>2. offset' - Len(lineBuffer') + 1 = offset' + 1
      BY <2>9, <3>1
    <3> QED
      BY <3>1, <3>2, EmptySlice
  <2>11. BufferBounded' /\ BufferIsTail'
    BY <2>1, <2>3, <2>9, <2>10, TailerAssumption DEF BufferBounded, BufferIsTail, disk
  <2> QED
    BY <2>4, <2>5, <2>6, <2>7, <2>8, <2>11
<1> QED
  BY <1>1, <1>2, <1>3, <1>4

\* ReadAt followed by flushCompleteLines: n bytes are read, at most what is there and at
\* most the size of the read buffer.
LEMMA ReadIInv == ASSUME IInv, Read PROVE IInv'
<1> USE DEF IInv, TypeOK
<1>1. fd \in Inodes /\ fd # NoFile /\ data[fd] \in Seq(Byte) /\ Len(data[fd]) \in Nat
  BY TailerAssumption DEF Read, At, FileOpenWhenUsed, FileType, DiskType
<1>2. Available \in Nat /\ Available <= ReadBuf
      /\ (Available > 0 => offset + Available <= Len(data[fd]))
  BY <1>1, TailerAssumption DEF Available, Size, FileType
<1>3. PICK n \in 0..Available : ReadAndFlush(n)
  BY <1>2 DEF Read
<1> DEFINE chunk == SubSeq(data[fd], offset + 1, offset + n)
<1> DEFINE buf == lineBuffer \o chunk
<1>4. /\ offset' = offset + n
      /\ lineBuffer' = IF n = 0 THEN lineBuffer ELSE Rest(buf)
      /\ n \in Nat /\ n <= ReadBuf /\ (n > 0 => offset + n <= Len(data[fd]))
  <2>1. n \in Nat /\ n <= Available /\ offset \in Nat
    BY <1>2 DEF FileType
  <2>2. n <= ReadBuf /\ (n > 0 => offset + n <= Len(data[fd]))
    BY <1>1, <1>2, <2>1, TailerAssumption
  <2> QED
    BY <1>3, <2>1, <2>2 DEF ReadAndFlush
<1>5. /\ UNCHANGED <<disk, path, fd, fileIno, startAtEnd, look, sent, session, startId,
                     gone, faulted>>
      /\ pc' \in {"publish", "publishErr"}
  BY DEF Read, Goto, seen
<1>6. ASSUME n > 0
      PROVE  buf \in Seq(Byte) /\ Len(buf) <= MaxLine + ReadBuf
  <2>1. \A x \in (offset + 1)..(offset + n) : data[fd][x] \in Byte
    BY <1>1, <1>4, <1>6 DEF FileType
  <2>2. chunk \in Seq(Byte) /\ Len(chunk) = n
    <3>1. /\ offset \in Nat /\ n \in Nat /\ offset + 1 \in Int /\ offset + n \in Int
          /\ offset + 1 <= offset + n /\ (offset + n) - (offset + 1) + 1 = n
      BY <1>4, <1>6 DEF FileType
    <3>2. /\ chunk \in Seq(Byte)
          /\ Len(chunk) = IF offset + 1 <= offset + n
                          THEN (offset + n) - (offset + 1) + 1 ELSE 0
      BY ONLY <2>1, <3>1, SubSeqProperties
    <3> QED
      BY ONLY <3>1, <3>2
  <2> HIDE DEF chunk
  <2> QED
    BY <1>4, <2>2, ConcatProperties, TailerAssumption DEF FileType, BufferBounded
<1>7. lineBuffer' \in Seq(Byte) /\ Len(lineBuffer') <= MaxLine
  <2>1. CASE n = 0
    BY <1>4, <2>1 DEF FileType, BufferBounded
  <2>2. CASE n # 0
    <3>1. buf \in Seq(Byte) /\ Len(buf) <= MaxLine + ReadBuf
      BY <1>4, <1>6, <2>2
    <3> HIDE DEF buf
    <3> QED
      BY <1>4, <2>2, <3>1, RestIsSuffix
  <2> QED
    BY <2>1, <2>2
<1>8. EnvType'
  BY DEF Read, IOError, EnvType, env
<1>9. DiskType' /\ LookType' /\ HistoryType' /\ pc' \in PCs
  BY <1>5 DEF DiskType, disk, LookType, look, HistoryType, session, PCs, EnvType
<1>10. FileType'
  BY <1>4, <1>5, <1>7 DEF FileType
<1>11. ClockOK' /\ FileOpenWhenUsed' /\ BufferBounded'
  BY <1>1, <1>5, <1>7 DEF ClockOK, FileOpenWhenUsed, BufferBounded, disk
<1>12. BufferIsTail'
  <2>1. CASE truncated \/ n = 0
    <3>1. /\ fd' = fd /\ fd # NoFile /\ data' = data /\ truncated' = truncated
          /\ (n = 0 => offset' = offset /\ lineBuffer' = lineBuffer)
      BY <1>1, <1>4, <1>5 DEF FileType, disk, session
    <3> QED
      BY <2>1, <3>1 DEF BufferIsTail
  <2>2. CASE ~truncated /\ n # 0
    <3>1. /\ Len(lineBuffer) <= offset /\ Len(lineBuffer) <= MaxLine
          /\ lineBuffer = SubSeq(data[fd], offset - Len(lineBuffer) + 1, offset)
          /\ lineBuffer \in Seq(Byte) /\ offset \in Nat
      BY <1>1, <2>2 DEF BufferIsTail, BufferBounded, FileType
    <3>2. /\ Len(Rest(buf)) <= offset + n
          /\ Rest(buf) = SubSeq(data[fd], offset + n - Len(Rest(buf)) + 1, offset + n)
      <4>1. offset + n <= Len(data[fd]) /\ n \in Nat /\ n <= ReadBuf
        BY <1>4, <2>2
      <4> QED
        BY <1>1, <3>1, <4>1, FlushKeepsTail
    <3> HIDE DEF buf
    <3> QED
      <4>1. /\ fd' = fd /\ fd # NoFile /\ data' = data /\ offset' = offset + n
            /\ lineBuffer' = Rest(buf) /\ offset' <= Len(data[fd])
        BY <1>1, <1>4, <1>5, <2>2 DEF disk
      <4> QED
        BY <3>2, <4>1 DEF BufferIsTail, FileType
  <2> QED
    BY <2>1, <2>2
<1> QED
  BY <1>8, <1>9, <1>10, <1>11, <1>12

LEMMA PanicIInv == ASSUME IInv, Panic PROVE IInv'
<1> USE DEF IInv, TypeOK
<1>1. FileType'
  BY EmptyBuffer, TailerAssumption DEF Panic, FileType, Paths
<1>2. LookType'
  <2>1. cycle' \in 0..(RotationCheckEvery - 1)
    BY TailerAssumption DEF Panic
  <2>2. switchPending' = FALSE /\ left' = {} /\ curM' = curM
    BY DEF Panic
  <2> QED
    BY <2>1, <2>2 DEF LookType
<1>3. DiskType' /\ EnvType' /\ HistoryType' /\ pc' \in PCs
  BY DEF Panic, Goto, PCs, DiskType, disk, EnvType, HistoryType, session, seen
<1>4. ClockOK' /\ FileOpenWhenUsed'
  BY DEF Panic, Goto, ClockOK, FileOpenWhenUsed, disk
<1>5. BufferBounded' /\ BufferIsTail'
  BY FileClosed DEF Panic
<1> QED
  BY <1>1, <1>2, <1>3, <1>4, <1>5

LEMMA NoStepIInv == ASSUME IInv, UNCHANGED vars PROVE IInv'
<1> USE DEF IInv, TypeOK
<1>1. UNCHANGED <<disk, pc, file, look, out, env, session, seen>>
  BY DEF vars, tailer
<1>2. DiskType' /\ FileType' /\ LookType' /\ EnvType' /\ HistoryType' /\ pc' \in PCs
  BY <1>1 DEF DiskType, disk, FileType, file, LookType, look, EnvType, env, HistoryType,
     session, seen
<1>3. ClockOK' /\ FileOpenWhenUsed'
  BY <1>1 DEF ClockOK, FileOpenWhenUsed, disk, file
<1>4. BufferBounded' /\ BufferIsTail'
  BY <1>1, SameFile DEF disk, file, session
<1> QED
  BY <1>2, <1>3, <1>4

LEMMA NextIInv == IInv /\ [Next]_vars => IInv'
<1> SUFFICES ASSUME IInv, [Next]_vars PROVE IInv'
  OBVIOUS
<1>1. CASE Next
  BY <1>1, WriteIInv, MovesIInv, PlainStepsIInv, OpenStepsIInv, ReadIInv, PanicIInv,
     NoStepIInv DEF Next, FileSystem, Run, Returned
<1>2. CASE UNCHANGED vars
  BY <1>2, NoStepIInv
<1> QED
  BY <1>1, <1>2

LEMMA SpecIInv == Spec => []IInv
  BY InitIInv, NextIInv, PTL DEF Spec

\* Type correctness of the tailer and of the files, for all values of the constants.
THEOREM TypeCorrect == Spec => []TypeOK
<1>1. IInv => TypeOK
  BY DEF IInv
<1> QED
  BY <1>1, SpecIInv, PTL

\* The guard of flushCompleteLines bounds the memory a tailer keeps: however long the
\* lines, however they are cut into reads, lineBuffer holds at most maxLineBytes.
THEOREM BufferStaysBounded == Spec => []BufferBounded
<1>1. IInv => BufferBounded
  BY DEF IInv
<1> QED
  BY <1>1, SpecIInv, PTL

\* lineBuffer always is the stretch of the open file that ends at offset: through
\* rotation, disappearance, switches, errors and restarts, no partial line of one file
\* is ever completed with bytes of another.
THEOREM BufferAlwaysTail == Spec => []BufferIsTail
<1>1. IInv => BufferIsTail
  BY DEF IInv
<1> QED
  BY <1>1, SpecIInv, PTL

(***************************************************************************)
(* Switching to a newer match.                                             *)
(***************************************************************************)
\* The open file still holds what it held when the newer match was seen, and has been
\* read to there when the drain loop ends.
DrainOK ==
  /\ fd # NoFile /\ ~truncated => due <= Len(data[fd])
  /\ pc = "drained" /\ ~truncated /\ errors = 0 => offset >= due

\* A name of a file that was left is known as such, and is not the one to open.
LeftOK ==
  /\ fd \notin gone /\ (fd # NoFile => fd = fileIno)
  /\ \A p \in Paths : dir[p] \in gone => dir[p] \in left
  /\ pc \in {"open", "open2"} => dir[path] \notin gone
  /\ ~Glob => gone = {} /\ ~switchPending /\ pc \notin {"newer", "newer2"}

GoneOK == faulted \/ restarts > 0 \/ LeftOK

LEMMA DrainSame ==
  ASSUME DrainOK, UNCHANGED <<data, fd, truncated, due>>, errors' = 0 => errors = 0,
         pc' = "drained" => pc = "drained" /\ offset' = offset
  PROVE  DrainOK'
  BY DEF DrainOK

LEMMA DrainClosed == ASSUME fd' = NoFile, pc' # "drained" PROVE DrainOK'
  BY DEF DrainOK

LEMMA WrittenByte ==
  ASSUME TypeOK, NEW k \in Kinds PROVE [id |-> written + 1, k |-> k] \in Byte
  BY TailerAssumption DEF Byte, TypeOK, DiskType

LEMMA DiskDrain == ASSUME IInv, DrainOK, FileSystem PROVE DrainOK'
<1>0. \A k \in Kinds : [id |-> written + 1, k |-> k] \in Byte
  BY WrittenByte DEF IInv
<1> USE DEF IInv, TypeOK, FileType, DiskType, HistoryType
<1>1. CASE Write
  <2>1. UNCHANGED <<fd, truncated, due, pc, offset, errors>>
    BY <1>1 DEF Write, tailer, file, session, env
  <2>2. PICK i \in Inodes, k \in Kinds :
          data' = [data EXCEPT ![i] = Append(@, [id |-> written + 1, k |-> k])]
    BY <1>1 DEF Write
  <2>3. fd # NoFile => Len(data[fd]) \in Nat /\ Len(data'[fd]) \in Nat
                       /\ Len(data[fd]) <= Len(data'[fd])
    <3> SUFFICES ASSUME fd \in Inodes
                 PROVE  Len(data[fd]) \in Nat /\ Len(data'[fd]) \in Nat
                        /\ Len(data[fd]) <= Len(data'[fd])
      OBVIOUS
    <3> DEFINE b == [id |-> written + 1, k |-> k]
    <3>1. data[fd] \in Seq(Byte) /\ b \in Byte
      BY <1>0
    <3>2. data'[fd] = IF fd = i THEN Append(data[fd], b) ELSE data[fd]
      BY <2>2
    <3> HIDE DEF b
    <3>3. Len(data[fd]) \in Nat /\ Len(Append(data[fd], b)) = Len(data[fd]) + 1
      BY <3>1, AppendProperties
    <3> QED
      BY <3>2, <3>3
  <2> QED
    BY <2>1, <2>3 DEF DrainOK
<1>2. ASSUME NEW p \in Paths, NewFile(p) PROVE DrainOK'
  <2>1. UNCHANGED <<fd, truncated, due, pc, offset, errors>>
    BY <1>2 DEF NewFile, tailer, file, session, env
  <2>2. PICK i \in Inodes \ (Linked \cup {fd}) : data' = [data EXCEPT ![i] = <<>>]
    BY <1>2 DEF NewFile
  <2>3. fd # NoFile => data'[fd] = data[fd]
    BY <2>2
  <2> QED
    BY <2>1, <2>3 DEF DrainOK
<1>3. ASSUME NEW p \in Paths, Remove(p) PROVE DrainOK'
  BY <1>3, DrainSame DEF Remove, tailer, file, session, env
<1>4. ASSUME NEW p \in Paths, Truncate(p) PROVE DrainOK'
  <2>1. UNCHANGED <<fd, due, pc, offset, errors>> /\ truncated' = (truncated \/ dir[p] = fd)
    BY <1>4 DEF Truncate, tailer, file, env
  <2>2. data' = [data EXCEPT ![dir[p]] = <<>>]
    BY <1>4 DEF Truncate
  <2>3. fd # NoFile /\ ~truncated' => ~truncated /\ data'[fd] = data[fd]
    BY <2>1, <2>2
  <2>4. ~truncated' => ~truncated
    BY <2>1
  <2> QED
    BY <2>1, <2>3, <2>4 DEF DrainOK
<1> QED
  BY <1>1, <1>2, <1>3, <1>4 DEF FileSystem

LEMMA RunDrain == ASSUME IInv, DrainOK, Run PROVE DrainOK'
<1> USE DEF IInv, TypeOK, FileType, DiskType, HistoryType, EnvType
<1>1. CASE LoopTop
  BY <1>1, DrainSame, DrainClosed DEF LoopTop, BeginCycle, CloseFile, Goto, disk, file, env, session
<1>2. CASE FindFile
  BY <1>2, DrainSame DEF FindFile, Goto, disk, env, session
<1>3. CASE OpenFails \/ OpenStat
  BY <1>3, DrainSame DEF OpenStat, OpenFails, IOError, Goto, disk, file, env, session
<1>4. CASE OpenFile
  <2>1. CASE OpenFails
    BY <1>3, <2>1
  <2>2. CASE ~OpenFails
    <3>1. /\ dir[path] # NoFile /\ fd' = dir[path] /\ due' = 0 /\ data' = data
          /\ pc' \in {"check", "fstat"}
      BY <1>4, <2>2 DEF OpenFile, BeginCycle, Goto, disk
    <3>2. data'[fd'] \in Seq(Byte)
      BY <3>1
    <3>3. due' <= Len(data'[fd'])
      BY <3>1, <3>2
    <3> QED
      BY <3>1, <3>3 DEF DrainOK
  <2> QED
    BY <2>1, <2>2
<1>5. CASE CheckPresent \/ CheckReplaced
  BY <1>5, DrainSame, DrainClosed
  DEF CheckPresent, CheckReplaced, CloseFile, IOError, Goto, disk, file, env, session
<1>6. CASE StatCurrent
  BY <1>6, DrainSame DEF StatCurrent, IOError, Goto, disk, file, env, session
<1>7. CASE FindNewer
  <2>1. /\ UNCHANGED <<data, fd, truncated>> /\ pc' = "fstat"
        /\ due' = (IF HasNewerMatch THEN Len(data[fd]) ELSE due)
    BY <1>7 DEF FindNewer, Goto, disk, file
  <2>2. fd # NoFile => data[fd] \in Seq(Byte)
    OBVIOUS
  <2>3. fd # NoFile => Len(data[fd]) <= Len(data[fd])
    BY <2>2
  <2> QED
    BY <2>1, <2>3 DEF DrainOK
<1>8. CASE StatFile
  <2>0. fd \in Inodes /\ Len(data[fd]) \in Nat
    BY <1>8, TailerAssumption DEF StatFile, At, FileOpenWhenUsed
  <2>1. CASE fd' = NoFile /\ pc' # "drained"
    BY <2>1, DrainClosed
  <2>2. CASE /\ Size >= offset /\ pc' = ReadOrDrained
             /\ UNCHANGED <<fd, offset, data, truncated, due, errors>>
    <3>1. pc' = "drained" => offset >= Len(data[fd])
      BY <2>0, <2>2 DEF ReadOrDrained, Size
    <3>2. fd # NoFile
      BY <2>0, TailerAssumption
    <3> QED
      BY <2>0, <2>2, <3>1, <3>2 DEF DrainOK
  <2> QED
    BY <1>8, <2>1, <2>2 DEF StatFile, CloseFile, Goto, disk, file, env, session
<1>9. CASE Read
  BY <1>9, DrainSame DEF Read, IOError, Goto, disk, env, session
<1>10. CASE PublishBatch
  BY <1>10, DrainSame, DrainClosed DEF PublishBatch, CloseFile, Goto, disk, file, env, session
<1>11. CASE Restat
  <2>0. fd \in Inodes /\ Len(data[fd]) \in Nat
    BY <1>11, TailerAssumption DEF Restat, At, FileOpenWhenUsed
  <2>1. CASE fd' = NoFile /\ pc' # "drained"
    BY <2>1, DrainClosed
  <2>2. CASE pc' = ReadOrDrained /\ UNCHANGED <<fd, offset, data, truncated, due, errors>>
    <3>1. pc' = "drained" => offset >= Len(data[fd])
      BY <2>0, <2>2 DEF ReadOrDrained, Size
    <3>2. fd # NoFile
      BY <2>0, TailerAssumption
    <3> QED
      BY <2>0, <2>2, <3>1, <3>2 DEF DrainOK
  <2>3. CASE IOError /\ UNCHANGED <<fd, data, truncated, due>>
    <3>1. errors' # 0
      BY <2>3 DEF IOError
    <3> QED
      BY <2>3, <3>1 DEF DrainOK
  <2> QED
    BY <1>11, <2>1, <2>2, <2>3 DEF Restat, CloseFile, Goto, disk, file, env, session
<1>12. CASE AfterDrain
  BY <1>12, DrainSame, DrainClosed DEF AfterDrain, CloseFile, Goto, disk, file, env, session
<1>13. CASE Wake
  BY <1>13, DrainSame DEF Wake, Goto, disk, file, env, session
<1> QED
  BY <1>1, <1>2, <1>3, <1>4, <1>5, <1>6, <1>7, <1>8, <1>9, <1>10, <1>11, <1>12, <1>13 DEF Run

LEMMA NextDrain == IInv /\ DrainOK /\ [Next]_vars => DrainOK'
<1> SUFFICES ASSUME IInv, DrainOK, [Next]_vars PROVE DrainOK'
  OBVIOUS
<1>1. CASE Panic
  BY <1>1, DrainClosed DEF Panic, Goto
<1>2. CASE Cancel \/ UNCHANGED vars
  BY <1>2, DrainSame DEF Cancel, vars, disk, tailer, file, env, session
<1> QED
  BY <1>1, <1>2, DiskDrain, RunDrain DEF Next, Returned

LEMMA SpecDrain == Spec => [](IInv /\ DrainOK)
<1>1. Init => DrainOK
  BY DEF Init, DrainOK
<1> QED
  BY <1>1, InitIInv, NextIInv, NextDrain, PTL DEF Spec

\* Whatever was in the open file when a newer match was seen has been read before the
\* tailer leaves it for that match (DrainsBeforeSwitch), as long as every call succeeds.
THEOREM AlwaysDrainsBeforeSwitch == Spec => DrainsBeforeSwitch
<1>1. IInv /\ DrainOK /\ [Next]_vars =>
        [gone' # gone /\ fd' # fd /\ ~truncated /\ errors = 0 => offset >= due]_vars
  <2> SUFFICES ASSUME IInv, DrainOK, Next, gone' # gone, fd' # fd, ~truncated, errors = 0
               PROVE  offset >= due
    OBVIOUS
  <2>1. pc = "drained"
    <3>1. CASE FileSystem
      BY <3>1 DEF FileSystem, Write, NewFile, Remove, Truncate, tailer, file
    <3>2. CASE Run
      BY <3>2 DEF Run, LoopTop, FindFile, OpenStat, OpenFails, OpenFile, CheckPresent,
        CheckReplaced, StatCurrent, FindNewer, StatFile, Read, PublishBatch, Restat,
        AfterDrain, Wake, At, seen
    <3>3. CASE Cancel \/ Panic \/ Returned
      BY <3>3 DEF Cancel, Panic, Returned, seen, vars
    <3> QED
      BY <3>1, <3>2, <3>3 DEF Next
  <2> QED
    BY <2>1 DEF DrainOK
<1> QED
  BY <1>1, SpecDrain, PTL DEF Spec, DrainsBeforeSwitch

LEMMA GoneSame ==
  ASSUME GoneOK, UNCHANGED <<gone, left, fd, fileIno, dir>>,
         faulted => faulted', restarts > 0 => restarts' > 0,
         pc' \in {"open", "open2"} => path' = path /\ pc \in {"open", "open2"},
         ~Glob => switchPending' = switchPending \/ ~switchPending',
         pc' \in {"newer", "newer2"} => Glob
  PROVE  GoneOK'
  BY DEF GoneOK, LeftOK

\* A step that closes the file and remembers no more of it.
LEMMA GoneClosed ==
  ASSUME IInv, GoneOK, UNCHANGED <<gone, left, dir>>, fd' = NoFile,
         faulted => faulted', restarts > 0 => restarts' > 0,
         pc' \notin {"open", "open2", "newer", "newer2"},
         ~Glob => switchPending' = switchPending
  PROVE  GoneOK'
<1>1. NoFile \notin gone
  BY TailerAssumption DEF IInv, TypeOK, HistoryType
<1> QED
  BY <1>1 DEF GoneOK, LeftOK

LEMMA DiskGone == ASSUME IInv, GoneOK, FileSystem PROVE GoneOK'
<1> USE DEF IInv, TypeOK, FileType, DiskType, HistoryType, EnvType
<1>1. CASE Write
  <2>1. UNCHANGED <<gone, left, fd, fileIno, dir, path, pc, switchPending, faulted, restarts>>
    BY <1>1 DEF Write, tailer, file, look, seen, env
  <2> QED
    BY <2>1 DEF GoneOK, LeftOK
<1>2. ASSUME NEW p \in Paths, Truncate(p) PROVE GoneOK'
  <2>1. UNCHANGED <<gone, left, fd, fileIno, dir, path, pc, switchPending, faulted, restarts>>
    BY <1>2 DEF Truncate, tailer, file, look, seen, env
  <2> QED
    BY <2>1 DEF GoneOK, LeftOK
<1>3. ASSUME NEW p \in Paths, Remove(p) PROVE GoneOK'
  <2>1. UNCHANGED <<gone, left, fd, fileIno, path, pc, switchPending, faulted, restarts>>
    BY <1>3 DEF Remove, tailer, file, look, seen, env
  <2>2. \A q \in Paths : dir'[q] = dir[q] \/ dir'[q] = NoFile
    BY <1>3 DEF Remove
  <2>3. NoFile \notin gone
    BY TailerAssumption
  <2> QED
    BY <2>1, <2>2, <2>3 DEF GoneOK, LeftOK
<1>4. ASSUME NEW p \in Paths, NewFile(p) PROVE GoneOK'
  <2>1. UNCHANGED <<left, fd, fileIno, path, pc, switchPending, faulted, restarts>>
    BY <1>4 DEF NewFile, tailer, file, look, env
  <2>2. PICK i \in Inodes : dir' = [dir EXCEPT ![p] = i] /\ gone' = gone \ {i}
    BY <1>4 DEF NewFile
  <2>3. \A q \in Paths : dir'[q] = dir[q] \/ dir'[q] = i
    BY <2>2
  <2> QED
    BY <2>1, <2>2, <2>3 DEF GoneOK, LeftOK
<1> QED
  BY <1>1, <1>2, <1>3, <1>4 DEF FileSystem

\* t.left still has every inode of it that a name links to.
LEMMA PrunedKeeps ==
  ASSUME LeftOK, IInv, NEW p \in Paths, dir[p] \in gone PROVE dir[p] \in PrunedLeft
<1>1. dir[p] # NoFile
  BY TailerAssumption DEF IInv, TypeOK, HistoryType
<1> QED
  BY <1>1 DEF LeftOK, PrunedLeft, Matches

LEMMA RunGone == ASSUME IInv, GoneOK, Run PROVE GoneOK'
<1> USE DEF IInv, TypeOK, FileType, DiskType, HistoryType, EnvType
<1>1. CASE LoopTop
  <2>1. UNCHANGED <<gone, left, dir, faulted, restarts>>
    BY <1>1 DEF LoopTop, disk, env, seen
  <2>2. CASE CtxDone
    BY <1>1, <2>1, <2>2, GoneClosed DEF LoopTop, CloseFile, Goto
  <2>3. CASE ~CtxDone
    <3>1. UNCHANGED <<fd, fileIno>> /\ (switchPending' = switchPending \/ ~switchPending')
          /\ pc' \in {"find", "check", "fstat"}
      BY <1>1, <2>3 DEF LoopTop, file, BeginCycle, Goto
    <3> QED
      BY <2>1, <3>1, GoneSame
  <2> QED
    BY <2>2, <2>3
<1>2. CASE FindFile
  <2>1. UNCHANGED <<gone, fd, fileIno, dir, faulted, restarts, switchPending>>
        /\ pc' \in {"sleep", "open"}
    BY <1>2 DEF FindFile, Goto, disk, env, seen
  <2>2. CASE Glob
    <3>1. /\ left' = PrunedLeft
          /\ pc' = "open" => Candidates # {} /\ path' = NewestMatch
      BY <1>2, <2>2 DEF FindFile, Goto
    <3>2. LeftOK => \A p \in Paths : dir[p] \in gone => dir[p] \in left'
      BY <3>1, PrunedKeeps
    <3>3. LeftOK /\ pc' = "open" => dir[path'] \notin gone
      <4> SUFFICES ASSUME LeftOK, pc' = "open" PROVE dir[path'] \notin gone
        OBVIOUS
      <4>1. path' \in Candidates
        BY <3>1, NewestMatchIsCandidate
      <4> QED
        BY <4>1 DEF Candidates, Matches, LeftOK
    <3> QED
      BY <2>1, <2>2, <3>2, <3>3 DEF GoneOK, LeftOK
  <2>3. CASE ~Glob
    <3>1. left' = left
      BY <1>2, <2>3 DEF FindFile
    <3> QED
      BY <2>1, <2>3, <3>1 DEF GoneOK, LeftOK
  <2> QED
    BY <2>2, <2>3
<1>3. CASE OpenFails
  <2>1. UNCHANGED <<gone, left, fd, fileIno, dir, faulted, restarts, switchPending>>
        /\ pc' = "sleep"
    BY <1>3 DEF OpenFails, IOError, Goto, disk, file, look, env, seen
  <2> QED
    BY <2>1, GoneSame
<1>4. CASE OpenStat
  <2>1. CASE OpenFails
    BY <1>3, <2>1
  <2>2. CASE ~OpenFails
    <3>1. /\ UNCHANGED <<gone, left, fd, dir, faulted, restarts, switchPending, path>>
          /\ pc = "open" /\ pc' = "open2" /\ fd = NoFile
      BY <1>4, <2>2 DEF OpenStat, At, Goto, disk, look, env, seen, FileOpenWhenUsed
    <3> QED
      BY <3>1 DEF GoneOK, LeftOK
  <2> QED
    BY <2>1, <2>2
<1>5. CASE OpenFile
  <2>1. CASE OpenFails
    BY <1>3, <2>1
  <2>2. CASE ~OpenFails
    <3>1. /\ UNCHANGED <<gone, left, dir, restarts, switchPending, path, fileIno>>
          /\ pc = "open2" /\ pc' \in {"check", "fstat"} /\ fd' = dir[path]
      BY <1>5, <2>2 DEF OpenFile, BeginCycle, At, Goto, disk, env
    <3>2. faulted' = (faulted \/ dir[path] # fileIno)
      BY <1>5, <2>2 DEF OpenFile
    <3>3. CASE faulted'
      BY <3>3 DEF GoneOK
    <3>4. CASE ~faulted'
      <4>1. ~faulted /\ fd' = fileIno
        BY <3>1, <3>2, <3>4
      <4> QED
        BY <3>1, <4>1 DEF GoneOK, LeftOK
    <3> QED
      BY <3>3, <3>4
  <2> QED
    BY <2>1, <2>2
<1>6. CASE CheckPresent \/ CheckReplaced
  <2>1. UNCHANGED <<gone, left, dir, faulted, restarts, switchPending>>
        /\ pc' \in {"top", "check2", "newer", "fstat"} /\ (pc' = "newer" => Glob)
    BY <1>6 DEF CheckPresent, CheckReplaced, IOError, Goto, disk, look, env, seen
  <2>2. (fd' = NoFile /\ pc' = "top") \/ UNCHANGED <<fd, fileIno>>
    BY <1>6 DEF CheckPresent, CheckReplaced, CloseFile, Goto, file
  <2> QED
    BY <2>1, <2>2, GoneSame, GoneClosed
<1>7. CASE StatCurrent
  <2>1. UNCHANGED <<gone, left, fd, fileIno, dir, faulted, restarts, switchPending>>
        /\ pc = "newer" /\ pc' \in {"newer2", "fstat"}
    BY <1>7 DEF StatCurrent, IOError, At, Goto, disk, file, env, seen
  <2> QED
    BY <2>1 DEF GoneOK, LeftOK
<1>8. CASE FindNewer
  <2>1. UNCHANGED <<gone, fd, fileIno, dir, faulted, restarts>> /\ left' = PrunedLeft
        /\ pc = "newer2" /\ pc' = "fstat"
    BY <1>8 DEF FindNewer, At, Goto, disk, file, env, seen
  <2>2. LeftOK => \A p \in Paths : dir[p] \in gone => dir[p] \in left'
    BY <2>1, PrunedKeeps
  <2> QED
    BY <2>1, <2>2 DEF GoneOK, LeftOK
<1>9. CASE StatFile \/ PublishBatch \/ Restat
  <2>1. /\ UNCHANGED <<gone, left, dir, restarts, switchPending>> /\ (faulted => faulted')
        /\ pc' \in {"top", "sleep", "read", "drained", "restat", "done"}
    BY <1>9 DEF StatFile, PublishBatch, Restat, ReadOrDrained, IOError, Goto, disk, look, env, seen
  <2>2. fd' = NoFile \/ UNCHANGED <<fd, fileIno>>
    BY <1>9 DEF StatFile, PublishBatch, Restat, CloseFile, file
  <2> QED
    BY <2>1, <2>2, GoneSame, GoneClosed
<1>10. CASE Read
  <2>1. /\ UNCHANGED <<gone, left, fd, fileIno, dir, restarts, switchPending, faulted>>
        /\ pc' \in {"publish", "publishErr"}
    BY <1>10 DEF Read, IOError, Goto, disk, look, env, seen
  <2> QED
    BY <2>1, GoneSame
<1>11. CASE AfterDrain
  <2>1. UNCHANGED <<dir, faulted, restarts, switchPending>> /\ pc' \in {"top", "sleep"}
        /\ pc = "drained" /\ fd # NoFile
    BY <1>11 DEF AfterDrain, At, Goto, disk, env, FileOpenWhenUsed
  <2>2. CASE switchPending
    <3>1. left' = left \cup {fileIno} /\ gone' = gone \cup {fd} /\ fd' = NoFile
      BY <1>11, <2>2 DEF AfterDrain, CloseFile
    <3>2. NoFile \notin gone'
      BY <2>1, <3>1, TailerAssumption
    <3> QED
      BY <2>1, <2>2, <3>1, <3>2 DEF GoneOK, LeftOK
  <2>3. CASE ~switchPending
    <3>1. UNCHANGED <<gone, left, fd, fileIno>>
      BY <1>11, <2>3 DEF AfterDrain, file
    <3> QED
      BY <2>1, <3>1, GoneSame
  <2> QED
    BY <2>2, <2>3
<1>12. CASE Wake
  <2>1. UNCHANGED <<gone, left, fd, fileIno, dir, restarts, switchPending, faulted>> /\ pc' = "top"
    BY <1>12 DEF Wake, Goto, disk, file, look, env, seen
  <2> QED
    BY <2>1, GoneSame
<1> QED
  BY <1>1, <1>2, <1>4, <1>5, <1>6, <1>7, <1>8, <1>9, <1>10, <1>11, <1>12 DEF Run

LEMMA NextGone == IInv /\ GoneOK /\ [Next]_vars => GoneOK'
<1> SUFFICES ASSUME IInv, GoneOK, [Next]_vars PROVE GoneOK'
  OBVIOUS
<1>1. CASE Panic
  <2>1. restarts' > 0
    BY <1>1 DEF Panic, IInv, TypeOK, EnvType
  <2> QED
    BY <2>1 DEF GoneOK
<1>2. CASE Cancel \/ UNCHANGED vars
  <2>1. UNCHANGED <<gone, left, fd, fileIno, dir, path, pc, switchPending, faulted, restarts>>
    BY <1>2 DEF Cancel, vars, disk, tailer, file, look, env, seen
  <2> QED
    BY <2>1 DEF GoneOK, LeftOK
<1> QED
  BY <1>1, <1>2, DiskGone, RunGone DEF Next, Returned

\* A file that was left for a newer match is never opened again (NeverGoesBack): t.left
\* knows every name of it, also after it is pruned and after inode numbers are reused.
THEOREM NeverGoesBackAlways == Spec => []NeverGoesBack
<1>1. Init => GoneOK
  BY TailerAssumption DEF Init, GoneOK, LeftOK
<1>2. GoneOK => NeverGoesBack
  BY DEF GoneOK, LeftOK, NeverGoesBack
<1> QED
  BY <1>1, <1>2, InitIInv, NextIInv, NextGone, PTL DEF Spec

(***************************************************************************)
(* Sequences of bytes.                                                     *)
(***************************************************************************)
LEMMA ConcatAppend ==
  ASSUME NEW S, NEW s \in Seq(S), NEW t \in Seq(S), NEW x \in S
  PROVE  s \o Append(t, x) = Append(s \o t, x)
<1>1. Append(t, x) = t \o <<x>> /\ <<x>> \in Seq(S)
  BY AppendIsConcat
<1>2. (s \o t) \o <<x>> = s \o (t \o <<x>>)
  BY <1>1, ConcatAssociative
<1>3. Append(s \o t, x) = (s \o t) \o <<x>>
  BY ConcatProperties, AppendIsConcat
<1> QED
  BY <1>1, <1>2, <1>3

LEMMA VisibleAppend ==
  ASSUME NEW s \in Seq(Byte), NEW b \in Byte
  PROVE  Visible(Append(s, b)) = IF b.k = "ch" THEN Append(Visible(s), b) ELSE Visible(s)
<1> DEFINE t == Append(s, b)
           P == {i \in DOMAIN s : s[i].k = "ch"}
           Q == {i \in DOMAIN t : t[i].k = "ch"}
<1>1. /\ t \in Seq(Byte) /\ Len(t) = Len(s) + 1 /\ t[Len(s) + 1] = b
      /\ \A i \in 1..Len(s) : t[i] = s[i]
  BY AppendProperties
<1>2. DOMAIN t = 1..(Len(s) + 1) /\ DOMAIN s = 1..Len(s) /\ Len(s) \in Nat
  BY <1>1
<1>3. \A n \in 1..Len(s) : n \in P <=> n \in Q
  <2> HIDE DEF t
  <2> QED
    BY <1>1, <1>2
<1>4. Len(s) + 1 \in Q <=> b.k = "ch"
  <2> HIDE DEF t
  <2> QED
    BY <1>1, <1>2
<1> HIDE DEF P, Q
<1>5. Selected(t, Q) = IF Len(s) + 1 \in Q THEN Append(Selected(s, P), b) ELSE Selected(s, P)
  BY <1>3, SelectedAppend
<1>6. Visible(t) = Selected(t, Q) /\ Visible(s) = Selected(s, P)
  BY DEF Visible, P, Q
<1> QED
  BY <1>4, <1>5, <1>6

LEMMA StripAppend ==
  ASSUME NEW s \in Seq(Byte), NEW b \in Byte
  PROVE  Strip(Append(s, b)) = IF b.k # "cr" THEN Append(Strip(s), b) ELSE Strip(s)
<1> DEFINE t == Append(s, b)
           P == {i \in DOMAIN s : s[i].k # "cr"}
           Q == {i \in DOMAIN t : t[i].k # "cr"}
<1>1. /\ t \in Seq(Byte) /\ Len(t) = Len(s) + 1 /\ t[Len(s) + 1] = b
      /\ \A i \in 1..Len(s) : t[i] = s[i]
  BY AppendProperties
<1>2. DOMAIN t = 1..(Len(s) + 1) /\ DOMAIN s = 1..Len(s) /\ Len(s) \in Nat
  BY <1>1
<1>3. \A n \in 1..Len(s) : n \in P <=> n \in Q
  <2> HIDE DEF t
  <2> QED
    BY <1>1, <1>2
<1>4. Len(s) + 1 \in Q <=> b.k # "cr"
  <2> HIDE DEF t
  <2> QED
    BY <1>1, <1>2
<1> HIDE DEF P, Q
<1>5. Selected(t, Q) = IF Len(s) + 1 \in Q THEN Append(Selected(s, P), b) ELSE Selected(s, P)
  BY <1>3, SelectedAppend
<1>6. Strip(t) = Selected(t, Q) /\ Strip(s) = Selected(s, P)
  BY DEF Strip, P, Q
<1> QED
  BY <1>4, <1>5, <1>6

LEMMA VisibleType ==
  /\ Visible(<<>>) = <<>> /\ Strip(<<>>) = <<>>
  /\ \A s \in Seq(Byte) : Visible(s) \in Seq(Byte) /\ Strip(s) \in Seq(Byte)
<1>1. Visible(<<>>) = <<>> /\ Strip(<<>>) = <<>>
  BY SelectedOfEmpty DEF Visible, Strip
<1>2. ASSUME NEW s \in Seq(Byte) PROVE Visible(s) \in Seq(Byte) /\ Strip(s) \in Seq(Byte)
  BY SelectedType DEF Visible, Strip
<1> QED
  BY <1>1, <1>2

LEMMA VisibleConcat ==
  ASSUME NEW s \in Seq(Byte), NEW t \in Seq(Byte)
  PROVE  Visible(s \o t) = Visible(s) \o Visible(t)
<1> DEFINE G == {u \in Seq(Byte) : Visible(s \o u) = Visible(s) \o Visible(u)}
<1>1. <<>> \in G
  <2>1. s \o <<>> = s /\ Visible(s) \o <<>> = Visible(s) /\ <<>> \in Seq(Byte)
    BY VisibleType, ConcatEmptySeq
  <2> QED
    BY <2>1, VisibleType
<1>2. ASSUME NEW u \in Seq(Byte), NEW b \in Byte, u \in G PROVE Append(u, b) \in G
  <2>1. s \o Append(u, b) = Append(s \o u, b) /\ s \o u \in Seq(Byte) /\ Append(u, b) \in Seq(Byte)
    BY ConcatAppend, ConcatProperties, AppendProperties
  <2>2. CASE b.k = "ch"
    <3>1. Visible(Append(s \o u, b)) = Append(Visible(s) \o Visible(u), b)
      BY <1>2, <2>1, <2>2, VisibleAppend
    <3>2. Append(Visible(s) \o Visible(u), b) = Visible(s) \o Append(Visible(u), b)
      <4> DEFINE v == Visible(s)
                 w == Visible(u)
      <4>1. v \in Seq(Byte) /\ w \in Seq(Byte)
        BY VisibleType
      <4> HIDE DEF v, w
      <4>2. v \o Append(w, b) = Append(v \o w, b)
        BY <4>1, ConcatAppend
      <4> QED
        BY <4>2 DEF v, w
    <3>3. Visible(Append(u, b)) = Append(Visible(u), b)
      BY <2>2, VisibleAppend
    <3> QED
      BY <2>1, <3>1, <3>2, <3>3
  <2>3. CASE b.k # "ch"
    BY <1>2, <2>1, <2>3, VisibleAppend
  <2> QED
    BY <2>2, <2>3
<1>3. \A u \in Seq(Byte), b \in Byte : u \in G => Append(u, b) \in G
  BY <1>2
<1> HIDE DEF G
<1>4. Seq(Byte) \subseteq G
  BY <1>1, <1>3, SequenceInduction
<1> QED
  BY <1>4 DEF G

\* Stripping a line takes nothing visible from it.
LEMMA VisibleStrip ==
  ASSUME NEW s \in Seq(Byte)
  PROVE  Visible(Strip(s)) = Visible(s)
<1> DEFINE G == {u \in Seq(Byte) : Visible(Strip(u)) = Visible(u)}
<1>1. <<>> \in G
  BY VisibleType
<1>2. ASSUME NEW u \in Seq(Byte), NEW b \in Byte, u \in G PROVE Append(u, b) \in G
  <2>1. Append(u, b) \in Seq(Byte) /\ Strip(u) \in Seq(Byte)
    BY AppendProperties, VisibleType
  <2>2. CASE b.k = "ch"
    <3>1. Strip(Append(u, b)) = Append(Strip(u), b)
      BY <2>2, StripAppend
    <3>2. Visible(Append(Strip(u), b)) = Append(Visible(Strip(u)), b)
      BY <2>1, <2>2, VisibleAppend
    <3>3. Visible(Append(u, b)) = Append(Visible(u), b)
      BY <2>2, VisibleAppend
    <3> QED
      BY <1>2, <2>1, <3>1, <3>2, <3>3
  <2>3. CASE b.k # "ch"
    <3>1. Visible(Append(u, b)) = Visible(u)
      BY <2>3, VisibleAppend
    <3>2. Strip(Append(u, b)) = Append(Strip(u), b) \/ Strip(Append(u, b)) = Strip(u)
      BY StripAppend
    <3>3. Visible(Append(Strip(u), b)) = Visible(Strip(u))
      BY <2>1, <2>3, VisibleAppend
    <3> QED
      BY <1>2, <2>1, <3>1, <3>2, <3>3
  <2> QED
    BY <2>2, <2>3
<1>3. \A u \in Seq(Byte), b \in Byte : u \in G => Append(u, b) \in G
  BY <1>2
<1> HIDE DEF G
<1>4. Seq(Byte) \subseteq G
  BY <1>1, <1>3, SequenceInduction
<1> QED
  BY <1>4 DEF G

(***************************************************************************)
(* Newlines and the lines they end.                                        *)
(***************************************************************************)
LEMMA MaxIs ==
  ASSUME NEW P \in SUBSET Nat, NEW m \in P, \A i \in P : m >= i
  PROVE  Max(P) = m
<1>1. Max(P) \in P /\ \A i \in P : Max(P) >= i
  BY DEF Max
<1> DEFINE x == Max(P)
<1>2. x \in Nat /\ m \in Nat /\ x >= m /\ m >= x
  BY <1>1
<1> HIDE DEF x
<1>3. x = m
  BY <1>2
<1> QED
  BY <1>3 DEF x

LEMMA NewlinesAppend ==
  ASSUME NEW s \in Seq(Byte), NEW b \in Byte
  PROVE  \A n \in Nat : n \in Newlines(Append(s, b)) <=>
           n \in Newlines(s) \/ (n = Len(s) + 1 /\ b.k = "nl")
<1> DEFINE t == Append(s, b)
<1>1. /\ t \in Seq(Byte) /\ Len(t) = Len(s) + 1 /\ t[Len(s) + 1] = b /\ Len(s) \in Nat
      /\ \A i \in 1..Len(s) : t[i] = s[i]
  BY AppendProperties
<1> SUFFICES ASSUME NEW n \in Nat
             PROVE  n \in Newlines(t) <=> n \in Newlines(s) \/ (n = Len(s) + 1 /\ b.k = "nl")
  OBVIOUS
<1> HIDE DEF t
<1>2. n \in 1..Len(t) <=> n \in 1..Len(s) \/ n = Len(s) + 1
  BY <1>1
<1>3. n \in 1..Len(s) => t[n] = s[n]
  BY <1>1
<1>4. n = Len(s) + 1 => t[n] = b /\ ~(n \in 1..Len(s))
  BY <1>1
<1> QED
  BY <1>2, <1>3, <1>4 DEF Newlines

\* LastNewline is 0 or the place of a newline, and no newline comes after it.
LEMMA LastNewlineProperty ==
  ASSUME NEW s \in Seq(Byte)
  PROVE  /\ LastNewline(s) \in 0..Len(s)
         /\ LastNewline(s) = 0 \/ LastNewline(s) \in Newlines(s)
         /\ \A i \in Newlines(s) : i <= LastNewline(s)
<1>1. LastNewline(s) \in 0..Len(s)
  BY LastNewlineInRange
<1>2. Len(s) \in Nat /\ Newlines(s) \in SUBSET (1..Len(s))
  BY DEF Newlines
<1>3. CASE Newlines(s) = {}
  BY <1>1, <1>3 DEF LastNewline
<1>4. CASE Newlines(s) # {}
  <2>1. Max(Newlines(s)) \in Newlines(s) /\ \A i \in Newlines(s) : Max(Newlines(s)) >= i
    BY <1>2, <1>4, MaxOfPositions
  <2>2. LastNewline(s) = Max(Newlines(s))
    BY <1>4 DEF LastNewline
  <2>3. \A i \in Newlines(s) : i <= LastNewline(s)
    BY <1>1, <1>2, <2>1, <2>2
  <2> QED
    BY <1>1, <2>1, <2>2, <2>3
<1> QED
  BY <1>3, <1>4

LEMMA LastNewlineIs ==
  ASSUME NEW s \in Seq(Byte), NEW m \in 0..Len(s), m = 0 \/ m \in Newlines(s),
         \A i \in Newlines(s) : i <= m
  PROVE  LastNewline(s) = m
<1> DEFINE l == LastNewline(s)
<1>1. l \in 0..Len(s) /\ (l = 0 \/ l \in Newlines(s)) /\ \A i \in Newlines(s) : i <= l
  BY LastNewlineProperty
<1>2. Len(s) \in Nat /\ \A i \in Newlines(s) : i \in 1..Len(s)
  BY DEF Newlines
<1> HIDE DEF l
<1>3. l <= m /\ m <= l
  BY <1>1, <1>2
<1>4. l = m
  BY <1>1, <1>2, <1>3
<1> QED
  BY <1>4 DEF l

\* The partial line at the end of s.
After(s) == SubSeq(s, LastNewline(s) + 1, Len(s))

LEMMA LastNewlineAppend ==
  ASSUME NEW s \in Seq(Byte), NEW b \in Byte
  PROVE  LastNewline(Append(s, b)) = IF b.k = "nl" THEN Len(s) + 1 ELSE LastNewline(s)
<1> DEFINE t == Append(s, b)
           m == IF b.k = "nl" THEN Len(s) + 1 ELSE LastNewline(s)
<1>1. t \in Seq(Byte) /\ Len(t) = Len(s) + 1 /\ Len(s) \in Nat
  BY AppendProperties
<1>2. \A n \in Nat : n \in Newlines(t) <=> n \in Newlines(s) \/ (n = Len(s) + 1 /\ b.k = "nl")
  BY NewlinesAppend
<1>3. /\ LastNewline(s) \in 0..Len(s)
      /\ LastNewline(s) = 0 \/ LastNewline(s) \in Newlines(s)
      /\ \A i \in Newlines(s) : i <= LastNewline(s)
  BY LastNewlineProperty
<1> HIDE DEF t
<1>4. \A i \in Newlines(t) : i \in Nat
  BY <1>1 DEF Newlines
<1>5. \A i \in Newlines(s) : i \in Nat /\ i <= Len(s)
  BY <1>1 DEF Newlines
<1>6. CASE b.k = "nl"
  <2>1. Len(s) + 1 \in 0..Len(t) /\ Len(s) + 1 \in Newlines(t)
    BY <1>1, <1>2, <1>6
  <2>2. \A i \in Newlines(t) : i <= Len(s) + 1
    BY <1>1, <1>2, <1>4, <1>5
  <2>3. LastNewline(t) = Len(s) + 1
    BY <1>1, <2>1, <2>2, LastNewlineIs
  <2> QED
    BY <1>6, <2>3 DEF t
<1>7. CASE b.k # "nl"
  <2>1. LastNewline(s) \in 0..Len(t) /\ (LastNewline(s) = 0 \/ LastNewline(s) \in Newlines(t))
    BY <1>1, <1>2, <1>3
  <2>2. \A i \in Newlines(t) : i <= LastNewline(s)
    BY <1>2, <1>3, <1>4, <1>7
  <2>3. LastNewline(t) = LastNewline(s)
    BY <1>1, <2>1, <2>2, LastNewlineIs
  <2> QED
    BY <1>7, <2>3 DEF t
<1> QED
  BY <1>6, <1>7

LEMMA AfterType ==
  ASSUME NEW s \in Seq(Byte)
  PROVE  After(s) \in Seq(Byte) /\ Len(After(s)) = Len(s) - LastNewline(s)
<1>1. LastNewline(s) \in 0..Len(s) /\ Len(s) \in Nat
  BY LastNewlineProperty
<1>2. \A i \in (LastNewline(s) + 1)..Len(s) : s[i] \in Byte
  BY <1>1
<1> DEFINE l == LastNewline(s) + 1
<1>3. l \in Int /\ Len(s) \in Int /\ \A i \in l..Len(s) : s[i] \in Byte
  BY <1>1, <1>2
<1>4. l <= Len(s) + 1
  BY <1>1
<1>5. After(s) = SubSeq(s, l, Len(s))
  BY DEF After
<1> HIDE DEF l
<1>6. After(s) \in Seq(Byte) /\ Len(After(s)) = IF l <= Len(s) THEN Len(s) - l + 1 ELSE 0
  BY <1>3, <1>5, SubSeqProperties
<1> QED
  BY <1>1, <1>3, <1>4, <1>6 DEF l

LEMMA AfterAppend ==
  ASSUME NEW s \in Seq(Byte), NEW b \in Byte
  PROVE  After(Append(s, b)) = IF b.k = "nl" THEN <<>> ELSE Append(After(s), b)
<1> DEFINE t == Append(s, b)
           l == LastNewline(s)
<1>1. /\ t \in Seq(Byte) /\ Len(t) = Len(s) + 1 /\ Len(s) \in Nat /\ t[Len(s) + 1] = b
      /\ l \in 0..Len(s)
  BY AppendProperties, LastNewlineProperty
<1>2. CASE b.k = "nl"
  <2>1. LastNewline(t) = Len(s) + 1
    BY <1>2, LastNewlineAppend
  <2> HIDE DEF t
  <2>2. SubSeq(t, (Len(s) + 1) + 1, Len(t)) = <<>>
    BY <1>1, SubSeqEmpty
  <2>3. After(t) = <<>>
    BY <2>1, <2>2 DEF After
  <2> QED
    BY <1>2, <2>3 DEF t
<1>3. CASE b.k # "nl"
  <2>1. LastNewline(t) = l
    BY <1>3, LastNewlineAppend
  <2>2. SubSeq(t, l + 1, Len(s)) = SubSeq(s, l + 1, Len(s))
    <3>1. l + 1 \in Nat /\ 1 <= l + 1 /\ Len(s) <= Len(s)
      BY <1>1
    <3> HIDE DEF l
    <3> QED
      BY <1>1, <3>1, SliceOfAppend
  <2> HIDE DEF t, l
  <2>3. SubSeq(t, l + 1, Len(s) + 1) = Append(SubSeq(t, l + 1, Len(s)), b)
    <3>1. l + 1 \in 1..Len(t) /\ Len(s) + 1 \in (l + 1)..Len(t)
      BY <1>1
    <3>3. SubSeq(t, l + 1, Len(s) + 1) = SubSeq(t, l + 1, Len(s)) \o <<b>>
      <4> DEFINE m == l + 1
                 n == Len(s) + 1
      <4>1. m \in 1..Len(t) /\ n \in m..Len(t) /\ n - 1 = Len(s) /\ t[n] = b
        BY <1>1, <3>1
      <4> HIDE DEF m, n
      <4>2. SubSeq(t, m, n) = SubSeq(t, m, n - 1) \o <<t[n]>>
        BY <1>1, <4>1, SubSeqRecursiveSecond
      <4>3. SubSeq(t, m, n) = SubSeq(t, m, Len(s)) \o <<b>>
        BY <4>1, <4>2
      <4> QED
        BY <4>3 DEF m, n
    <3>4. SubSeq(t, l + 1, Len(s)) \in Seq(Byte)
      <4>1. SubSeq(s, l + 1, Len(s)) \in Seq(Byte)
        BY AfterType DEF After, l
      <4> QED
        BY <2>2, <4>1
    <3> QED
      BY <3>3, <3>4, AppendIsConcat
  <2>4. After(t) = Append(After(s), b)
    BY <1>1, <2>1, <2>2, <2>3 DEF After, l
  <2> QED
    BY <1>3, <2>4 DEF t
<1> QED
  BY <1>2, <1>3

\* The greatest of some positions and 0.
LEMMA MaxWithZero ==
  ASSUME NEW n \in Nat, NEW P \in SUBSET (1..n)
  PROVE  /\ Max(P \cup {0}) \in P \cup {0}
         /\ Max(P \cup {0}) \in 0..n
         /\ \A i \in P : Max(P \cup {0}) >= i
<1> DEFINE Q == P \cup {0}
<1>1. Q \in SUBSET Nat
  OBVIOUS
<1>2. CASE P = {}
  <2>1. 0 \in Q /\ \A i \in Q : 0 >= i
    BY <1>2
  <2> HIDE DEF Q
  <2>2. Max(Q) = 0
    BY <1>1, <2>1, MaxIs
  <2> QED
    BY <1>2, <2>2 DEF Q
<1>3. CASE P # {}
  <2> DEFINE m == Max(P)
  <2>1. m \in P /\ \A i \in P : m >= i
    BY <1>3, MaxOfPositions
  <2> HIDE DEF m
  <2>2. m \in 1..n /\ m \in Q /\ \A i \in Q : m >= i
    BY <2>1
  <2> HIDE DEF Q
  <2>3. Max(Q) = m
    BY <1>1, <2>2, MaxIs
  <2> QED
    BY <2>1, <2>2, <2>3 DEF Q
<1> QED
  BY <1>2, <1>3

\* Where the line that the newline at n ends begins.
LEMMA LineStart ==
  ASSUME NEW s \in Seq(Byte), NEW n \in 1..(Len(s) + 1)
  PROVE  Max({i \in Newlines(s) : i < n} \cup {0}) \in 0..(n - 1)
<1> DEFINE P == {i \in Newlines(s) : i < n}
<1>1. Len(s) \in Nat /\ n - 1 \in Nat
  OBVIOUS
<1>2. P \in SUBSET (1..(n - 1))
  BY <1>1 DEF Newlines
<1> HIDE DEF P
<1>3. Max(P \cup {0}) \in 0..(n - 1)
  BY <1>1, <1>2, MaxWithZero
<1> QED
  BY <1>3 DEF P

LEMMA LineBeforeType ==
  ASSUME NEW s \in Seq(Byte), NEW n \in 1..Len(s)
  PROVE  LineBefore(s, n) \in Seq(Byte)
<1> DEFINE f == Max({i \in Newlines(s) : i < n} \cup {0})
           m == f + 1
           p == n - 1
<1>1. Len(s) \in Nat /\ n \in 1..(Len(s) + 1)
  OBVIOUS
<1>2. f \in 0..(n - 1)
  BY <1>1, LineStart
<1>3. LineBefore(s, n) = Strip(SubSeq(s, m, p))
  BY DEF LineBefore
<1> HIDE DEF f
<1>4. m \in Int /\ p \in Int /\ 1 <= m /\ p <= Len(s)
  BY <1>1, <1>2
<1> HIDE DEF m, p
<1>5. \A i \in m..p : s[i] \in Byte
  BY <1>1, <1>4
<1>6. SubSeq(s, m, p) \in Seq(Byte)
  BY <1>4, <1>5, SubSeqProperties
<1> QED
  BY <1>3, <1>6, VisibleType

\* A line is not changed by what comes after it.
LEMMA LineBeforeAppend ==
  ASSUME NEW s \in Seq(Byte), NEW b \in Byte
  PROVE  /\ \A n \in 1..Len(s) : LineBefore(Append(s, b), n) = LineBefore(s, n)
         /\ LineBefore(Append(s, b), Len(s) + 1) = Strip(After(s))
<1> DEFINE t == Append(s, b)
           from(u, n) == Max({i \in Newlines(u) : i < n} \cup {0})
<1>1. t \in Seq(Byte) /\ Len(t) = Len(s) + 1 /\ Len(s) \in Nat
  BY AppendProperties
<1>2. \A n \in Nat : n \in Newlines(t) <=> n \in Newlines(s) \/ (n = Len(s) + 1 /\ b.k = "nl")
  BY NewlinesAppend
<1>3. \A i \in Newlines(t) : i \in Nat
  BY <1>1 DEF Newlines
<1>4. \A i \in Newlines(s) : i \in Nat /\ i <= Len(s)
  BY <1>1 DEF Newlines
<1>5. ASSUME NEW n \in 1..(Len(s) + 1)
      PROVE  LineBefore(t, n) = Strip(SubSeq(s, from(s, n) + 1, n - 1))
  <2>1. {i \in Newlines(t) : i < n} = {i \in Newlines(s) : i < n}
    <3> HIDE DEF t
    <3> QED
      BY <1>1, <1>2, <1>3, <1>4
  <2> DEFINE g == from(s, n)
             f == g + 1
             p == n - 1
  <2>2. g \in 0..(n - 1)
    BY LineStart
  <2>3. f \in Nat /\ 1 <= f /\ p \in Nat /\ p <= Len(s)
    <3> HIDE DEF g
    <3> QED
      BY <1>1, <2>2
  <2>4. LineBefore(t, n) = Strip(SubSeq(t, f, p))
    <3> HIDE DEF t
    <3> QED
      BY <2>1 DEF LineBefore
  <2> HIDE DEF f, p
  <2>5. SubSeq(t, f, p) = SubSeq(s, f, p)
    BY <1>1, <2>3, SliceOfAppend
  <2>6. LineBefore(t, n) = Strip(SubSeq(s, f, p))
    BY <2>4, <2>5
  <2> QED
    BY <2>6 DEF f, p
<1> HIDE DEF t
<1>6. \A n \in 1..Len(s) : LineBefore(t, n) = LineBefore(s, n)
  BY <1>1, <1>5 DEF LineBefore
<1>7. from(s, Len(s) + 1) = LastNewline(s)
  <2> DEFINE Q == Newlines(s) \cup {0}
             l == LastNewline(s)
  <2>1. l \in 0..Len(s) /\ (l = 0 \/ l \in Newlines(s)) /\ \A i \in Newlines(s) : i <= l
    BY LastNewlineProperty
  <2>2. {i \in Newlines(s) : i < Len(s) + 1} = Newlines(s)
    BY <1>1, <1>4
  <2> HIDE DEF l
  <2>3. Q \in SUBSET Nat /\ l \in Q /\ \A i \in Q : l >= i
    BY <1>1, <1>4, <2>1
  <2> HIDE DEF Q
  <2>4. Max(Q) = l
    BY <2>3, MaxIs
  <2> QED
    BY <2>2, <2>4 DEF Q, l
<1>8. LineBefore(t, Len(s) + 1) = Strip(SubSeq(s, LastNewline(s) + 1, (Len(s) + 1) - 1))
  <2>1. Len(s) + 1 \in 1..(Len(s) + 1)
    BY <1>1
  <2> HIDE DEF from
  <2> QED
    BY <1>5, <1>7, <2>1
<1>9. (Len(s) + 1) - 1 = Len(s)
  BY <1>1
<1>10. LineBefore(t, Len(s) + 1) = Strip(After(s))
  BY <1>8, <1>9 DEF After
<1> QED
  BY <1>6, <1>10 DEF t

LEMMA LinesType ==
  ASSUME NEW s \in Seq(Byte)
  PROVE  Lines(s) \in Seq(Seq(Byte))
<1> DEFINE l == [n \in 1..Len(s) |-> LineBefore(s, n)]
<1>1. l \in Seq(Seq(Byte))
  BY LineBeforeType
<1> HIDE DEF l
<1>2. \A P : Selected(l, P) \in Seq(Seq(Byte))
  BY <1>1, SelectedType
<1> QED
  BY <1>2 DEF Lines, l

LEMMA LinesOfEmpty == Lines(<<>>) = <<>>
<1>1. [n \in 1..Len(<<>>) |-> LineBefore(<<>>, n)] = <<>>
  OBVIOUS
<1> QED
  BY <1>1, SelectedOfEmpty DEF Lines

\* A byte more ends a line or does not.
LEMMA LinesAppend ==
  ASSUME NEW s \in Seq(Byte), NEW b \in Byte
  PROVE  Lines(Append(s, b)) =
           IF b.k = "nl" /\ Strip(After(s)) # <<>>
           THEN Append(Lines(s), Strip(After(s))) ELSE Lines(s)
<1> DEFINE t == Append(s, b)
           x == Strip(After(s))
           ls == [n \in 1..Len(s) |-> LineBefore(s, n)]
           lt == [n \in 1..Len(t) |-> LineBefore(t, n)]
           P == {n \in Newlines(s) : LineBefore(s, n) # <<>>}
           Q == {n \in Newlines(t) : LineBefore(t, n) # <<>>}
<1>1. t \in Seq(Byte) /\ Len(t) = Len(s) + 1 /\ Len(s) \in Nat
  BY AppendProperties
<1>2. /\ \A n \in 1..Len(s) : LineBefore(t, n) = LineBefore(s, n)
      /\ LineBefore(t, Len(s) + 1) = x
  BY LineBeforeAppend
<1>3. \A n \in Nat : n \in Newlines(t) <=> n \in Newlines(s) \/ (n = Len(s) + 1 /\ b.k = "nl")
  BY NewlinesAppend
<1>4. x \in Seq(Byte)
  BY AfterType, VisibleType
<1>5. ls \in Seq(Seq(Byte)) /\ Len(ls) = Len(s)
  BY <1>1, LineBeforeType
<1>6. \A n \in 1..Len(ls) : n \in P <=> n \in Q
  <2> HIDE DEF t, ls
  <2> QED
    BY <1>1, <1>2, <1>3, <1>5
<1>7. Len(ls) + 1 \in Q <=> b.k = "nl" /\ x # <<>>
  <2>1. ~(Len(s) + 1 \in Newlines(s))
    BY <1>1 DEF Newlines
  <2> HIDE DEF t, ls, x
  <2> QED
    BY <1>1, <1>2, <1>3, <1>5, <2>1
<1>8. lt = Append(ls, x)
  <2>1. lt \in Seq(Seq(Byte)) /\ Len(lt) = Len(s) + 1
    <3> HIDE DEF t
    <3> QED
      BY <1>1, LineBeforeType
  <2>2. /\ Append(ls, x) \in Seq(Seq(Byte)) /\ Len(Append(ls, x)) = Len(s) + 1
        /\ \A i \in 1..Len(s) : Append(ls, x)[i] = ls[i]
        /\ Append(ls, x)[Len(s) + 1] = x
    <3> HIDE DEF ls, x
    <3> QED
      BY <1>4, <1>5, AppendProperties
  <2>3. ASSUME NEW i \in 1..(Len(s) + 1) PROVE lt[i] = Append(ls, x)[i]
    <3>1. lt[i] = LineBefore(t, i)
      BY <1>1
    <3>2. CASE i = Len(s) + 1
      BY <1>2, <2>2, <3>1, <3>2
    <3>3. CASE i # Len(s) + 1
      <4>1. i \in 1..Len(s)
        BY <1>1, <3>3
      <4>2. Append(ls, x)[i] = ls[i]
        BY <2>2, <4>1
      <4>3. ls[i] = LineBefore(s, i)
        BY <4>1
      <4> QED
        BY <1>2, <3>1, <4>1, <4>2, <4>3
    <3> QED
      BY <3>2, <3>3
  <2> DEFINE a == Append(ls, x)
  <2>4. a \in Seq(Seq(Byte)) /\ Len(lt) = Len(a) /\ \A i \in 1..Len(lt) : lt[i] = a[i]
    <3> HIDE DEF t, x, ls, lt
    <3> QED
      BY <2>1, <2>2, <2>3
  <2> HIDE DEF a, lt
  <2>5. lt = a
    BY <2>1, <2>4, SeqEqual
  <2> QED
    BY <2>5 DEF a
<1>9. Lines(t) = Selected(lt, Q) /\ Lines(s) = Selected(ls, P)
  BY DEF Lines
<1> HIDE DEF P, Q, ls, lt, x
<1>10. Selected(Append(ls, x), Q) =
         IF Len(ls) + 1 \in Q THEN Append(Selected(ls, P), x) ELSE Selected(ls, P)
  <2> DEFINE S == Seq(Byte)
  <2>1. ls \in Seq(S) /\ x \in S
    BY <1>4, <1>5
  <2> HIDE DEF S
  <2> QED
    BY <1>6, <2>1, SelectedAppend
<1> QED
  BY <1>7, <1>8, <1>9, <1>10 DEF x

\* A text in which every line is complete: it is empty or ends in a newline.
Complete(s) == LastNewline(s) = Len(s)

\* Lines are found in pieces as they are found in the whole, when the cut is at the end
\* of a line.
LEMMA LinesConcat ==
  ASSUME NEW c \in Seq(Byte), Complete(c), NEW s \in Seq(Byte)
  PROVE  Lines(c \o s) = Lines(c) \o Lines(s) /\ After(c \o s) = After(s)
<1> DEFINE G == {u \in Seq(Byte) : Lines(c \o u) = Lines(c) \o Lines(u) /\ After(c \o u) = After(u)}
<1>0. Lines(c) \in Seq(Seq(Byte))
  BY LinesType
<1>1. <<>> \in G
  <2>1. c \o <<>> = c /\ <<>> \in Seq(Byte)
    BY ConcatEmptySeq
  <2>2. Lines(c) \o <<>> = Lines(c)
    BY <1>0, ConcatEmptySeq
  <2>3. After(c) = <<>>
    <3>1. SubSeq(c, Len(c) + 1, Len(c)) = <<>>
      BY SubSeqEmpty
    <3> QED
      BY <3>1 DEF After, Complete
  <2>4. After(<<>>) = <<>>
    <3> DEFINE e == <<>>
    <3>1. e \in Seq(Byte) /\ Len(e) = 0
      OBVIOUS
    <3> HIDE DEF e
    <3>2. LastNewline(e) = 0
      <4>1. LastNewline(e) \in 0..Len(e)
        BY <3>1, LastNewlineInRange
      <4> QED
        BY <3>1, <4>1
    <3>3. SubSeq(e, 0 + 1, 0) = <<>>
      BY SubSeqEmpty
    <3> QED
      BY <3>1, <3>2, <3>3 DEF After, e
  <2> QED
    BY <2>1, <2>2, <2>3, <2>4, LinesOfEmpty
<1>2. ASSUME NEW u \in Seq(Byte), NEW b \in Byte, u \in G PROVE Append(u, b) \in G
  <2>1. /\ c \o Append(u, b) = Append(c \o u, b)
        /\ c \o u \in Seq(Byte) /\ Append(u, b) \in Seq(Byte)
    BY ConcatAppend, ConcatProperties, AppendProperties
  <2> DEFINE w == c \o u
             x == Strip(After(u))
             L == Lines(c)
             M == Lines(u)
  <2>2. Lines(w) = L \o M /\ After(w) = After(u)
    BY <1>2
  <2>3. w \in Seq(Byte) /\ x \in Seq(Byte) /\ L \in Seq(Seq(Byte)) /\ M \in Seq(Seq(Byte))
    BY <2>1, AfterType, VisibleType, LinesType
  <2> HIDE DEF w, L, M
  <2>4. After(Append(w, b)) = After(Append(u, b))
    BY <2>2, <2>3, AfterAppend
  <2>5. Lines(Append(w, b)) = L \o Lines(Append(u, b))
    <3>1. CASE b.k = "nl" /\ x # <<>>
      <4>1. Lines(Append(w, b)) = Append(L \o M, x) /\ Lines(Append(u, b)) = Append(M, x)
        BY <2>2, <2>3, <3>1, LinesAppend DEF M
      <4> DEFINE S == Seq(Byte)
      <4>2. L \in Seq(S) /\ M \in Seq(S) /\ x \in S
        BY <2>3
      <4> HIDE DEF S, x
      <4>3. L \o Append(M, x) = Append(L \o M, x)
        BY <4>2, ConcatAppend
      <4> QED
        BY <4>1, <4>3
    <3>2. CASE ~(b.k = "nl" /\ x # <<>>)
      BY <2>2, <2>3, <3>2, LinesAppend DEF M
    <3> QED
      BY <3>1, <3>2
  <2> QED
    BY <2>1, <2>4, <2>5 DEF w, L
<1>3. \A u \in Seq(Byte), b \in Byte : u \in G => Append(u, b) \in G
  BY <1>2
<1> HIDE DEF G
<1>4. Seq(Byte) \subseteq G
  BY <1>1, <1>3, SequenceInduction
<1> QED
  BY <1>4 DEF G

\* A text without a newline has no complete line.
LEMMA NoNewlineNoLines ==
  ASSUME NEW s \in Seq(Byte), LastNewline(s) = 0
  PROVE  Lines(s) = <<>>
<1> DEFINE G == {u \in Seq(Byte) : LastNewline(u) = 0 => Lines(u) = <<>>}
<1>1. <<>> \in G
  BY LinesOfEmpty
<1>2. ASSUME NEW u \in Seq(Byte), NEW b \in Byte, u \in G PROVE Append(u, b) \in G
  <2>1. Append(u, b) \in Seq(Byte) /\ Len(u) + 1 # 0
    BY AppendProperties
  <2>2. CASE b.k = "nl"
    BY <2>1, <2>2, LastNewlineAppend
  <2>3. CASE b.k # "nl"
    BY <1>2, <2>1, <2>3, LastNewlineAppend, LinesAppend
  <2> QED
    BY <2>2, <2>3
<1>3. \A u \in Seq(Byte), b \in Byte : u \in G => Append(u, b) \in G
  BY <1>2
<1> HIDE DEF G
<1>4. Seq(Byte) \subseteq G
  BY <1>1, <1>3, SequenceInduction
<1> QED
  BY <1>4 DEF G

\* The lines of a text are those of the part up to its last newline; the rest has none.
LEMMA LinesOfComplete ==
  ASSUME NEW s \in Seq(Byte)
  PROVE  LET c == SubSeq(s, 1, LastNewline(s))
         IN  /\ c \in Seq(Byte) /\ Len(c) = LastNewline(s) /\ Complete(c)
             /\ s = c \o After(s) /\ LastNewline(After(s)) = 0
             /\ Lines(c) = Lines(s)
<1> DEFINE l == LastNewline(s)
           c == SubSeq(s, 1, l)
           a == After(s)
<1>1. /\ l \in 0..Len(s) /\ (l = 0 \/ l \in Newlines(s)) /\ \A i \in Newlines(s) : i <= l
      /\ Len(s) \in Nat
  BY LastNewlineProperty
<1>2. c \in Seq(Byte) /\ Len(c) = l /\ \A i \in 1..l : c[i] = s[i]
  <2> HIDE DEF l
  <2>1. l \in Int /\ 1 \in Int /\ \A i \in 1..l : s[i] \in Byte
    BY <1>1
  <2>2. /\ c \in Seq(Byte) /\ Len(c) = IF 1 <= l THEN l - 1 + 1 ELSE 0
        /\ \A i \in 1..(l - 1 + 1) : c[i] = s[1 + i - 1]
    BY <2>1, SubSeqProperties
  <2> HIDE DEF c
  <2> QED
    BY <1>1, <2>2
<1>3. a \in Seq(Byte) /\ Len(a) = Len(s) - l /\ a = SubSeq(s, l + 1, Len(s))
  BY AfterType DEF After
<1>4. s = c \o a
  <2> HIDE DEF l
  <2>1. 1 \in 1..(Len(s) + 1) /\ l \in (1 - 1)..Len(s) /\ Len(s) \in l..Len(s)
    BY <1>1
  <2>2. SubSeq(s, 1, l) \o SubSeq(s, l + 1, Len(s)) = SubSeq(s, 1, Len(s))
    BY <2>1, ConcatAdjacentSubSeq
  <2>3. SubSeq(s, 1, Len(s)) = s
    BY SubSeqFull
  <2> QED
    BY <1>3, <2>2, <2>3
<1> HIDE DEF c, a, l
<1>5. LastNewline(c) = l
  <2>1. l \in 0..Len(c)
    BY <1>1, <1>2
  <2>2. l = 0 \/ l \in Newlines(c)
    BY <1>1, <1>2 DEF Newlines
  <2>3. \A i \in Newlines(c) : i <= l
    BY <1>1, <1>2 DEF Newlines
  <2> QED
    BY <1>2, <2>1, <2>2, <2>3, LastNewlineIs
<1>6. Complete(c)
  BY <1>2, <1>5 DEF Complete
<1>7. LastNewline(a) = 0
  <2>1. 0 \in 0..Len(a)
    BY <1>3
  <2>2. ASSUME NEW i \in Newlines(a) PROVE FALSE
    <3>1. i \in 1..Len(a) /\ a[i].k = "nl" /\ Len(a) \in Nat
      BY <1>3 DEF Newlines
    <3>2. s[l + i] = a[i]
      <4>1. l + i \in 1..(Len(c) + Len(a)) /\ ~(l + i <= Len(c)) /\ (l + i) - Len(c) = i
        BY <1>1, <1>2, <1>3, <3>1
      <4>2. \A j \in 1..(Len(c) + Len(a)) : (c \o a)[j] = IF j <= Len(c) THEN c[j] ELSE a[j - Len(c)]
        BY <1>2, <1>3, ConcatProperties
      <4>3. (c \o a)[l + i] = a[(l + i) - Len(c)]
        BY <4>1, <4>2
      <4> QED
        BY <1>4, <4>1, <4>3
    <3>3. l + i \in 1..Len(s) /\ ~(l + i <= l)
      BY <1>1, <1>3, <3>1
    <3>4. l + i \in Newlines(s)
      BY <3>1, <3>2, <3>3 DEF Newlines
    <3> QED
      BY <1>1, <3>3, <3>4
  <2>3. \A i \in Newlines(a) : i <= 0
    BY <2>2
  <2> QED
    BY <1>3, <2>1, <2>3, LastNewlineIs
<1>8. Lines(a) = <<>>
  BY <1>3, <1>7, NoNewlineNoLines
<1>9. Lines(s) = Lines(c) \o <<>>
  BY <1>2, <1>3, <1>4, <1>6, <1>8, LinesConcat
<1>10. Lines(c) \in Seq(Seq(Byte))
  BY <1>2, LinesType
<1>11. Lines(c) = Lines(s)
  BY <1>9, <1>10, ConcatEmptySeq
<1> QED
  BY <1>2, <1>4, <1>6, <1>7, <1>11 DEF a, c, l

(***************************************************************************)
(* Messages.                                                               *)
(***************************************************************************)
Msg == [text : Seq(Byte), chunk : BOOLEAN, sess : Nat]

\* f[n] joins the texts of the first n messages of ms.
Joins(f, ms) ==
  /\ f[0] = <<>>
  /\ \A n \in 1..Len(ms) : f[n] = f[n - 1] \o ms[n].text
  /\ Joined(ms) = f[Len(ms)]

LEMMA JoinedUnfold ==
  ASSUME NEW ms \in Seq(Msg)
  PROVE  \E f \in [0..Len(ms) -> Seq(Byte)] : Joins(f, ms)
<1> DEFINE V == Seq(Byte)
           N == Len(ms)
           Step(v, n) == v \o ms[n].text
           step == [n \in 1..N |-> [v \in V |-> Step(v, n)]]
           Body(f) == [n \in 0..N |-> IF n = 0 THEN <<>> ELSE f[n - 1] \o ms[n].text]
           c == CHOOSE f : f = Body(f)
<1>1. N \in Nat /\ <<>> \in V
  OBVIOUS
<1>2. step \in [1..N -> [V -> V]]
  <2>1. ASSUME NEW v \in V, NEW n \in 1..N PROVE Step(v, n) \in V
    <3>1. ms[n] \in Msg
      OBVIOUS
    <3>2. ms[n].text \in Seq(Byte)
      BY <3>1 DEF Msg
    <3> QED
      BY <3>2, ConcatProperties
  <2> HIDE DEF Step, V, N
  <2> QED
    BY <2>1
<1>3. PICK g \in [0..N -> V] : g[0] = <<>> /\ \A n \in 1..N : g[n] = step[n][g[n - 1]]
  <2> DEFINE e == <<>>
  <2>1. e \in V
    OBVIOUS
  <2> HIDE DEF step, V, N, e
  <2>2. PICK g : Iterates(g, N, V, e, step)
    BY <1>1, <1>2, <2>1, RecursionExists
  <2> QED
    BY <2>2 DEF e, Iterates
<1>4. \A n \in 1..N : g[n] = Step(g[n - 1], n)
  <2> SUFFICES ASSUME NEW n \in 1..N PROVE g[n] = Step(g[n - 1], n)
    OBVIOUS
  <2>1. n - 1 \in 0..N
    BY <1>1
  <2>2. g[n - 1] \in V
    BY <1>3, <2>1
  <2>3. step[n][g[n - 1]] = Step(g[n - 1], n)
    <3> HIDE DEF Step, V, N
    <3> QED
      BY <2>2
  <2> QED
    BY <1>3, <2>3
<1>5. g = Body(g)
  <2>1. ASSUME NEW n \in 0..N PROVE g[n] = Body(g)[n]
    <3>1. CASE n = 0
      BY <1>3, <3>1
    <3>2. CASE n # 0
      <4>1. n \in 1..N
        BY <1>1, <3>2
      <4>2. g[n] = Step(g[n - 1], n)
        BY <1>4, <4>1
      <4>3. Body(g)[n] = Step(g[n - 1], n)
        BY <3>2
      <4> QED
        BY <4>2, <4>3
    <3> QED
      BY <3>1, <3>2
  <2>2. Body(g) = [n \in 0..N |-> Body(g)[n]]
    OBVIOUS
  <2>3. g = [n \in 0..N |-> g[n]]
    BY <1>3
  <2> HIDE DEF Body, N, V
  <2> QED
    BY <2>1, <2>2, <2>3
<1>6. c = Body(c)
  <2> HIDE DEF Body
  <2> QED
    BY <1>5
<1>7. c[0] = <<>> /\ \A n \in 1..N : c[n] = Step(c[n - 1], n)
  <2> DEFINE b == Body(c)
  <2>1. b[0] = <<>> /\ \A n \in 1..N : b[n] = Step(c[n - 1], n)
    <3> HIDE DEF c
    <3> QED
      BY <1>1
  <2> HIDE DEF b, c
  <2>2. b = c
    BY <1>6 DEF b
  <2> QED
    BY <2>1, <2>2
<1>8. \A n \in 0..N : c[n] = g[n]
  <2> HIDE DEF c, N, V
  <2>1. c[0] = g[0]
    BY <1>3, <1>7
  <2>2. \A n \in 1..N : c[n - 1] = g[n - 1] => c[n] = g[n]
    BY <1>4, <1>7
  <2>3. SameSteps(c, g, N)
    BY <2>1, <2>2 DEF SameSteps
  <2> HIDE DEF Step
  <2> QED
    BY <1>1, <2>3, RecursionUnique
<1>9. Joined(ms) = c[N]
  BY DEF Joined
<1>10. Joined(ms) = g[N]
  <2> HIDE DEF c, N
  <2> QED
    BY <1>1, <1>8, <1>9
<1> HIDE DEF c, step, Body
<1> QED
  BY <1>3, <1>4, <1>10 DEF Joins

LEMMA JoinedType ==
  /\ Joined(<<>>) = <<>>
  /\ \A ms \in Seq(Msg) : Joined(ms) \in Seq(Byte)
<1>1. Joined(<<>>) = <<>>
  <2> DEFINE e == <<>>
  <2>1. e \in Seq(Msg) /\ Len(e) = 0
    OBVIOUS
  <2> HIDE DEF e
  <2>2. PICK f \in [0..Len(e) -> Seq(Byte)] : Joins(f, e)
    BY <2>1, JoinedUnfold
  <2>3. Joined(e) = <<>>
    BY <2>1, <2>2 DEF Joins
  <2> QED
    BY <2>3 DEF e
<1>2. ASSUME NEW ms \in Seq(Msg) PROVE Joined(ms) \in Seq(Byte)
  <2>1. PICK f \in [0..Len(ms) -> Seq(Byte)] : Joins(f, ms)
    BY JoinedUnfold
  <2>2. Len(ms) \in 0..Len(ms)
    OBVIOUS
  <2> QED
    BY <2>1, <2>2 DEF Joins
<1> QED
  BY <1>1, <1>2

LEMMA JoinedAppend ==
  ASSUME NEW ms \in Seq(Msg), NEW m \in Msg
  PROVE  Joined(Append(ms, m)) = Joined(ms) \o m.text
<1> DEFINE t == Append(ms, m)
           N == Len(ms)
<1>1. /\ t \in Seq(Msg) /\ Len(t) = N + 1 /\ N \in Nat /\ t[N + 1] = m
      /\ \A n \in 1..N : t[n] = ms[n]
  BY AppendProperties
<1> HIDE DEF t
<1>2. PICK f \in [0..Len(ms) -> Seq(Byte)] : Joins(f, ms)
  BY JoinedUnfold
<1>3. PICK g \in [0..Len(t) -> Seq(Byte)] : Joins(g, t)
  BY <1>1, JoinedUnfold
<1>4. g[0] = f[0]
  BY <1>2, <1>3 DEF Joins
<1>5. ASSUME NEW n \in 1..N, g[n - 1] = f[n - 1] PROVE g[n] = f[n]
  <2>1. n \in 1..Len(t) /\ t[n] = ms[n]
    BY <1>1
  <2>2. g[n] = g[n - 1] \o t[n].text
    BY <1>3, <2>1 DEF Joins
  <2>3. f[n] = f[n - 1] \o ms[n].text
    BY <1>2 DEF Joins
  <2> QED
    BY <1>5, <2>1, <2>2, <2>3
<1>6. \A n \in 0..N : g[n] = f[n]
  <2> DEFINE G == {n \in 0..N : g[n] = f[n]}
  <2>1. 0 \in G
    BY <1>1, <1>4
  <2>2. \A n \in 1..N : n - 1 \in G => n \in G
    BY <1>1, <1>5
  <2> HIDE DEF G, N
  <2>3. \A n \in 0..N : n \in G
    BY <1>1, <2>1, <2>2, InductionUpTo
  <2> QED
    BY <2>3 DEF G
<1>7. g[N] = Joined(ms)
  BY <1>1, <1>2, <1>6 DEF Joins
<1>8. N + 1 \in 1..Len(t) /\ (N + 1) - 1 = N
  BY <1>1
<1>9. Joined(t) = g[N] \o t[N + 1].text
  BY <1>1, <1>3, <1>8 DEF Joins
<1> QED
  BY <1>1, <1>7, <1>9 DEF t

LEMMA JoinedConcat ==
  ASSUME NEW a \in Seq(Msg), NEW b \in Seq(Msg)
  PROVE  Joined(a \o b) = Joined(a) \o Joined(b)
<1> DEFINE G == {u \in Seq(Msg) : Joined(a \o u) = Joined(a) \o Joined(u)}
<1>1. <<>> \in G
  <2>1. a \o <<>> = a /\ Joined(a) \o <<>> = Joined(a) /\ <<>> \in Seq(Msg)
    BY JoinedType, ConcatEmptySeq
  <2> QED
    BY <2>1, JoinedType
<1>2. ASSUME NEW u \in Seq(Msg), NEW m \in Msg, u \in G PROVE Append(u, m) \in G
  <2>1. /\ a \o Append(u, m) = Append(a \o u, m) /\ a \o u \in Seq(Msg)
        /\ Append(u, m) \in Seq(Msg)
    BY ConcatAppend, ConcatProperties, AppendProperties
  <2>2. Joined(Append(a \o u, m)) = (Joined(a) \o Joined(u)) \o m.text
    BY <1>2, <2>1, JoinedAppend
  <2>3. Joined(Append(u, m)) = Joined(u) \o m.text
    BY JoinedAppend
  <2> DEFINE x == Joined(a)
             y == Joined(u)
             z == m.text
  <2>4. x \in Seq(Byte) /\ y \in Seq(Byte) /\ z \in Seq(Byte)
    BY JoinedType DEF Msg
  <2> HIDE DEF x, y, z
  <2>5. (x \o y) \o z = x \o (y \o z)
    BY <2>4, ConcatAssociative
  <2> QED
    BY <2>1, <2>2, <2>3, <2>5 DEF x, y, z
<1>3. \A u \in Seq(Msg), m \in Msg : u \in G => Append(u, m) \in G
  BY <1>2
<1> HIDE DEF G
<1>4. Seq(Msg) \subseteq G
  BY <1>1, <1>3, SequenceInduction
<1> QED
  BY <1>4 DEF G

LEMMA TextsType ==
  ASSUME NEW ms \in Seq(Msg)
  PROVE  /\ Texts(ms) \in Seq(Seq(Byte)) /\ Len(Texts(ms)) = Len(ms)
         /\ \A j \in 1..Len(ms) : Texts(ms)[j] = ms[j].text
<1>1. Len(ms) \in Nat /\ DOMAIN ms = 1..Len(ms) /\ \A j \in 1..Len(ms) : ms[j] \in Msg
  OBVIOUS
<1>2. \A j \in 1..Len(ms) : ms[j].text \in Seq(Byte)
  BY <1>1 DEF Msg
<1>3. Texts(ms) = [j \in 1..Len(ms) |-> ms[j].text]
  BY <1>1 DEF Texts
<1> QED
  BY <1>1, <1>2, <1>3

LEMMA TextsConcat ==
  ASSUME NEW a \in Seq(Msg), NEW b \in Seq(Msg)
  PROVE  Texts(a \o b) = Texts(a) \o Texts(b)
<1> DEFINE c == a \o b
           x == Texts(c)
           y == Texts(a) \o Texts(b)
<1>1. /\ c \in Seq(Msg) /\ Len(c) = Len(a) + Len(b) /\ Len(a) \in Nat /\ Len(b) \in Nat
      /\ \A i \in 1..(Len(a) + Len(b)) : c[i] = IF i <= Len(a) THEN a[i] ELSE b[i - Len(a)]
  BY ConcatProperties
<1> HIDE DEF c
<1>2. x \in Seq(Seq(Byte)) /\ Len(x) = Len(c) /\ \A j \in 1..Len(c) : x[j] = c[j].text
  BY <1>1, TextsType
<1>3. /\ Texts(a) \in Seq(Seq(Byte)) /\ Len(Texts(a)) = Len(a)
      /\ \A j \in 1..Len(a) : Texts(a)[j] = a[j].text
  BY TextsType
<1>4. /\ Texts(b) \in Seq(Seq(Byte)) /\ Len(Texts(b)) = Len(b)
      /\ \A j \in 1..Len(b) : Texts(b)[j] = b[j].text
  BY TextsType
<1>5. /\ y \in Seq(Seq(Byte)) /\ Len(y) = Len(a) + Len(b)
      /\ \A i \in 1..(Len(a) + Len(b)) :
           y[i] = IF i <= Len(a) THEN Texts(a)[i] ELSE Texts(b)[i - Len(a)]
  <2> DEFINE S == Seq(Byte)
             p == Texts(a)
             q == Texts(b)
  <2>1. p \in Seq(S) /\ q \in Seq(S) /\ Len(p) = Len(a) /\ Len(q) = Len(b)
    BY <1>3, <1>4
  <2> HIDE DEF S, p, q
  <2>2. /\ p \o q \in Seq(S) /\ Len(p \o q) = Len(p) + Len(q)
        /\ \A i \in 1..(Len(p) + Len(q)) : (p \o q)[i] = IF i <= Len(p) THEN p[i] ELSE q[i - Len(p)]
    BY <2>1, ConcatProperties
  <2> QED
    BY <2>1, <2>2 DEF S, p, q
<1> HIDE DEF x, y
<1>6. ASSUME NEW i \in 1..Len(x) PROVE x[i] = y[i]
  <2>1. i \in 1..(Len(a) + Len(b)) /\ x[i] = c[i].text
    BY <1>1, <1>2
  <2>2. CASE i <= Len(a)
    <3>1. i \in 1..Len(a)
      BY <1>1, <2>1, <2>2
    <3> QED
      BY <1>1, <1>3, <1>5, <2>1, <2>2, <3>1
  <2>3. CASE ~(i <= Len(a))
    <3>1. i - Len(a) \in 1..Len(b)
      BY <1>1, <2>1, <2>3
    <3> QED
      BY <1>1, <1>4, <1>5, <2>1, <2>3, <3>1
  <2> QED
    BY <2>2, <2>3
<1>7. Len(x) = Len(y)
  BY <1>1, <1>2, <1>5
<1>8. x = y
  <2> DEFINE S == Seq(Byte)
  <2>1. x \in Seq(S) /\ y \in Seq(S)
    BY <1>2, <1>5
  <2>2. \A i \in 1..Len(x) : x[i] = y[i]
    BY <1>6
  <2> HIDE DEF S
  <2> QED
    BY <1>7, <2>1, <2>2, SeqEqual
<1> QED
  BY <1>8 DEF x, y, c

\* The first n messages.
LEMMA FirstMessages ==
  ASSUME NEW a \in Seq(Msg), NEW n \in 0..Len(a)
  PROVE  /\ SubSeq(a, 1, n) \in Seq(Msg) /\ Len(SubSeq(a, 1, n)) = n
         /\ \A i \in 1..n : SubSeq(a, 1, n)[i] = a[i]
         /\ Texts(SubSeq(a, 1, n)) = SubSeq(Texts(a), 1, n)
<1> DEFINE p == SubSeq(a, 1, n)
           t == Texts(a)
           q == SubSeq(t, 1, n)
           x == Texts(p)
<1>1. p \in Seq(Msg) /\ Len(p) = n /\ \A i \in 1..n : p[i] = a[i]
  <2>1. n \in Int /\ 1 \in Int /\ \A i \in 1..n : a[i] \in Msg
    OBVIOUS
  <2>2. /\ p \in Seq(Msg) /\ Len(p) = IF 1 <= n THEN n - 1 + 1 ELSE 0
        /\ \A i \in 1..(n - 1 + 1) : p[i] = a[1 + i - 1]
    BY <2>1, SubSeqProperties
  <2> HIDE DEF p
  <2> QED
    BY <2>2
<1>2. t \in Seq(Seq(Byte)) /\ Len(t) = Len(a) /\ \A j \in 1..Len(a) : t[j] = a[j].text
  BY TextsType
<1> DEFINE S == Seq(Byte)
<1> HIDE DEF p, t
<1>3. q \in Seq(S) /\ Len(q) = n /\ \A i \in 1..n : q[i] = t[i]
  <2>1. n \in Int /\ 1 \in Int /\ \A i \in 1..n : t[i] \in S
    BY <1>2
  <2> HIDE DEF S
  <2>2. /\ q \in Seq(S) /\ Len(q) = IF 1 <= n THEN n - 1 + 1 ELSE 0
        /\ \A i \in 1..(n - 1 + 1) : q[i] = t[1 + i - 1]
    BY <2>1, SubSeqProperties
  <2> HIDE DEF q
  <2> QED
    BY <2>2
<1>4. x \in Seq(S) /\ Len(x) = n /\ \A j \in 1..n : x[j] = p[j].text
  BY <1>1, TextsType
<1> HIDE DEF q, x
<1>5. ASSUME NEW i \in 1..Len(x) PROVE x[i] = q[i]
  <2>1. i \in 1..n /\ i \in 1..Len(a)
    BY <1>4
  <2>2. x[i] = a[i].text
    BY <1>1, <1>4, <2>1
  <2>3. q[i] = a[i].text
    BY <1>2, <1>3, <2>1
  <2> QED
    BY <2>2, <2>3
<1>6. x = q
  <2>1. \A i \in 1..Len(x) : x[i] = q[i]
    BY <1>5
  <2> HIDE DEF S
  <2> QED
    BY <1>3, <1>4, <2>1, SeqEqual
<1> QED
  BY <1>1, <1>6 DEF p, t, q, x

\* The messages that flushCompleteLines makes of lines, from the n-th file opened.
LineMessages(ls, n) == [j \in DOMAIN ls |-> [text |-> ls[j], chunk |-> FALSE, sess |-> n]]

LEMMA LineMessagesType ==
  ASSUME NEW ls \in Seq(Seq(Byte)), NEW n \in Nat
  PROVE  /\ LineMessages(ls, n) \in Seq(Msg)
         /\ DOMAIN LineMessages(ls, n) = DOMAIN ls
         /\ \A j \in DOMAIN ls : LineMessages(ls, n)[j].sess = n /\ ~LineMessages(ls, n)[j].chunk
         /\ Texts(LineMessages(ls, n)) = ls
<1> DEFINE m == LineMessages(ls, n)
<1>1. Len(ls) \in Nat /\ DOMAIN ls = 1..Len(ls) /\ \A j \in 1..Len(ls) : ls[j] \in Seq(Byte)
  OBVIOUS
<1>2. \A j \in 1..Len(ls) : [text |-> ls[j], chunk |-> FALSE, sess |-> n] \in Msg
  BY <1>1 DEF Msg
<1>3. m \in Seq(Msg)
  BY <1>1, <1>2 DEF LineMessages
<1>4. /\ DOMAIN m = 1..Len(ls)
      /\ \A j \in 1..Len(ls) : m[j].sess = n /\ m[j].chunk = FALSE /\ m[j].text = ls[j]
  BY <1>1 DEF LineMessages
<1> HIDE DEF m
<1>5. Texts(m) = [j \in 1..Len(ls) |-> ls[j]]
  BY <1>4 DEF Texts
<1>6. ls = [j \in 1..Len(ls) |-> ls[j]]
  BY <1>1
<1> QED
  BY <1>1, <1>3, <1>4, <1>5, <1>6 DEF m

LEMMA LineMessagesAppend ==
  ASSUME NEW ls \in Seq(Seq(Byte)), NEW x \in Seq(Byte), NEW n \in Nat
  PROVE  LineMessages(Append(ls, x), n) =
           Append(LineMessages(ls, n), [text |-> x, chunk |-> FALSE, sess |-> n])
<1> DEFINE S == Seq(Byte)
           t == Append(ls, x)
           m == [text |-> x, chunk |-> FALSE, sess |-> n]
           a == LineMessages(t, n)
           b == Append(LineMessages(ls, n), m)
<1>1. ls \in Seq(S) /\ x \in S
  OBVIOUS
<1>2. /\ t \in Seq(S) /\ Len(t) = Len(ls) + 1 /\ Len(ls) \in Nat
      /\ t[Len(ls) + 1] = x /\ \A i \in 1..Len(ls) : t[i] = ls[i]
  <2> HIDE DEF S
  <2> QED
    BY <1>1, AppendProperties
<1>3. DOMAIN t = 1..(Len(ls) + 1) /\ DOMAIN ls = 1..Len(ls)
  BY <1>1, <1>2
<1> HIDE DEF t
<1>4. /\ a \in Seq(Msg) /\ Len(a) = Len(ls) + 1
      /\ \A i \in 1..(Len(ls) + 1) : a[i] = [text |-> t[i], chunk |-> FALSE, sess |-> n]
  <2>1. a \in Seq(Msg) /\ DOMAIN a = 1..(Len(ls) + 1)
    BY <1>2, <1>3, LineMessagesType
  <2>2. \A i \in 1..(Len(ls) + 1) : a[i] = [text |-> t[i], chunk |-> FALSE, sess |-> n]
    BY <1>3 DEF LineMessages
  <2> HIDE DEF a
  <2> QED
    BY <1>2, <2>1, <2>2
<1>5. /\ LineMessages(ls, n) \in Seq(Msg) /\ Len(LineMessages(ls, n)) = Len(ls)
      /\ \A i \in 1..Len(ls) :
           LineMessages(ls, n)[i] = [text |-> ls[i], chunk |-> FALSE, sess |-> n]
  <2> DEFINE l == LineMessages(ls, n)
  <2>1. l \in Seq(Msg) /\ DOMAIN l = 1..Len(ls)
    BY <1>3, LineMessagesType
  <2>2. \A i \in 1..Len(ls) : l[i] = [text |-> ls[i], chunk |-> FALSE, sess |-> n]
    BY <1>3 DEF LineMessages
  <2> HIDE DEF l
  <2>3. Len(l) = Len(ls)
    BY <1>2, <2>1
  <2> QED
    BY <2>1, <2>2, <2>3 DEF l
<1>6. m \in Msg
  BY DEF Msg
<1>7. /\ b \in Seq(Msg) /\ Len(b) = Len(ls) + 1 /\ b[Len(ls) + 1] = m
      /\ \A i \in 1..Len(ls) : b[i] = [text |-> ls[i], chunk |-> FALSE, sess |-> n]
  <2> DEFINE l == LineMessages(ls, n)
  <2>1. l \in Seq(Msg) /\ Len(l) = Len(ls)
        /\ \A i \in 1..Len(ls) : l[i] = [text |-> ls[i], chunk |-> FALSE, sess |-> n]
    BY <1>5
  <2> HIDE DEF l, m
  <2>2. /\ Append(l, m) \in Seq(Msg) /\ Len(Append(l, m)) = Len(l) + 1
        /\ \A i \in 1..Len(l) : Append(l, m)[i] = l[i] /\ Append(l, m)[Len(l) + 1] = m
    BY <1>6, <2>1, AppendProperties
  <2>3. Append(l, m)[Len(l) + 1] = m
    BY <1>6, <2>1, AppendProperties
  <2>4. b = Append(l, m)
    BY DEF l
  <2> HIDE DEF b
  <2> QED
    BY <2>1, <2>2, <2>3, <2>4
<1> HIDE DEF a, b
<1>8. ASSUME NEW i \in 1..Len(a) PROVE a[i] = b[i]
  <2>1. CASE i = Len(ls) + 1
    BY <1>2, <1>4, <1>7, <2>1
  <2>2. CASE i # Len(ls) + 1
    <3>1. i \in 1..Len(ls)
      BY <1>2, <1>4, <2>2
    <3> QED
      BY <1>2, <1>4, <1>7, <3>1
  <2> QED
    BY <2>1, <2>2
<1>9. a = b
  <2>1. \A i \in 1..Len(a) : a[i] = b[i]
    BY <1>8
  <2>2. Len(a) = Len(b)
    BY <1>4, <1>7
  <2> QED
    BY <1>4, <1>7, <2>1, <2>2, SeqEqual
<1> QED
  BY <1>9 DEF a, b, t

\* Nothing visible of a text is lost in its lines and the partial line at its end.
LEMMA LinesJoined ==
  ASSUME NEW s \in Seq(Byte), NEW n \in Nat
  PROVE  Visible(s) = Visible(Joined(LineMessages(Lines(s), n))) \o Visible(After(s))
<1> DEFINE J(u) == Visible(Joined(LineMessages(Lines(u), n)))
           G == {u \in Seq(Byte) : Visible(u) = J(u) \o Visible(After(u))}
<1>0. ASSUME NEW u \in Seq(Byte)
      PROVE  /\ Lines(u) \in Seq(Seq(Byte)) /\ LineMessages(Lines(u), n) \in Seq(Msg)
             /\ Joined(LineMessages(Lines(u), n)) \in Seq(Byte) /\ J(u) \in Seq(Byte)
             /\ After(u) \in Seq(Byte) /\ Visible(After(u)) \in Seq(Byte)
  <2>1. Lines(u) \in Seq(Seq(Byte))
    BY LinesType
  <2>2. LineMessages(Lines(u), n) \in Seq(Msg)
    BY <2>1, LineMessagesType
  <2>3. Joined(LineMessages(Lines(u), n)) \in Seq(Byte)
    BY <2>2, JoinedType
  <2> QED
    BY <2>1, <2>2, <2>3, AfterType, VisibleType
<1>1. <<>> \in G
  <2> DEFINE e == <<>>
  <2>1. LineMessages(<<>>, n) = <<>>
    BY DEF LineMessages
  <2>2. J(<<>>) = <<>>
    BY <2>1, LinesOfEmpty, JoinedType, VisibleType
  <2>3. After(<<>>) = <<>>
    <3>1. e \in Seq(Byte) /\ Len(e) = 0
      OBVIOUS
    <3> HIDE DEF e
    <3>2. Len(After(e)) = 0 - LastNewline(e) /\ LastNewline(e) \in 0..0 /\ After(e) \in Seq(Byte)
      <4>1. LastNewline(e) \in 0..Len(e)
        BY <3>1, LastNewlineInRange
      <4> QED
        BY <3>1, <4>1, AfterType
    <3>3. Len(After(e)) = 0
      BY <3>2
    <3>4. After(e) = <<>>
      BY <3>2, <3>3, EmptySeq
    <3> QED
      BY <3>4 DEF e
  <2>4. <<>> \o <<>> = <<>> /\ <<>> \in Seq(Byte)
    OBVIOUS
  <2> QED
    BY <2>2, <2>3, <2>4, VisibleType
<1>2. ASSUME NEW u \in Seq(Byte), NEW b \in Byte, u \in G PROVE Append(u, b) \in G
  <2> DEFINE t == Append(u, b)
             x == Strip(After(u))
             L == Lines(u)
             v == Visible(After(u))
             j == J(u)
  <2>1. t \in Seq(Byte) /\ After(u) \in Seq(Byte) /\ x \in Seq(Byte)
    BY AppendProperties, AfterType, VisibleType
  <2>2. Visible(u) = j \o v /\ j \in Seq(Byte) /\ v \in Seq(Byte)
    BY <1>0, <1>2
  <2>3. CASE b.k = "nl"
    <3>1. Visible(t) = Visible(u) /\ After(t) = <<>>
      BY <2>3, VisibleAppend, AfterAppend
    <3>2. J(t) = j \o v
      <4>1. CASE x # <<>>
        <5> DEFINE m == [text |-> x, chunk |-> FALSE, sess |-> n]
                   ms == LineMessages(L, n)
        <5>1. Lines(t) = Append(L, x)
          BY <2>3, <4>1, LinesAppend
        <5>2. L \in Seq(Seq(Byte)) /\ ms \in Seq(Msg) /\ Joined(ms) \in Seq(Byte)
          BY <1>0
        <5>3. m \in Msg /\ m.text = x
          BY <2>1 DEF Msg
        <5>4. LineMessages(Append(L, x), n) = Append(ms, m)
          <6> HIDE DEF L, x
          <6> QED
            BY <2>1, <5>2, LineMessagesAppend
        <5>5. Joined(Append(ms, m)) = Joined(ms) \o x
          <6> HIDE DEF ms, m, x
          <6> QED
            BY <5>2, <5>3, JoinedAppend
        <5>6. Visible(Joined(ms) \o x) = Visible(Joined(ms)) \o Visible(x)
          <6> HIDE DEF ms, x
          <6> QED
            BY <2>1, <5>2, VisibleConcat
        <5>7. Visible(x) = v
          BY <2>1, VisibleStrip
        <5> HIDE DEF m, ms, x, v, t
        <5>8. J(t) = Visible(Joined(ms)) \o v
          BY <5>1, <5>4, <5>5, <5>6, <5>7
        <5> QED
          BY <5>8 DEF ms
      <4>2. CASE x = <<>>
        <5>1. Lines(t) = L
          BY <2>3, <4>2, LinesAppend
        <5>2. v = <<>>
          BY <2>1, <4>2, VisibleStrip, VisibleType
        <5>3. j \o <<>> = j
          <6> HIDE DEF j
          <6> QED
            BY <2>2, ConcatEmptySeq
        <5> HIDE DEF t, x, v
        <5>4. J(t) = j
          BY <5>1
        <5> QED
          BY <5>2, <5>3, <5>4
      <4> QED
        BY <4>1, <4>2
    <3>3. (j \o v) \o <<>> = j \o v
      <4> HIDE DEF j, v
      <4> QED
        BY <2>2, ConcatProperties, ConcatEmptySeq
    <3> HIDE DEF t, J, j, v
    <3>4. Visible(t) = J(t) \o Visible(After(t))
      BY <2>2, <3>1, <3>2, <3>3, VisibleType
    <3> QED
      BY <2>1, <3>4 DEF t
  <2>4. CASE b.k # "nl"
    <3>1. Lines(t) = L /\ After(t) = Append(After(u), b)
      BY <2>4, LinesAppend, AfterAppend
    <3>2. J(t) = j
      <4> HIDE DEF t
      <4> QED
        BY <3>1
    <3>3. CASE b.k = "ch"
      <4>1. Visible(t) = Append(Visible(u), b)
        BY <3>3, VisibleAppend
      <4>2. Visible(After(t)) = Append(v, b)
        <5>1. Visible(Append(After(u), b)) = Append(Visible(After(u)), b)
          BY <2>1, <3>3, VisibleAppend
        <5> HIDE DEF t
        <5> QED
          BY <3>1, <5>1
      <4> HIDE DEF j, v, t, J
      <4>3. j \o Append(v, b) = Append(j \o v, b)
        BY <2>2, ConcatAppend
      <4>4. Visible(t) = J(t) \o Visible(After(t))
        BY <2>2, <3>2, <4>1, <4>2, <4>3
      <4> QED
        BY <2>1, <4>4 DEF t
    <3>4. CASE b.k # "ch"
      <4>1. Visible(t) = Visible(u)
        BY <3>4, VisibleAppend
      <4>2. Visible(After(t)) = v
        <5>1. Visible(Append(After(u), b)) = Visible(After(u))
          BY <2>1, <3>4, VisibleAppend
        <5> HIDE DEF t
        <5> QED
          BY <3>1, <5>1
      <4> HIDE DEF j, v, t, J
      <4>3. Visible(t) = J(t) \o Visible(After(t))
        BY <2>2, <3>2, <4>1, <4>2
      <4> QED
        BY <2>1, <4>3 DEF t
    <3> QED
      BY <3>3, <3>4
  <2> QED
    BY <2>3, <2>4
<1>3. \A u \in Seq(Byte), b \in Byte : u \in G => Append(u, b) \in G
  BY <1>2
<1> HIDE DEF G
<1>4. Seq(Byte) \subseteq G
  BY <1>1, <1>3, SequenceInduction
<1> QED
  BY <1>4 DEF G

\* The messages made from the n-th file opened.
OfSession(ms, n) == Selected(ms, {j \in DOMAIN ms : ms[j].sess = n})

LEMMA OfSessionAppend ==
  ASSUME NEW ms \in Seq(Msg), NEW m \in Msg, NEW n
  PROVE  OfSession(Append(ms, m), n) =
           IF m.sess = n THEN Append(OfSession(ms, n), m) ELSE OfSession(ms, n)
<1> DEFINE t == Append(ms, m)
           P == {i \in DOMAIN ms : ms[i].sess = n}
           Q == {i \in DOMAIN t : t[i].sess = n}
<1>1. /\ t \in Seq(Msg) /\ Len(t) = Len(ms) + 1 /\ t[Len(ms) + 1] = m
      /\ \A i \in 1..Len(ms) : t[i] = ms[i]
  BY AppendProperties
<1>2. DOMAIN t = 1..(Len(ms) + 1) /\ DOMAIN ms = 1..Len(ms) /\ Len(ms) \in Nat
  BY <1>1
<1>3. \A i \in 1..Len(ms) : i \in P <=> i \in Q
  <2> HIDE DEF t
  <2> QED
    BY <1>1, <1>2
<1>4. Len(ms) + 1 \in Q <=> m.sess = n
  <2> HIDE DEF t
  <2> QED
    BY <1>1, <1>2
<1> HIDE DEF P, Q
<1>5. Selected(t, Q) = IF Len(ms) + 1 \in Q THEN Append(Selected(ms, P), m) ELSE Selected(ms, P)
  BY <1>3, SelectedAppend
<1>6. OfSession(t, n) = Selected(t, Q) /\ OfSession(ms, n) = Selected(ms, P)
  BY DEF OfSession, P, Q
<1> QED
  BY <1>4, <1>5, <1>6

LEMMA OfSessionType ==
  ASSUME NEW ms \in Seq(Msg), NEW n
  PROVE  OfSession(ms, n) \in Seq(Msg)
  BY SelectedType DEF OfSession

LEMMA OfSessionConcat ==
  ASSUME NEW a \in Seq(Msg), NEW n, NEW b \in Seq(Msg), \A i \in DOMAIN b : b[i].sess = n
  PROVE  OfSession(a \o b, n) = OfSession(a, n) \o b
<1> DEFINE All(u) == \A i \in DOMAIN u : u[i].sess = n
           o == OfSession(a, n)
           G == {u \in Seq(Msg) : All(u) => OfSession(a \o u, n) = o \o u}
<1>0. o \in Seq(Msg)
  BY OfSessionType
<1>1. <<>> \in G
  <2>1. a \o <<>> = a /\ <<>> \in Seq(Msg)
    BY ConcatEmptySeq
  <2>2. o \o <<>> = o
    <3> HIDE DEF o
    <3> QED
      BY <1>0, ConcatEmptySeq
  <2> QED
    BY <2>1, <2>2
<1>2. ASSUME NEW u \in Seq(Msg), NEW m \in Msg, u \in G PROVE Append(u, m) \in G
  <2> DEFINE t == Append(u, m)
  <2>1. /\ t \in Seq(Msg) /\ Len(t) = Len(u) + 1 /\ t[Len(u) + 1] = m /\ Len(u) \in Nat
        /\ \A i \in 1..Len(u) : t[i] = u[i]
    BY AppendProperties
  <2>2. a \o t = Append(a \o u, m) /\ a \o u \in Seq(Msg)
    BY ConcatAppend, ConcatProperties
  <2>3. o \o t = Append(o \o u, m)
    <3> HIDE DEF o
    <3> QED
      BY <1>0, ConcatAppend
  <2> HIDE DEF t
  <2>4. ASSUME All(t) PROVE OfSession(a \o t, n) = o \o t
    <3>1. All(u) /\ m.sess = n
      <4>1. DOMAIN t = 1..(Len(u) + 1) /\ DOMAIN u = 1..Len(u)
        BY <2>1
      <4>2. Len(u) + 1 \in DOMAIN t /\ \A i \in DOMAIN u : i \in DOMAIN t
        BY <2>1, <4>1
      <4> QED
        BY <2>1, <2>4, <4>1, <4>2
    <3>2. OfSession(a \o u, n) = o \o u
      BY <1>2, <3>1
    <3>3. OfSession(Append(a \o u, m), n) = Append(OfSession(a \o u, n), m)
      BY <2>2, <3>1, OfSessionAppend
    <3> HIDE DEF o
    <3> QED
      BY <2>2, <2>3, <3>2, <3>3
  <2> QED
    BY <2>1, <2>4 DEF t
<1>3. \A u \in Seq(Msg), m \in Msg : u \in G => Append(u, m) \in G
  BY <1>2
<1> HIDE DEF G
<1>4. Seq(Msg) \subseteq G
  BY <1>1, <1>3, SequenceInduction
<1> QED
  BY <1>4 DEF G

LEMMA OfSessionNone ==
  ASSUME NEW n, NEW ms \in Seq(Msg), \A i \in DOMAIN ms : ms[i].sess # n
  PROVE  OfSession(ms, n) = <<>>
<1> DEFINE None(u) == \A i \in DOMAIN u : u[i].sess # n
           G == {u \in Seq(Msg) : None(u) => OfSession(u, n) = <<>>}
<1>1. <<>> \in G
  BY SelectedOfEmpty DEF OfSession
<1>2. ASSUME NEW u \in Seq(Msg), NEW m \in Msg, u \in G PROVE Append(u, m) \in G
  <2> DEFINE t == Append(u, m)
  <2>1. /\ t \in Seq(Msg) /\ Len(t) = Len(u) + 1 /\ t[Len(u) + 1] = m /\ Len(u) \in Nat
        /\ \A i \in 1..Len(u) : t[i] = u[i]
    BY AppendProperties
  <2>2. OfSession(t, n) = IF m.sess = n THEN Append(OfSession(u, n), m) ELSE OfSession(u, n)
    BY OfSessionAppend
  <2> HIDE DEF t
  <2>3. DOMAIN t = 1..(Len(u) + 1) /\ DOMAIN u = 1..Len(u)
    BY <2>1
  <2>4. Len(u) + 1 \in DOMAIN t /\ \A i \in DOMAIN u : i \in DOMAIN t
    BY <2>1, <2>3
  <2>5. None(t) => None(u) /\ m.sess # n
    BY <2>1, <2>3, <2>4
  <2> QED
    BY <1>2, <2>1, <2>2, <2>5 DEF t
<1>3. \A u \in Seq(Msg), m \in Msg : u \in G => Append(u, m) \in G
  BY <1>2
<1> HIDE DEF G
<1>4. Seq(Msg) \subseteq G
  BY <1>1, <1>3, SequenceInduction
<1> QED
  BY <1>4 DEF G

(***************************************************************************)
(* The inductive invariants about what is published.                       *)
(***************************************************************************)
\* The messages are made from the files opened so far, those of the batch from the open
\* one, and a batch is only there to be published.
MessagesOK ==
  /\ sent \in Seq(Msg) /\ batch \in Seq(Msg)
  /\ \A j \in DOMAIN sent : sent[j].sess <= sess
  /\ \A j \in DOMAIN batch : batch[j].sess = sess
  /\ pc \notin {"publish", "publishErr"} => batch = <<>>

\* What was read of the open file and is not in lineBuffer any more.
Flushed == SubSeq(data[fd], start + 1, offset - Len(lineBuffer))

Unchunked == \A j \in DOMAIN FromOpenFile : ~FromOpenFile[j].chunk

\* What left lineBuffer is in the messages, and while no line was cut it left it line by
\* line: what is left has no newline.
FlushOK ==
  fd # NoFile =>
    /\ start + Len(lineBuffer) <= offset
    /\ ~truncated => Visible(Flushed) = Visible(Joined(FromOpenFile))
    /\ ~truncated /\ Unchunked =>
         /\ Complete(Flushed) /\ LastNewline(lineBuffer) = 0
         /\ Texts(FromOpenFile) = Lines(Flushed)

(***************************************************************************)
(* flushCompleteLines.                                                     *)
(***************************************************************************)
\* The bytes that leave the buffer s are, in order and stripped, in the messages.
LEMMA FlushTakes ==
  ASSUME NEW s \in Seq(Byte), Len(s) <= MaxLine + ReadBuf, sess \in Nat
  PROVE  LET c == SubSeq(s, 1, Len(s) - Len(Rest(s)))
         IN  /\ c \in Seq(Byte)
             /\ Batch(s) \in Seq(Msg) /\ \A j \in DOMAIN Batch(s) : Batch(s)[j].sess = sess
             /\ Visible(c) = Visible(Joined(Batch(s)))
<1> DEFINE r == IF Oversized(s) THEN MaxLine ELSE LastNewline(s)
           c == SubSeq(s, 1, Len(s) - Len(Rest(s)))
<1>1. Len(s) \in Nat /\ r \in 0..Len(s)
  BY LastNewlineInRange, TailerAssumption DEF Oversized
<1>2. Len(s) - Len(Rest(s)) = r
  <2>1. \A i \in (r + 1)..Len(s) : s[i] \in Byte
    BY <1>1
  <2>2. Rest(s) = SubSeq(s, r + 1, Len(s))
    BY DEF Rest
  <2> HIDE DEF r
  <2>3. Len(Rest(s)) = Len(s) - r
    BY <1>1, <2>1, <2>2, SubSeqProperties
  <2> QED
    BY <1>1, <2>3
<1>3. c = SubSeq(s, 1, r) /\ c \in Seq(Byte)
  <2> HIDE DEF r
  <2>1. r \in Int /\ \A i \in 1..r : s[i] \in Byte
    BY <1>1
  <2> QED
    BY <1>2, <2>1, SubSeqProperties
<1> HIDE DEF c
<1>4. CASE Oversized(s)
  <2> DEFINE m == [text |-> c, chunk |-> TRUE, sess |-> sess]
  <2>1. m \in Msg /\ m.text = c /\ m.sess = sess
    BY <1>3 DEF Msg
  <2>2. Batch(s) = <<m>>
    BY <1>3, <1>4 DEF Batch, Message
  <2> HIDE DEF m
  <2>3. <<m>> = Append(<<>>, m) /\ <<>> \in Seq(Msg) /\ <<m>> \in Seq(Msg)
        /\ \A j \in DOMAIN <<m>> : <<m>>[j] = m
    BY <2>1
  <2>4. Joined(<<m>>) = <<>> \o c
    BY <2>1, <2>3, JoinedAppend, JoinedType
  <2>5. <<>> \o c = c
    BY <1>3, ConcatEmptySeq
  <2> QED
    BY <1>3, <2>1, <2>2, <2>3, <2>4, <2>5 DEF c
<1>5. CASE ~Oversized(s)
  <2>1. Lines(s) \in Seq(Seq(Byte))
    BY LinesType
  <2>2. Batch(s) = LineMessages(Lines(s), sess)
    BY <1>5 DEF Batch, LineMessages, Message
  <2>3. Batch(s) \in Seq(Msg) /\ \A j \in DOMAIN Batch(s) : Batch(s)[j].sess = sess
    BY <2>1, <2>2, LineMessagesType
  <2>4. c = SubSeq(s, 1, LastNewline(s))
    BY <1>3, <1>5
  <2>5. Complete(c) /\ Lines(c) = Lines(s)
    BY <2>4, LinesOfComplete
  <2>6. After(c) = <<>>
    <3>1. SubSeq(c, Len(c) + 1, Len(c)) = <<>>
      BY <1>3, SubSeqEmpty
    <3> QED
      BY <2>5, <3>1 DEF After, Complete
  <2>7. Visible(c) = Visible(Joined(LineMessages(Lines(c), sess))) \o Visible(After(c))
    BY <1>3, LinesJoined
  <2>8. Visible(Joined(Batch(s))) \in Seq(Byte)
    BY <2>3, JoinedType, VisibleType
  <2>9. Visible(Joined(Batch(s))) \o <<>> = Visible(Joined(Batch(s)))
    <3> DEFINE v == Visible(Joined(Batch(s)))
    <3>1. v \in Seq(Byte)
      BY <2>8
    <3> HIDE DEF v
    <3>2. v \o <<>> = v
      BY <3>1, ConcatEmptySeq
    <3> QED
      BY <3>2 DEF v
  <2>10. Visible(c) = Visible(Joined(Batch(s)))
    BY <2>2, <2>5, <2>6, <2>7, <2>9, VisibleType
  <2> QED
    BY <1>3, <2>3, <2>10 DEF c
<1> QED
  BY <1>4, <1>5

\* While the buffer is not too long, whole lines leave it.
LEMMA FlushTakesLines ==
  ASSUME NEW s \in Seq(Byte), Len(s) <= MaxLine + ReadBuf, sess \in Nat, ~Oversized(s)
  PROVE  LET c == SubSeq(s, 1, Len(s) - Len(Rest(s)))
         IN  /\ Complete(c) /\ LastNewline(Rest(s)) = 0
             /\ Lines(c) = Lines(s) /\ Texts(Batch(s)) = Lines(s)
             /\ Len(s) - Len(Rest(s)) = LastNewline(s)
<1>1. LastNewline(s) \in 0..Len(s) /\ Len(s) \in Nat
  BY LastNewlineInRange
<1>2. Rest(s) = After(s)
  BY DEF Rest, After
<1>3. Len(s) - Len(Rest(s)) = LastNewline(s)
  <2>1. Len(After(s)) = Len(s) - LastNewline(s)
    BY AfterType
  <2> QED
    BY <1>1, <1>2, <2>1
<1>4. Lines(s) \in Seq(Seq(Byte))
  BY LinesType
<1>5. Batch(s) = LineMessages(Lines(s), sess)
  BY DEF Batch, LineMessages, Message
<1>6. Texts(Batch(s)) = Lines(s)
  BY <1>4, <1>5, LineMessagesType
<1> QED
  BY <1>2, <1>3, <1>6, LinesOfComplete

\* A cut chunk is in the batch, as it was.
LEMMA FlushCuts ==
  ASSUME NEW s \in Seq(Byte), Len(s) <= MaxLine + ReadBuf, sess \in Nat, Oversized(s)
  PROVE  /\ 1 \in DOMAIN Batch(s) /\ Batch(s)[1].chunk
         /\ Texts(Batch(s)) = <<SubSeq(s, 1, MaxLine)>>
         /\ Len(s) - Len(Rest(s)) = MaxLine
<1> DEFINE m == [text |-> SubSeq(s, 1, MaxLine), chunk |-> TRUE, sess |-> sess]
<1>1. Batch(s) = <<m>>
  BY DEF Batch, Message
<1>2. m.chunk /\ m.text = SubSeq(s, 1, MaxLine)
  OBVIOUS
<1> HIDE DEF m
<1>3. 1 \in DOMAIN <<m>> /\ <<m>>[1] = m
  OBVIOUS
<1>4. Texts(<<m>>) = <<m.text>>
  BY DEF Texts
<1>5. Len(s) - Len(Rest(s)) = MaxLine
  <2>1. MaxLine \in 0..Len(s) /\ Len(s) \in Nat
    BY TailerAssumption DEF Oversized
  <2>2. \A i \in (MaxLine + 1)..Len(s) : s[i] \in Byte
    BY <2>1
  <2>3. Rest(s) = SubSeq(s, MaxLine + 1, Len(s))
    BY DEF Rest
  <2>4. Len(Rest(s)) = Len(s) - MaxLine
    BY <2>1, <2>2, <2>3, SubSeqProperties
  <2> QED
    BY <2>1, <2>4
<1> QED
  BY <1>1, <1>2, <1>3, <1>4, <1>5

(***************************************************************************)
(* A read.                                                                 *)
(***************************************************************************)
\* lineBuffer with n more bytes of the open file.
Buffer(n) == lineBuffer \o SubSeq(data[fd], offset + 1, offset + n)

\* What Read does with the n bytes that ReadAt returns.
ReadsBytes(n) ==
  /\ n \in Nat /\ offset' = offset + n /\ n <= ReadBuf
  /\ n = 0 => UNCHANGED <<batch, lineBuffer>>
  /\ n > 0 => /\ offset + n <= Len(data[fd])
              /\ Buffer(n) \in Seq(Byte) /\ Len(Buffer(n)) = Len(lineBuffer) + n
              /\ Len(Buffer(n)) <= MaxLine + ReadBuf
              /\ batch' = Batch(Buffer(n)) /\ lineBuffer' = Rest(Buffer(n))

LEMMA ReadEffect ==
  ASSUME IInv, Read
  PROVE  /\ \E n : ReadsBytes(n)
         /\ fd \in Inodes /\ fd # NoFile /\ pc = "read" /\ pc' \in {"publish", "publishErr"}
         /\ UNCHANGED <<dir, data, written, fd, sent, sess, start, truncated, faulted, restarts, startId>>
<1> USE DEF IInv, TypeOK
<1>1. fd \in Inodes /\ fd # NoFile /\ data[fd] \in Seq(Byte) /\ Len(data[fd]) \in Nat
  BY TailerAssumption DEF Read, At, FileOpenWhenUsed, FileType, DiskType
<1>2. Available \in Nat /\ Available <= ReadBuf
      /\ (Available > 0 => offset + Available <= Len(data[fd]))
  BY <1>1, TailerAssumption DEF Available, Size, FileType
<1>3. PICK n \in 0..Available : ReadAndFlush(n)
  BY <1>2 DEF Read
<1>4. n \in Nat /\ n <= ReadBuf /\ (n > 0 => offset + n <= Len(data[fd]))
  <2>1. n \in Nat /\ n <= Available /\ offset \in Nat
    BY <1>2 DEF FileType
  <2> QED
    BY <1>1, <1>2, <2>1, TailerAssumption
<1>5. ASSUME n > 0
      PROVE  /\ Buffer(n) \in Seq(Byte) /\ Len(Buffer(n)) = Len(lineBuffer) + n
             /\ Len(Buffer(n)) <= MaxLine + ReadBuf
  <2> DEFINE chunk == SubSeq(data[fd], offset + 1, offset + n)
  <2>1. \A x \in (offset + 1)..(offset + n) : data[fd][x] \in Byte
    BY <1>1, <1>4, <1>5 DEF FileType
  <2>2. chunk \in Seq(Byte) /\ Len(chunk) = n
    BY <1>4, <1>5, <2>1, SubSeqProperties DEF FileType
  <2>3. Buffer(n) = lineBuffer \o chunk
    BY DEF Buffer
  <2> HIDE DEF chunk
  <2>4. Buffer(n) \in Seq(Byte) /\ Len(Buffer(n)) = Len(lineBuffer) + n
    BY <2>2, <2>3, ConcatProperties DEF FileType
  <2> QED
    BY <1>4, <2>4, TailerAssumption DEF FileType, BufferBounded
<1>6. /\ offset' = offset + n
      /\ n = 0 => UNCHANGED <<batch, lineBuffer>>
      /\ n > 0 => batch' = Batch(Buffer(n)) /\ lineBuffer' = Rest(Buffer(n))
  BY <1>3, <1>4 DEF ReadAndFlush, Buffer
<1>7. ReadsBytes(n)
  BY <1>4, <1>5, <1>6 DEF ReadsBytes
<1>8. pc = "read" /\ pc' \in {"publish", "publishErr"}
  BY DEF Read, At, Goto
<1>9. UNCHANGED <<dir, data, written, fd, sent, sess, start, truncated, faulted, restarts, startId>>
  BY DEF Read, IOError, disk, env, session, seen
<1> QED
  BY <1>1, <1>7, <1>8, <1>9

(***************************************************************************)
(* MessagesOK is preserved.                                                *)
(***************************************************************************)
\* A step that makes no message and publishes none.
LEMMA MessagesSame ==
  ASSUME MessagesOK, UNCHANGED <<sent, batch, sess>>,
         pc' = pc \/ pc \notin {"publish", "publishErr"}
  PROVE  MessagesOK'
  BY DEF MessagesOK

\* All messages come from files opened so far.
LEMMA AllOfSessions ==
  ASSUME MessagesOK, sess \in Nat
  PROVE  /\ sent \o batch \in Seq(Msg)
         /\ \A j \in DOMAIN (sent \o batch) : (sent \o batch)[j].sess <= sess
         /\ \A n \in 0..Len(batch) :
              /\ sent \o SubSeq(batch, 1, n) \in Seq(Msg)
              /\ \A j \in DOMAIN (sent \o SubSeq(batch, 1, n)) :
                   (sent \o SubSeq(batch, 1, n))[j].sess <= sess
<1>1. ASSUME NEW b \in Seq(Msg), \A j \in DOMAIN b : b[j].sess = sess
      PROVE  /\ sent \o b \in Seq(Msg)
             /\ \A j \in DOMAIN (sent \o b) : (sent \o b)[j].sess <= sess
  <2> DEFINE c == sent \o b
  <2>1. /\ c \in Seq(Msg) /\ Len(c) = Len(sent) + Len(b)
        /\ \A i \in 1..(Len(sent) + Len(b)) :
             c[i] = IF i <= Len(sent) THEN sent[i] ELSE b[i - Len(sent)]
    BY ConcatProperties DEF MessagesOK
  <2>2. Len(sent) \in Nat /\ Len(b) \in Nat /\ DOMAIN sent = 1..Len(sent) /\ DOMAIN b = 1..Len(b)
    BY DEF MessagesOK
  <2> HIDE DEF c
  <2>3. ASSUME NEW j \in DOMAIN c PROVE c[j].sess <= sess
    <3>1. j \in 1..(Len(sent) + Len(b))
      BY <2>1
    <3>2. CASE j <= Len(sent)
      <4>1. j \in DOMAIN sent /\ c[j] = sent[j]
        BY <2>1, <2>2, <3>1, <3>2
      <4> QED
        BY <4>1 DEF MessagesOK
    <3>3. CASE ~(j <= Len(sent))
      <4>1. j - Len(sent) \in DOMAIN b /\ c[j] = b[j - Len(sent)]
        BY <2>1, <2>2, <3>1, <3>3
      <4>2. c[j].sess = sess
        BY <1>1, <4>1
      <4> QED
        BY <4>2
    <3> QED
      BY <3>2, <3>3
  <2> QED
    BY <2>1, <2>3 DEF c
<1>2. ASSUME NEW n \in 0..Len(batch)
      PROVE  /\ SubSeq(batch, 1, n) \in Seq(Msg)
             /\ \A j \in DOMAIN SubSeq(batch, 1, n) : SubSeq(batch, 1, n)[j].sess = sess
  <2> DEFINE b == SubSeq(batch, 1, n)
  <2>1. b \in Seq(Msg) /\ Len(b) = n /\ \A i \in 1..n : b[i] = batch[i]
    BY FirstMessages DEF MessagesOK
  <2>2. Len(batch) \in Nat /\ DOMAIN batch = 1..Len(batch)
    BY DEF MessagesOK
  <2> HIDE DEF b
  <2>3. DOMAIN b = 1..n
    BY <2>1
  <2>4. \A i \in 1..n : i \in DOMAIN batch
    BY <2>2
  <2>5. \A j \in DOMAIN b : b[j].sess = sess
    BY <2>1, <2>3, <2>4 DEF MessagesOK
  <2> QED
    BY <2>1, <2>5 DEF b
<1>3. /\ sent \o batch \in Seq(Msg)
      /\ \A j \in DOMAIN (sent \o batch) : (sent \o batch)[j].sess <= sess
  BY <1>1 DEF MessagesOK
<1> QED
  BY <1>1, <1>2, <1>3

LEMMA NoMessages == <<>> \in Seq(Msg) /\ DOMAIN <<>> = {}
  OBVIOUS

LEMMA NextMessages == IInv /\ MessagesOK /\ [Next]_vars => MessagesOK'
<1> SUFFICES ASSUME IInv, MessagesOK, [Next]_vars PROVE MessagesOK'
  OBVIOUS
<1>0. sess \in Nat
  BY DEF IInv, TypeOK, HistoryType
<1>1. CASE FileSystem \/ Cancel \/ UNCHANGED vars
  <2>1. UNCHANGED <<sent, batch, sess, pc>>
    BY <1>1 DEF FileSystem, Write, NewFile, Remove, Truncate, Cancel, vars, tailer, out, session
  <2> QED
    BY <2>1, MessagesSame
<1>2. CASE LoopTop \/ FindFile \/ OpenStat \/ CheckPresent \/ CheckReplaced \/ StatCurrent
           \/ FindNewer \/ StatFile \/ Restat \/ AfterDrain \/ Wake
  <2>1. UNCHANGED <<sent, batch, sess>>
    BY <1>2 DEF LoopTop, FindFile, OpenStat, OpenFails, CheckPresent, CheckReplaced, StatCurrent,
      FindNewer, StatFile, Restat, AfterDrain, Wake, out, session
  <2>2. pc \notin {"publish", "publishErr"}
    BY <1>2 DEF LoopTop, FindFile, OpenStat, CheckPresent, CheckReplaced, StatCurrent,
      FindNewer, StatFile, Restat, AfterDrain, Wake, At
  <2> QED
    BY <2>1, <2>2, MessagesSame
<1>3. CASE OpenFile
  <2>1. UNCHANGED <<sent, batch>> /\ sess' \in {sess, sess + 1} /\ pc = "open2"
    BY <1>3 DEF OpenFile, OpenFails, At, out, session
  <2>2. batch = <<>> /\ batch' = <<>>
    BY <2>1 DEF MessagesOK
  <2>3. sess <= sess'
    BY <1>0, <2>1
  <2>4. ASSUME NEW j \in DOMAIN sent' PROVE sent'[j].sess <= sess'
    <3>1. sent[j].sess <= sess /\ sent[j] \in Msg
      BY <2>1, <2>4 DEF MessagesOK
    <3>2. sent[j].sess \in Nat
      BY <3>1 DEF Msg
    <3> QED
      BY <1>0, <2>1, <2>3, <3>1, <3>2
  <2> QED
    BY <2>1, <2>2, <2>4, NoMessages DEF MessagesOK
<1>4. CASE Read
  <2>1. PICK n : ReadsBytes(n)
    BY <1>4, ReadEffect
  <2>2. pc = "read" /\ pc' \in {"publish", "publishErr"} /\ sent' = sent /\ sess' = sess
    BY <1>4, ReadEffect
  <2>3. batch = <<>>
    BY <2>2 DEF MessagesOK
  <2>4. batch' \in Seq(Msg) /\ \A j \in DOMAIN batch' : batch'[j].sess = sess
    <3>1. CASE n = 0
      BY <2>1, <2>3, <3>1, NoMessages DEF ReadsBytes
    <3>2. CASE n # 0
      <4>1. /\ Buffer(n) \in Seq(Byte) /\ Len(Buffer(n)) <= MaxLine + ReadBuf
            /\ batch' = Batch(Buffer(n))
        BY <2>1, <3>2 DEF ReadsBytes
      <4> QED
        BY <1>0, <4>1, FlushTakes
    <3> QED
      BY <3>1, <3>2
  <2> QED
    BY <2>2, <2>4 DEF MessagesOK
<1>5. CASE PublishBatch
  <2>1. sent' = sent \o batch /\ batch' = <<>> /\ sess' = sess
    BY <1>5 DEF PublishBatch, session
  <2> QED
    BY <1>0, <2>1, AllOfSessions, NoMessages DEF MessagesOK
<1>6. CASE Panic
  <2>1. PICK n \in 0..Len(batch) : sent' = sent \o SubSeq(batch, 1, n)
    BY <1>6 DEF Panic
  <2>2. batch' = <<>> /\ sess' = sess
    BY <1>6 DEF Panic, session
  <2> QED
    BY <1>0, <2>1, <2>2, AllOfSessions, NoMessages DEF MessagesOK
<1> QED
  BY <1>1, <1>2, <1>3, <1>4, <1>5, <1>6 DEF Next, Run, Returned

LEMMA SpecMessages == Spec => [](IInv /\ MessagesOK)
<1>1. Init => MessagesOK
  BY NoMessages DEF Init, MessagesOK
<1> QED
  BY <1>1, InitIInv, NextIInv, NextMessages, PTL DEF Spec

(***************************************************************************)
(* FlushOK is preserved.                                                   *)
(***************************************************************************)
LEMMA FromIsOfSession == FromOpenFile = OfSession(sent \o batch, sess)
  BY DEF FromOpenFile, OfSession

\* A step that leaves alone what was read of the open file and the messages made of it.
LEMMA FlushSame ==
  ASSUME FlushOK, UNCHANGED <<fd, offset, lineBuffer, start, sess>>,
         sent' \o batch' = sent \o batch, truncated => truncated',
         fd # NoFile /\ ~truncated' => Flushed' = Flushed
  PROVE  FlushOK'
<1>1. FromOpenFile' = FromOpenFile
  BY DEF FromOpenFile
<1>2. Unchunked' <=> Unchunked
  BY <1>1 DEF Unchunked
<1> QED
  BY <1>1, <1>2 DEF FlushOK

LEMMA FlushClosed == ASSUME fd' = NoFile PROVE FlushOK'
  BY DEF FlushOK

LEMMA CompleteConcat ==
  ASSUME NEW a \in Seq(Byte), NEW b \in Seq(Byte), Complete(a), Complete(b)
  PROVE  Complete(a \o b)
<1> DEFINE c == a \o b
<1>1. c \in Seq(Byte) /\ After(c) = After(b)
  BY ConcatProperties, LinesConcat
<1> HIDE DEF c
<1>2. Len(After(b)) = Len(b) - LastNewline(b) /\ Len(After(c)) = Len(c) - LastNewline(c)
  BY <1>1, AfterType
<1>3. /\ LastNewline(b) \in 0..Len(b) /\ LastNewline(c) \in 0..Len(c)
      /\ Len(b) \in Nat /\ Len(c) \in Nat
  BY <1>1, LastNewlineInRange
<1>4. Len(After(b)) = 0
  BY <1>2, <1>3 DEF Complete
<1>5. Complete(c)
  BY <1>1, <1>2, <1>3, <1>4 DEF Complete
<1> QED
  BY <1>5 DEF c

\* The first bytes of a slice of d are the slice with the same beginning.
LEMMA PrefixOfSlice ==
  ASSUME NEW d \in Seq(Byte), NEW i \in Nat, NEW j \in Nat, NEW m \in Nat,
         1 <= i, j <= Len(d), m <= j - i + 1
  PROVE  SubSeq(SubSeq(d, i, j), 1, m) = SubSeq(d, i, i + m - 1)
<1> DEFINE s == SubSeq(d, i, j)
           t == SubSeq(s, 1, m)
           u == SubSeq(d, i, i + m - 1)
<1>1. /\ s \in Seq(Byte) /\ Len(s) = j - i + 1
      /\ \A x \in 1..(j - i + 1) : s[x] = d[i + x - 1]
  <2>1. \A x \in i..j : d[x] \in Byte
    OBVIOUS
  <2> QED
    BY <2>1, SubSeqProperties
<1> HIDE DEF s
<1>2. /\ t \in Seq(Byte) /\ Len(t) = m
      /\ \A x \in 1..m : t[x] = s[x]
  <2>1. \A x \in 1..m : s[x] \in Byte
    BY <1>1
  <2>2. /\ t \in Seq(Byte) /\ Len(t) = IF 1 <= m THEN m - 1 + 1 ELSE 0
        /\ \A x \in 1..(m - 1 + 1) : t[x] = s[1 + x - 1]
    BY <2>1, SubSeqProperties
  <2> HIDE DEF t
  <2> QED
    BY <2>2
<1>3. /\ u \in Seq(Byte) /\ Len(u) = m
      /\ \A x \in 1..m : u[x] = d[i + x - 1]
  <2> DEFINE e == i + m - 1
  <2>1. e \in Int /\ \A x \in i..e : d[x] \in Byte
    OBVIOUS
  <2>2. (IF i <= e THEN e - i + 1 ELSE 0) = m /\ e - i + 1 = m
    OBVIOUS
  <2> HIDE DEF e
  <2>3. /\ SubSeq(d, i, e) \in Seq(Byte) /\ Len(SubSeq(d, i, e)) = IF i <= e THEN e - i + 1 ELSE 0
        /\ \A x \in 1..(e - i + 1) : SubSeq(d, i, e)[x] = d[i + x - 1]
    BY <2>1, SubSeqProperties
  <2> QED
    BY <2>2, <2>3 DEF e
<1> HIDE DEF t, u
<1>4. ASSUME NEW x \in 1..Len(t) PROVE t[x] = u[x]
  <2>1. x \in 1..m /\ x \in 1..(j - i + 1)
    BY <1>2
  <2>2. t[x] = s[x] /\ s[x] = d[i + x - 1] /\ u[x] = d[i + x - 1]
    BY <1>1, <1>2, <1>3, <2>1
  <2> QED
    BY <2>2
<1>5. t = u
  <2>1. \A x \in 1..Len(t) : t[x] = u[x]
    BY <1>4
  <2> QED
    BY <1>2, <1>3, <2>1, SeqEqual
<1> QED
  BY <1>5 DEF s, t, u

\* The buffer is the slice of d that ends at o + n, and its first m bytes come right after
\* the bytes of d that had left it before.
Continues(d, b, o, n, st, m) ==
  LET buf == b \o SubSeq(d, o + 1, o + n)
  IN  /\ buf = SubSeq(d, o - Len(b) + 1, o + n)
      /\ SubSeq(buf, 1, m) = SubSeq(d, o - Len(b) + 1, o - Len(b) + m)
      /\ SubSeq(d, st + 1, o - Len(b)) \in Seq(Byte)
      /\ SubSeq(d, st + 1, o - Len(b) + m)
           = SubSeq(d, st + 1, o - Len(b)) \o SubSeq(buf, 1, m)

\* When b stands just before offset o in the file d and n more bytes are read, the whole
\* buffer stands before o + n.
LEMMA BufferInFile ==
  ASSUME NEW d \in Seq(Byte), NEW b \in Seq(Byte), NEW o \in Nat, NEW n \in Nat,
         NEW st \in Nat, st + Len(b) <= o, o + n <= Len(d),
         b = SubSeq(d, o - Len(b) + 1, o),
         NEW m \in 0..(Len(b) + n)
  PROVE  Continues(d, b, o, n, st, m)
<1> DEFINE buf == b \o SubSeq(d, o + 1, o + n)
           k == o - Len(b)
           first == k + 1
           e == o + n
<1>1. /\ Len(b) \in Nat /\ Len(d) \in Nat /\ k \in Nat /\ first \in Nat /\ e \in Nat
      /\ st <= k /\ e <= Len(d) /\ m \in Nat /\ m <= e - first + 1 /\ 1 <= first
      /\ k + m <= Len(d) /\ first + m - 1 = k + m
  OBVIOUS
<1>2. buf = SubSeq(d, first, e)
  <2>1. first \in 1..(Len(d) + 1) /\ o \in (first - 1)..Len(d) /\ o + n \in o..Len(d)
    BY <1>1
  <2>2. SubSeq(d, first, o) \o SubSeq(d, o + 1, o + n) = SubSeq(d, first, o + n)
    BY <2>1, ConcatAdjacentSubSeq
  <2> QED
    BY <2>2
<1>3. SubSeq(buf, 1, m) = SubSeq(d, first, k + m)
  <2>0. first \in Nat /\ e \in Nat /\ m \in Nat /\ 1 <= first /\ e <= Len(d) /\ m <= e - first + 1
    BY <1>1
  <2> HIDE DEF first, e, k
  <2>1. SubSeq(SubSeq(d, first, e), 1, m) = SubSeq(d, first, first + m - 1)
    BY <2>0, PrefixOfSlice
  <2>2. first + m - 1 = k + m
    BY <1>1
  <2> QED
    BY <1>2, <2>1, <2>2
<1>4. SubSeq(d, st + 1, k) \o SubSeq(d, k + 1, k + m) = SubSeq(d, st + 1, k + m)
  <2> DEFINE a == st + 1
             z == k + m
  <2>1. a \in 1..(Len(d) + 1) /\ k \in (a - 1)..Len(d) /\ z \in k..Len(d)
    BY <1>1
  <2> HIDE DEF a, z, k
  <2>2. SubSeq(d, a, k) \o SubSeq(d, k + 1, z) = SubSeq(d, a, z)
    BY <2>1, ConcatAdjacentSubSeq
  <2> QED
    BY <2>2 DEF a, z
<1>5. SubSeq(d, st + 1, k) \in Seq(Byte)
  <2> HIDE DEF k
  <2>1. st + 1 \in Int /\ k \in Int /\ \A i \in (st + 1)..k : d[i] \in Byte
    BY <1>1
  <2> QED
    BY <2>1, SubSeqProperties
<1> QED
  BY <1>2, <1>3, <1>4, <1>5 DEF Continues

LEMMA DiskFlush == ASSUME IInv, FlushOK, FileSystem PROVE FlushOK'
<1> USE DEF IInv, TypeOK, FileType, DiskType, HistoryType
<1>0. \A k \in Kinds : [id |-> written + 1, k |-> k] \in Byte
  BY WrittenByte
<1>1. CASE Write
  <2>1. UNCHANGED <<fd, offset, lineBuffer, start, sess, sent, batch, truncated>>
    BY <1>1 DEF Write, tailer, file, session, out
  <2>2. PICK i \in Inodes, k \in Kinds :
          data' = [data EXCEPT ![i] = Append(@, [id |-> written + 1, k |-> k])]
    BY <1>1 DEF Write
  <2>3. ASSUME fd # NoFile, ~truncated' PROVE Flushed' = Flushed
    <3> DEFINE b == [id |-> written + 1, k |-> k]
               d == data[fd]
               j == offset - Len(lineBuffer)
    <3>1. fd \in Inodes /\ d \in Seq(Byte) /\ b \in Byte
      BY <1>0, <2>3
    <3>2. data'[fd] = IF fd = i THEN Append(d, b) ELSE d
      BY <2>2, <3>1
    <3>3. start + Len(lineBuffer) <= offset /\ offset <= Len(d) /\ Len(lineBuffer) <= offset
      BY <2>1, <2>3 DEF FlushOK, BufferIsTail
    <3>4. Len(lineBuffer) \in Nat /\ start \in Nat /\ offset \in Nat /\ Len(d) \in Nat
      BY <3>1
    <3>5. start + 1 \in Nat /\ j \in Nat /\ 1 <= start + 1 /\ j <= Len(d)
      BY <3>3, <3>4
    <3> HIDE DEF b, d, j
    <3>6. SubSeq(Append(d, b), start + 1, j) = SubSeq(d, start + 1, j)
      BY <3>1, <3>5, SliceOfAppend
    <3>7. SubSeq(data'[fd], start + 1, j) = SubSeq(d, start + 1, j)
      BY <3>2, <3>6
    <3> QED
      BY <2>1, <3>7 DEF Flushed, d, j
  <2> QED
    BY <2>1, <2>3, FlushSame
<1>2. ASSUME NEW p \in Paths, NewFile(p) PROVE FlushOK'
  <2>1. UNCHANGED <<fd, offset, lineBuffer, start, sess, sent, batch, truncated>>
    BY <1>2 DEF NewFile, tailer, file, session, out
  <2>2. PICK i \in Inodes \ (Linked \cup {fd}) : data' = [data EXCEPT ![i] = <<>>]
    BY <1>2 DEF NewFile
  <2>3. fd # NoFile => data'[fd] = data[fd]
    BY <2>2
  <2>4. fd # NoFile => Flushed' = Flushed
    BY <2>1, <2>3 DEF Flushed
  <2> QED
    BY <2>1, <2>4, FlushSame
<1>3. ASSUME NEW p \in Paths, Remove(p) PROVE FlushOK'
  <2>1. UNCHANGED <<fd, offset, lineBuffer, start, sess, sent, batch, truncated, data>>
    BY <1>3 DEF Remove, tailer, file, session, out
  <2>2. Flushed' = Flushed
    BY <2>1 DEF Flushed
  <2> QED
    BY <2>1, <2>2, FlushSame
<1>4. ASSUME NEW p \in Paths, Truncate(p) PROVE FlushOK'
  <2>1. UNCHANGED <<fd, offset, lineBuffer, start, sess, sent, batch>>
        /\ truncated' = (truncated \/ dir[p] = fd)
    BY <1>4 DEF Truncate, tailer, file, out
  <2>2. data' = [data EXCEPT ![dir[p]] = <<>>]
    BY <1>4 DEF Truncate
  <2>3. fd # NoFile /\ ~truncated' => data'[fd] = data[fd]
    BY <2>1, <2>2
  <2>4. fd # NoFile /\ ~truncated' => Flushed' = Flushed
    BY <2>1, <2>3 DEF Flushed
  <2>5. truncated => truncated'
    BY <2>1
  <2> QED
    BY <2>1, <2>4, <2>5, FlushSame
<1> QED
  BY <1>1, <1>2, <1>3, <1>4 DEF FileSystem

\* A file is opened: nothing was read of it and no message made.
LEMMA OpenFlush ==
  ASSUME IInv, MessagesOK, OpenFile, ~OpenFails
  PROVE  FlushOK'
<1>1. /\ fd = NoFile /\ pc = "open2" /\ sess' = sess + 1 /\ start' = offset'
      /\ UNCHANGED <<lineBuffer, sent, batch, data>> /\ offset' \in Nat
      /\ fd' = dir[path] /\ dir[path] \in Inodes
  <2>1. fd = NoFile /\ pc = "open2" /\ dir[path] \in Inodes
    BY DEF OpenFile, At, IInv, FileOpenWhenUsed, TypeOK, DiskType, FileType
  <2>2. /\ sess' = sess + 1 /\ start' = offset' /\ UNCHANGED <<lineBuffer, sent, batch, data>>
        /\ fd' = dir[path] /\ offset' = OpenOffset(dir[path])
    BY DEF OpenFile, disk, out
  <2>3. OpenOffset(dir[path]) \in Nat
    BY <2>1 DEF OpenOffset, IInv, TypeOK, DiskType
  <2> QED
    BY <2>1, <2>2, <2>3
<1>2. lineBuffer = <<>> /\ batch = <<>>
  BY <1>1 DEF IInv, BufferIsTail, MessagesOK
<1>3. sess \in Nat /\ sent \in Seq(Msg)
  BY DEF IInv, TypeOK, HistoryType, MessagesOK
<1>4. sent \o batch = sent
  BY <1>2, <1>3, ConcatEmptySeq
<1>5. \A j \in DOMAIN sent : sent[j].sess # sess + 1
  <2> SUFFICES ASSUME NEW j \in DOMAIN sent PROVE sent[j].sess # sess + 1
    OBVIOUS
  <2>1. sent[j] \in Msg /\ sent[j].sess <= sess
    BY <1>3 DEF MessagesOK
  <2>2. sent[j].sess \in Nat
    BY <2>1 DEF Msg
  <2> QED
    BY <1>3, <2>1, <2>2
<1>6. OfSession(sent, sess + 1) = <<>>
  BY <1>3, <1>5, OfSessionNone
<1>7. FromOpenFile' = <<>>
  <2>1. FromOpenFile' = OfSession(sent' \o batch', sess')
    BY DEF FromOpenFile, OfSession
  <2> QED
    BY <1>1, <1>4, <1>6, <2>1
<1>8. Flushed' = <<>>
  <2>1. Flushed' = SubSeq(data[dir[path]], offset' + 1, offset' - Len(lineBuffer))
    BY <1>1 DEF Flushed
  <2>2. PICK o \in Nat : o = offset'
    BY <1>1
  <2>3. o - Len(lineBuffer) = o
    BY <1>2
  <2>4. Flushed' = SubSeq(data[dir[path]], o + 1, o)
    BY <2>1, <2>2, <2>3
  <2>5. SubSeq(data[dir[path]], o + 1, o) = <<>>
    BY EmptySlice
  <2> QED
    BY <2>4, <2>5
<1>9. start' + Len(lineBuffer') <= offset'
  <2>1. Len(lineBuffer') = 0
    BY <1>1, <1>2
  <2>2. PICK o \in Nat : o = offset'
    BY <1>1
  <2>3. o + 0 <= o
    OBVIOUS
  <2> QED
    BY <1>1, <2>1, <2>2, <2>3
<1>10. Joined(<<>>) = <<>> /\ Lines(<<>>) = <<>> /\ Texts(<<>>) = <<>>
  BY JoinedType, LinesOfEmpty DEF Texts
<1>11. LastNewline(<<>>) = 0 /\ Complete(<<>>)
  <2> DEFINE e == <<>>
  <2>1. e \in Seq(Byte) /\ Len(e) = 0
    OBVIOUS
  <2> HIDE DEF e
  <2>2. LastNewline(e) \in 0..Len(e)
    BY <2>1, LastNewlineInRange
  <2>3. LastNewline(e) = 0 /\ Complete(e)
    BY <2>1, <2>2 DEF Complete
  <2> QED
    BY <2>3 DEF e
<1>12. lineBuffer' = <<>>
  BY <1>1, <1>2
<1> QED
  BY <1>7, <1>8, <1>9, <1>10, <1>11, <1>12 DEF FlushOK

\* A read moves whole lines, or a chunk, from the buffer to the messages.
LEMMA ReadFlush ==
  ASSUME IInv, MessagesOK, FlushOK, Read
  PROVE  FlushOK'
<1>1. PICK n : ReadsBytes(n)
  BY ReadEffect
<1>2. /\ fd \in Inodes /\ fd # NoFile /\ pc = "read"
      /\ UNCHANGED <<data, fd, sent, sess, start, truncated>>
  BY ReadEffect
<1>3. /\ sess \in Nat /\ sent \in Seq(Msg) /\ batch = <<>> /\ data[fd] \in Seq(Byte)
      /\ lineBuffer \in Seq(Byte) /\ offset \in Nat /\ start \in Nat
      /\ n \in Nat /\ Len(lineBuffer) \in Nat /\ offset' = offset + n
  BY <1>1, <1>2 DEF IInv, TypeOK, HistoryType, FileType, DiskType, MessagesOK, ReadsBytes
<1>4. start + Len(lineBuffer) <= offset
  BY <1>2 DEF FlushOK
<1>5. CASE n = 0
  <2>1. UNCHANGED <<batch, lineBuffer, offset>>
    BY <1>1, <1>3, <1>5 DEF ReadsBytes
  <2>2. Flushed' = Flushed
    BY <1>2, <2>1 DEF Flushed
  <2> QED
    BY <1>2, <2>1, <2>2, FlushSame
<1>6. CASE n # 0
  <2> DEFINE buf == Buffer(n)
             B == Batch(buf)
             c == SubSeq(buf, 1, Len(buf) - Len(Rest(buf)))
             F == FromOpenFile
  <2>1. /\ n > 0 /\ offset + n <= Len(data[fd]) /\ buf \in Seq(Byte)
        /\ Len(buf) = Len(lineBuffer) + n /\ Len(buf) <= MaxLine + ReadBuf
        /\ batch' = B /\ lineBuffer' = Rest(buf)
    BY <1>1, <1>3, <1>6 DEF ReadsBytes
  <2>2. /\ Rest(buf) \in Seq(Byte) /\ Len(Rest(buf)) <= Len(buf)
    <3> HIDE DEF buf
    <3> QED
      BY <2>1, RestIsSuffix
  <2>3. start' + Len(lineBuffer') <= offset'
    <3> HIDE DEF buf
    <3>1. Len(Rest(buf)) \in Nat /\ Len(buf) \in Nat
      BY <2>1, <2>2
    <3> QED
      BY <1>2, <1>3, <1>4, <2>1, <2>2, <3>1
  <2>4. /\ c \in Seq(Byte) /\ B \in Seq(Msg) /\ \A j \in DOMAIN B : B[j].sess = sess
        /\ Visible(c) = Visible(Joined(B))
    <3> HIDE DEF buf
    <3> QED
      BY <1>3, <2>1, FlushTakes
  <2>5. F = OfSession(sent, sess) /\ F \in Seq(Msg) /\ F' = F \o B
    <3>1. F = OfSession(sent \o batch, sess) /\ F' = OfSession(sent' \o batch', sess')
      BY DEF FromOpenFile, OfSession
    <3>2. sent \o batch = sent
      BY <1>3, ConcatEmptySeq
    <3>3. OfSession(sent, sess) \in Seq(Msg)
      BY <1>3, OfSessionType
    <3> HIDE DEF F, B
    <3>4. OfSession(sent \o B, sess) = OfSession(sent, sess) \o B
      BY <1>3, <2>4, OfSessionConcat
    <3>5. F' = OfSession(sent \o B, sess)
      BY <1>2, <2>1, <3>1
    <3> QED
      BY <3>1, <3>2, <3>3, <3>4, <3>5
  <2>6. ASSUME ~truncated
        PROVE  Flushed \in Seq(Byte) /\ Flushed' = Flushed \o c
    <3> DEFINE d == data[fd]
               b == lineBuffer
               o == offset
               m == Len(buf) - Len(Rest(buf))
    <3>1. b = SubSeq(d, o - Len(b) + 1, o)
      BY <1>2, <2>6 DEF IInv, BufferIsTail
    <3>2. buf = b \o SubSeq(d, o + 1, o + n)
      BY DEF Buffer
    <3>3. /\ m \in 0..(Len(b) + n) /\ o + n - Len(Rest(buf)) = o - Len(b) + m
          /\ Len(Rest(buf)) \in Nat
      <4> HIDE DEF buf
      <4>1. Len(Rest(buf)) \in Nat /\ Len(buf) \in Nat
        BY <2>1, <2>2
      <4> QED
        BY <1>3, <2>1, <2>2, <4>1
    <3>4. d \in Seq(Byte) /\ b \in Seq(Byte) /\ o \in Nat /\ n \in Nat /\ start \in Nat
          /\ start + Len(b) <= o /\ o + n <= Len(d)
      BY <1>3, <1>4, <2>1
    <3>5. Flushed = SubSeq(d, start + 1, o - Len(b))
      BY DEF Flushed
    <3>6. Flushed' = SubSeq(d, start + 1, o - Len(b) + m)
      <4>1. Flushed' = SubSeq(d, start + 1, (o + n) - Len(Rest(buf)))
        BY <1>2, <1>3, <2>1 DEF Flushed
      <4> DEFINE x == (o + n) - Len(Rest(buf))
                 y == o - Len(b) + m
      <4>2. x = y
        <5> HIDE DEF buf, m, o, b
        <5> QED
          BY <3>3, <3>4
      <4>3. Flushed' = SubSeq(d, start + 1, x)
        BY <4>1
      <4> HIDE DEF x, y
      <4>4. Flushed' = SubSeq(d, start + 1, y)
        BY <4>2, <4>3
      <4> QED
        BY <4>4 DEF y
    <3>7. c = SubSeq(buf, 1, m)
      OBVIOUS
    <3> HIDE DEF buf, m, b, d, o, c
    <3>8. /\ SubSeq(d, start + 1, o - Len(b)) \in Seq(Byte)
          /\ SubSeq(d, start + 1, o - Len(b) + m)
               = SubSeq(d, start + 1, o - Len(b)) \o SubSeq(buf, 1, m)
      <4>1. m \in 0..(Len(b) + n)
        BY <3>3
      <4> DEFINE x == b \o SubSeq(d, o + 1, o + n)
      <4>0. Continues(d, b, o, n, start, m)
        BY <3>1, <3>4, <4>1, BufferInFile
      <4>2. /\ SubSeq(d, start + 1, o - Len(b)) \in Seq(Byte)
            /\ SubSeq(d, start + 1, o - Len(b) + m)
                 = SubSeq(d, start + 1, o - Len(b)) \o SubSeq(x, 1, m)
        BY <4>0 DEF Continues
      <4> HIDE DEF x
      <4>3. x = buf
        BY <3>2 DEF x
      <4> QED
        BY <4>2, <4>3
    <3> QED
      BY <3>5, <3>6, <3>7, <3>8
  <2>7. ASSUME ~truncated' PROVE Visible(Flushed') = Visible(Joined(FromOpenFile'))
    <3> DEFINE f == Flushed
    <3>1. ~truncated /\ Visible(f) = Visible(Joined(F))
      BY <1>2, <2>7 DEF FlushOK
    <3>2. f \in Seq(Byte) /\ Flushed' = f \o c
      BY <2>6, <3>1
    <3> HIDE DEF f, c, F, B
    <3>3. Visible(f \o c) = Visible(f) \o Visible(c)
      BY <2>4, <3>2, VisibleConcat
    <3>4. Joined(F \o B) = Joined(F) \o Joined(B)
      BY <2>4, <2>5, JoinedConcat
    <3>5. Visible(Joined(F) \o Joined(B)) = Visible(Joined(F)) \o Visible(Joined(B))
      <4> DEFINE x == Joined(F)
                 y == Joined(B)
      <4>1. x \in Seq(Byte) /\ y \in Seq(Byte)
        BY <2>4, <2>5, JoinedType
      <4> HIDE DEF x, y
      <4>2. Visible(x \o y) = Visible(x) \o Visible(y)
        BY <4>1, VisibleConcat
      <4> QED
        BY <4>2 DEF x, y
    <3>6. Visible(Flushed') = Visible(Joined(F \o B))
      BY <2>4, <3>1, <3>2, <3>3, <3>4, <3>5
    <3>7. Visible(Flushed') = Visible(Joined(F'))
      BY <2>5, <3>6
    <3> QED
      BY <3>7 DEF F
  <2>8. ASSUME ~truncated', Unchunked'
        PROVE  /\ Complete(Flushed') /\ LastNewline(lineBuffer') = 0
               /\ Texts(FromOpenFile') = Lines(Flushed')
    <3> DEFINE f == Flushed
    <3>0. \A j \in DOMAIN F' : ~F'[j].chunk
      BY <2>8 DEF Unchunked
    <3>1. ~truncated
      BY <1>2, <2>8
    <3> HIDE DEF F, B, buf
    <3>2. /\ Len(F) \in Nat /\ Len(B) \in Nat /\ DOMAIN F = 1..Len(F) /\ DOMAIN B = 1..Len(B)
          /\ DOMAIN (F \o B) = 1..(Len(F) + Len(B))
          /\ \A i \in 1..(Len(F) + Len(B)) :
               (F \o B)[i] = IF i <= Len(F) THEN F[i] ELSE B[i - Len(F)]
      <4>1. /\ F \o B \in Seq(Msg) /\ Len(F \o B) = Len(F) + Len(B)
            /\ \A i \in 1..(Len(F) + Len(B)) :
                 (F \o B)[i] = IF i <= Len(F) THEN F[i] ELSE B[i - Len(F)]
        BY <2>4, <2>5, ConcatProperties
      <4> QED
        BY <2>4, <2>5, <4>1
    <3>3. \A j \in DOMAIN F : ~F[j].chunk
      <4> SUFFICES ASSUME NEW j \in DOMAIN F PROVE ~F[j].chunk
        OBVIOUS
      <4>1. j \in 1..(Len(F) + Len(B)) /\ j <= Len(F)
        BY <3>2
      <4>2. (F \o B)[j] = F[j] /\ j \in DOMAIN (F \o B)
        BY <3>2, <4>1
      <4> QED
        BY <2>5, <3>0, <4>2
    <3>4. ~Oversized(buf)
      <4> SUFFICES ASSUME Oversized(buf) PROVE FALSE
        OBVIOUS
      <4>1. 1 \in DOMAIN B /\ B[1].chunk
        BY <1>3, <2>1, FlushCuts DEF B
      <4>2. Len(F) + 1 \in 1..(Len(F) + Len(B)) /\ ~(Len(F) + 1 <= Len(F)) /\ (Len(F) + 1) - Len(F) = 1
        BY <3>2, <4>1
      <4>3. (F \o B)[Len(F) + 1] = B[1] /\ Len(F) + 1 \in DOMAIN (F \o B)
        BY <3>2, <4>2
      <4> QED
        BY <2>5, <3>0, <4>1, <4>3
    <3>5. Unchunked
      BY <3>3 DEF Unchunked, F
    <3>6. Complete(f) /\ Texts(F) = Lines(f)
      BY <1>2, <3>1, <3>5 DEF FlushOK, F
    <3>7. /\ Complete(c) /\ LastNewline(Rest(buf)) = 0 /\ Lines(c) = Lines(buf)
          /\ Texts(B) = Lines(buf)
      BY <1>3, <2>1, <3>4, FlushTakesLines DEF B
    <3>8. f \in Seq(Byte) /\ Flushed' = f \o c
      BY <2>6, <3>1
    <3> HIDE DEF f, c
    <3>9. Complete(f \o c)
      BY <2>4, <3>6, <3>7, <3>8, CompleteConcat
    <3>10. Lines(f \o c) = Lines(f) \o Lines(c)
      BY <2>4, <3>6, <3>8, LinesConcat
    <3>11. Texts(F \o B) = Texts(F) \o Texts(B)
      BY <2>4, <2>5, TextsConcat
    <3>12. Texts(F') = Lines(Flushed')
      BY <2>5, <3>6, <3>7, <3>8, <3>10, <3>11
    <3>13. Complete(Flushed') /\ LastNewline(lineBuffer') = 0
      BY <2>1, <3>7, <3>8, <3>9
    <3> QED
      BY <3>12, <3>13 DEF F
  <2> QED
    BY <2>3, <2>7, <2>8 DEF FlushOK
<1> QED
  BY <1>5, <1>6

\* The steps of Run that neither open a file, nor read, nor publish.
PlainStep ==
  \/ LoopTop \/ FindFile \/ OpenStat \/ CheckPresent \/ CheckReplaced \/ StatCurrent
  \/ FindNewer \/ StatFile \/ Restat \/ AfterDrain \/ Wake

\* They keep the open file and its buffer, or close it.
LEMMA PlainEffect ==
  ASSUME PlainStep \/ Cancel \/ UNCHANGED vars \/ (OpenFile /\ OpenFails)
  PROVE  /\ UNCHANGED <<dir, data, written, sent, batch, sess, start, truncated, restarts, startId>>
         /\ \/ UNCHANGED <<fd, offset, lineBuffer>>
            \/ fd' = NoFile /\ lineBuffer' = <<>> /\ pc \notin {"publish", "publishErr"}
<1>1. CASE LoopTop \/ FindFile \/ OpenStat \/ CheckPresent \/ CheckReplaced
  BY <1>1 DEF LoopTop, FindFile, OpenStat, OpenFails, CheckPresent, CheckReplaced, CloseFile,
    IOError, disk, file, out, env, session, seen, At
<1>2. CASE StatCurrent \/ FindNewer \/ StatFile \/ Restat \/ AfterDrain \/ Wake
  BY <1>2 DEF StatCurrent, FindNewer, StatFile, Restat, AfterDrain, Wake, CloseFile,
    IOError, disk, file, out, env, session, seen, At
<1>3. CASE Cancel \/ UNCHANGED vars \/ (OpenFile /\ OpenFails)
  BY <1>3 DEF Cancel, OpenFails, IOError, vars, tailer, disk, file, out, env, session, seen
<1> QED
  BY <1>1, <1>2, <1>3 DEF PlainStep

\* Next, by what a step does to the open file and to the messages.
LEMMA NextCases ==
  ASSUME [Next]_vars
  PROVE  \/ FileSystem \/ Read \/ PublishBatch \/ Panic \/ (OpenFile /\ ~OpenFails)
         \/ PlainStep \/ Cancel \/ UNCHANGED vars \/ (OpenFile /\ OpenFails)
  BY DEF Next, Run, Returned, PlainStep

LEMMA PlainFlush ==
  ASSUME FlushOK, PlainStep \/ Cancel \/ UNCHANGED vars \/ (OpenFile /\ OpenFails)
  PROVE  FlushOK'
<1>1. CASE fd' = NoFile
  BY <1>1, FlushClosed
<1>2. CASE fd' # NoFile
  <2>1. UNCHANGED <<data, sent, batch, sess, start, truncated, fd, offset, lineBuffer>>
    BY <1>2, PlainEffect
  <2>2. Flushed' = Flushed
    BY <2>1 DEF Flushed
  <2> QED
    BY <2>1, <2>2, FlushSame
<1> QED
  BY <1>1, <1>2

\* The batch moves to the messages sent; after a read error the file is closed too.
LEMMA PublishFlush == ASSUME MessagesOK, FlushOK, PublishBatch PROVE FlushOK'
<1>1. /\ sent' = sent \o batch /\ batch' = <<>>
      /\ UNCHANGED <<data, sess, start, truncated>>
      /\ UNCHANGED <<fd, offset, lineBuffer>> \/ fd' = NoFile
  BY DEF PublishBatch, CloseFile, file, disk, session
<1>2. sent' \o batch' = sent \o batch
  <2> DEFINE c == sent \o batch
  <2>1. c \in Seq(Msg)
    BY ConcatProperties DEF MessagesOK
  <2> HIDE DEF c
  <2>2. c \o <<>> = c
    BY <2>1, ConcatEmptySeq
  <2> QED
    BY <1>1, <2>2 DEF c
<1>3. CASE UNCHANGED <<fd, offset, lineBuffer>>
  <2>1. Flushed' = Flushed
    BY <1>1, <1>3 DEF Flushed
  <2> QED
    BY <1>1, <1>2, <1>3, <2>1, FlushSame
<1> QED
  BY <1>1, <1>3, FlushClosed

LEMMA NextFlush == IInv /\ MessagesOK /\ FlushOK /\ [Next]_vars => FlushOK'
<1> SUFFICES ASSUME IInv, MessagesOK, FlushOK, [Next]_vars PROVE FlushOK'
  OBVIOUS
<1>1. CASE FileSystem
  BY <1>1, DiskFlush
<1>2. CASE Read
  BY <1>2, ReadFlush
<1>3. CASE PublishBatch
  BY <1>3, PublishFlush
<1>4. CASE Panic
  BY <1>4, FlushClosed DEF Panic
<1>5. CASE OpenFile /\ ~OpenFails
  BY <1>5, OpenFlush
<1>6. CASE PlainStep \/ Cancel \/ UNCHANGED vars \/ (OpenFile /\ OpenFails)
  BY <1>6, PlainFlush
<1> QED
  BY <1>1, <1>2, <1>3, <1>4, <1>5, <1>6, NextCases

LEMMA SpecFlush == Spec => [](IInv /\ MessagesOK /\ FlushOK)
<1>1. Init => FlushOK
  BY DEF Init, FlushOK
<1> QED
  BY <1>1, SpecMessages, NextFlush, PTL DEF Spec

\* What was read of a file that was not truncated is what was flushed and what waits.
LEMMA ReadIsFlushedAndBuffer ==
  ASSUME IInv, FlushOK, fd # NoFile, ~truncated
  PROVE  /\ ReadSoFar = Flushed \o lineBuffer
         /\ Flushed \in Seq(Byte) /\ lineBuffer \in Seq(Byte)
<1> DEFINE d == data[fd]
           a == start + 1
           k == offset - Len(lineBuffer)
<1>1. /\ d \in Seq(Byte) /\ lineBuffer \in Seq(Byte) /\ start \in Nat /\ offset \in Nat
      /\ start + Len(lineBuffer) <= offset /\ offset <= Len(d)
      /\ lineBuffer = SubSeq(d, offset - Len(lineBuffer) + 1, offset)
  BY DEF IInv, TypeOK, FileType, DiskType, HistoryType, BufferIsTail, FlushOK
<1>2. Len(lineBuffer) \in Nat /\ Len(d) \in Nat
  BY <1>1
<1>3. /\ a \in 1..(Len(d) + 1) /\ k \in (a - 1)..Len(d) /\ offset \in k..Len(d)
      /\ a \in Int /\ k \in Int
  <2> HIDE DEF d
  <2> QED
    BY <1>1, <1>2
<1>4. lineBuffer = SubSeq(d, k + 1, offset) /\ Flushed = SubSeq(d, a, k)
      /\ ReadSoFar = SubSeq(d, a, offset)
  BY <1>1 DEF Flushed, ReadSoFar
<1> HIDE DEF d, a, k
<1>5. SubSeq(d, a, k) \o SubSeq(d, k + 1, offset) = SubSeq(d, a, offset)
  BY <1>1, <1>3, ConcatAdjacentSubSeq
<1>6. SubSeq(d, a, k) \in Seq(Byte)
  <2>1. \A i \in a..k : d[i] \in Byte
    BY <1>1, <1>2, <1>3
  <2> QED
    BY <1>3, <2>1, SubSeqProperties
<1> QED
  BY <1>1, <1>4, <1>5, <1>6

\* Every byte that Run read of the open file is published, queued or still in lineBuffer,
\* in file order and once, whatever the chunks, the cuts of oversized lines and the
\* interleaving with the writers.
THEOREM NothingLostAlways == Spec => []NothingLost
<1>1. IInv /\ FlushOK => NothingLost
  <2> SUFFICES ASSUME IInv, FlushOK, fd # NoFile, ~truncated
               PROVE  Visible(ReadSoFar) = Visible(Joined(FromOpenFile)) \o Visible(lineBuffer)
    BY DEF NothingLost
  <2> DEFINE f == Flushed
             b == lineBuffer
  <2>1. ReadSoFar = f \o b /\ f \in Seq(Byte) /\ b \in Seq(Byte)
    BY ReadIsFlushedAndBuffer
  <2>2. Visible(f) = Visible(Joined(FromOpenFile))
    BY DEF FlushOK
  <2> HIDE DEF f
  <2>3. Visible(f \o b) = Visible(f) \o Visible(b)
    BY <2>1, VisibleConcat
  <2> QED
    BY <2>1, <2>2, <2>3
<1> QED
  BY <1>1, SpecFlush, PTL

\* As long as no oversized line was cut, the messages made of the open file are exactly
\* the non-empty lines of what was read of it: flushCompleteLines, called on one chunk
\* after another, cuts where a single pass over the file would.
THEOREM LinesExactAlways == Spec => []LinesExact
<1>1. IInv /\ FlushOK => LinesExact
  <2> SUFFICES ASSUME IInv, FlushOK, fd # NoFile, ~truncated, Unchunked
               PROVE  Texts(FromOpenFile) = Lines(ReadSoFar)
    BY DEF LinesExact, Unchunked, Texts
  <2> DEFINE f == Flushed
             b == lineBuffer
  <2>1. ReadSoFar = f \o b /\ f \in Seq(Byte) /\ b \in Seq(Byte)
    BY ReadIsFlushedAndBuffer
  <2>2. Complete(f) /\ LastNewline(b) = 0 /\ Texts(FromOpenFile) = Lines(f)
    BY DEF FlushOK
  <2> HIDE DEF f
  <2>3. Lines(f \o b) = Lines(f) \o Lines(b)
    BY <2>1, <2>2, LinesConcat
  <2>4. Lines(b) = <<>>
    BY <2>1, <2>2, NoNewlineNoLines
  <2>5. Lines(f) \o <<>> = Lines(f)
    <3> DEFINE x == Lines(f)
    <3>1. x \in Seq(Seq(Byte))
      BY <2>1, LinesType
    <3> HIDE DEF x
    <3>2. x \o <<>> = x
      BY <3>1, ConcatEmptySeq
    <3> QED
      BY <3>2 DEF x
  <2> QED
    BY <2>1, <2>2, <2>3, <2>4, <2>5
<1> QED
  BY <1>1, SpecFlush, PTL

(***************************************************************************)
(* The tailer implements LineStream, step by step.                         *)
(***************************************************************************)
\* Nothing that LineStream speaks of changes.
LEMMA StreamSame ==
  ASSUME UNCHANGED <<fd, truncated, offset, lineBuffer, batch, sent>>,
         fd # NoFile => data'[fd] = data[fd]
  PROVE  UNCHANGED Stream!vars
  BY DEF Stream!vars, IsOpen, Texts

LEMMA NoTexts == Texts(<<>>) = <<>>
  BY DEF Texts

\* A write to the open file, its truncation, and what happens to other files.
LEMMA DiskStream ==
  ASSUME IInv, FileSystem
  PROVE  Stream!Next \/ UNCHANGED Stream!vars
<1> USE DEF IInv, TypeOK, FileType, DiskType, HistoryType
<1>1. CASE Write
  <2>1. PICK i \in Inodes \cap (Linked \cup {fd}), k \in Kinds :
          data' = [data EXCEPT ![i] = Append(@, [id |-> written + 1, k |-> k])]
    BY <1>1 DEF Write
  <2>2. UNCHANGED <<fd, truncated, offset, lineBuffer, batch, sent>>
    BY <1>1 DEF Write, tailer, file, out, session
  <2>3. CASE i # fd
    <3>1. fd # NoFile => data'[fd] = data[fd]
      BY <2>1, <2>3
    <3> QED
      BY <2>2, <3>1, StreamSame
  <2>4. CASE i = fd
    <3> DEFINE d == data[fd]
               x == [id |-> written + 1, k |-> k]
               e == Append(d, x)
    <3>1. fd \in Inodes /\ fd # NoFile /\ data'[fd] = e
      BY <2>1, <2>4, TailerAssumption
    <3>2. d \in Seq(Byte) /\ x \in Byte
      <4>1. k \in {"ch", "nl", "cr"} /\ written + 1 \in Nat
        BY TailerAssumption
      <4> QED
        BY <3>1, <4>1 DEF Byte
    <3> HIDE DEF d, x
    <3>3. e \in Seq(Byte) /\ Len(e) = Len(d) + 1 /\ Len(d) \in Nat /\ \A j \in 1..Len(d) : e[j] = d[j]
      BY <3>2, AppendProperties
    <3> HIDE DEF e
    <3>4. SubSeq(e, 1, Len(d)) = d
      <4> DEFINE m == Len(d)
                 q == SubSeq(e, 1, m)
      <4>1. \A j \in 1..m : e[j] \in Byte
        BY <3>3
      <4>2. /\ q \in Seq(Byte) /\ Len(q) = IF 1 <= m THEN m - 1 + 1 ELSE 0
            /\ \A j \in 1..(m - 1 + 1) : q[j] = e[1 + j - 1]
        <5>1. m \in Int
          BY <3>3
        <5> HIDE DEF m
        <5> QED
          BY <3>3, <4>1, <5>1, SubSeqProperties
      <4> HIDE DEF q
      <4>3. Len(q) = Len(d) /\ \A j \in 1..Len(d) : q[j] = d[j]
        BY <3>3, <4>2
      <4>4. q = d
        BY <3>2, <4>2, <4>3, SeqEqual
      <4> QED
        BY <4>4 DEF q
    <3>5. Len(d) <= Len(e)
      BY <3>3
    <3>6. Stream!IsExtension(d, e)
      BY <3>4, <3>5 DEF Stream!IsExtension
    <3>7. fd' # NoFile /\ data'[fd'] = e /\ data[fd] = d
      BY <2>2, <3>1 DEF d
    <3>8. Stream!Grow
      BY <2>2, <3>1, <3>6, <3>7 DEF Stream!Grow, IsOpen, Texts
    <3> QED
      BY <3>8 DEF Stream!Next
  <2> QED
    BY <2>3, <2>4
<1>2. ASSUME NEW p \in Paths, NewFile(p) PROVE UNCHANGED Stream!vars
  <2>1. PICK i \in Inodes \ (Linked \cup {fd}) : data' = [data EXCEPT ![i] = <<>>]
    BY <1>2 DEF NewFile
  <2>2. UNCHANGED <<fd, truncated, offset, lineBuffer, batch, sent>>
    BY <1>2 DEF NewFile, tailer, file, out, session
  <2>3. fd # NoFile => data'[fd] = data[fd]
    BY <2>1
  <2> QED
    BY <2>2, <2>3, StreamSame
<1>3. ASSUME NEW p \in Paths, Remove(p) PROVE UNCHANGED Stream!vars
  <2>1. UNCHANGED <<fd, truncated, offset, lineBuffer, batch, sent, data>>
    BY <1>3 DEF Remove, tailer, file, out, session
  <2> QED
    BY <2>1, StreamSame
<1>4. ASSUME NEW p \in Paths, Truncate(p) PROVE Stream!Next \/ UNCHANGED Stream!vars
  <2>1. /\ data' = [data EXCEPT ![dir[p]] = <<>>] /\ truncated' = (truncated \/ dir[p] = fd)
        /\ UNCHANGED <<fd, offset, lineBuffer, batch, sent>> /\ dir[p] # NoFile
    BY <1>4 DEF Truncate, tailer, file, out
  <2>2. CASE dir[p] = fd
    <3>1. fd # NoFile /\ truncated'
      BY <2>1, <2>2
    <3>2. Stream!Damage
      BY <2>1, <3>1 DEF Stream!Damage, IsOpen, Texts
    <3> QED
      BY <3>2 DEF Stream!Next
  <2>3. CASE dir[p] # fd
    <3>1. fd # NoFile => data'[fd] = data[fd]
      BY <2>1, <2>3
    <3>2. truncated' = truncated
      BY <2>1, <2>3
    <3> QED
      BY <2>1, <3>1, <3>2, StreamSame
  <2> QED
    BY <2>2, <2>3
<1> QED
  BY <1>1, <1>2, <1>3, <1>4 DEF FileSystem

LEMMA OpenStream ==
  ASSUME IInv, OpenFile, ~OpenFails
  PROVE  Stream!Next
<1>1. fd = NoFile /\ dir[path] \in Inodes /\ dir[path] # NoFile
  BY DEF OpenFile, At, IInv, FileOpenWhenUsed, TypeOK, DiskType, FileType
<1>2. /\ fd' = dir[path] /\ offset' = OpenOffset(dir[path]) /\ ~truncated'
      /\ UNCHANGED <<lineBuffer, sent, batch, data>>
  BY DEF OpenFile, disk, out
<1>3. lineBuffer = <<>>
  BY <1>1 DEF IInv, BufferIsTail
<1>4. OpenOffset(dir[path]) \in {0, Len(data[dir[path]])} /\ OpenOffset(dir[path]) \in Nat
  BY <1>1 DEF OpenOffset, IInv, TypeOK, DiskType
<1>5. PICK o \in Nat : o = offset'
  BY <1>2, <1>4
<1>6. o - Len(lineBuffer) = o
  BY <1>3
<1>7. offset' - Len(lineBuffer') \in {0, Len(data'[fd'])}
  BY <1>2, <1>4, <1>5, <1>6
<1>8. Stream!Open
  BY <1>1, <1>2, <1>7 DEF Stream!Open, IsOpen, Texts
<1> QED
  BY <1>8 DEF Stream!Next

\* A read delivers the complete lines of the buffer, or cuts off a piece of it.
LEMMA ReadStream ==
  ASSUME IInv, MessagesOK, Read
  PROVE  Stream!Next \/ UNCHANGED Stream!vars
<1>1. PICK n : ReadsBytes(n)
  BY ReadEffect
<1>2. fd \in Inodes /\ fd # NoFile /\ pc = "read" /\ UNCHANGED <<data, fd, sent, truncated>>
  BY ReadEffect
<1>3. /\ sess \in Nat /\ batch = <<>> /\ data[fd] \in Seq(Byte)
      /\ lineBuffer \in Seq(Byte) /\ offset \in Nat /\ n \in Nat /\ Len(lineBuffer) \in Nat
      /\ offset' = offset + n
  BY <1>1, <1>2 DEF IInv, TypeOK, HistoryType, FileType, DiskType, MessagesOK, ReadsBytes
<1>4. Texts(batch) = <<>>
  BY <1>3, NoTexts
<1>5. CASE n = 0
  <2>1. UNCHANGED <<batch, lineBuffer, offset>>
    BY <1>1, <1>3, <1>5 DEF ReadsBytes
  <2> QED
    BY <1>2, <2>1, StreamSame
<1>6. CASE truncated
  <2>1. Stream!Garble
    BY <1>2, <1>4, <1>6 DEF Stream!Garble, IsOpen
  <2> QED
    BY <2>1 DEF Stream!Next
<1>7. CASE n # 0 /\ ~truncated
  <2> DEFINE d == data[fd]
             b == lineBuffer
             o == offset
             buf == Buffer(n)
             k == o - Len(b)
  <2>1. /\ n > 0 /\ o + n <= Len(d) /\ buf \in Seq(Byte) /\ Len(buf) = Len(b) + n
        /\ Len(buf) <= MaxLine + ReadBuf /\ batch' = Batch(buf) /\ lineBuffer' = Rest(buf)
    BY <1>1, <1>3, <1>7 DEF ReadsBytes
  <2>2. /\ d \in Seq(Byte) /\ b \in Seq(Byte) /\ o \in Nat /\ n \in Nat /\ Len(b) \in Nat
        /\ b = SubSeq(d, o - Len(b) + 1, o) /\ Len(b) <= o /\ Len(d) \in Nat
    BY <1>2, <1>3, <1>7 DEF IInv, BufferIsTail
  <2>3. buf = b \o SubSeq(d, o + 1, o + n)
    BY DEF Buffer
  <2>4. Rest(buf) \in Seq(Byte) /\ Len(Rest(buf)) <= Len(buf)
    <3> HIDE DEF buf
    <3> QED
      BY <2>1, RestIsSuffix
  <2>5. Len(Rest(buf)) \in Nat /\ Len(buf) \in Nat
    BY <2>1, <2>4
  <2>6. ASSUME NEW m \in 0..(Len(b) + n)
        PROVE  SubSeq(d, k + 1, k + m) = SubSeq(buf, 1, m)
    <3> HIDE DEF buf, b, d, o, k
    <3>1. 0 + Len(b) <= o
      BY <2>2
    <3>2. Continues(d, b, o, n, 0, m)
      BY <2>1, <2>2, <3>1, BufferInFile
    <3>3. SubSeq(buf, 1, m) = SubSeq(d, o - Len(b) + 1, o - Len(b) + m)
      BY <2>3, <3>2 DEF Continues
    <3> QED
      BY <3>3 DEF k
  <2>7. offset' - Len(lineBuffer') = k + (Len(buf) - Len(Rest(buf)))
    <3>1. offset' - Len(lineBuffer') = (o + n) - Len(Rest(buf))
      BY <1>3, <2>1
    <3> HIDE DEF buf, b, d, o
    <3>2. (o + n) - Len(Rest(buf)) = k + (Len(buf) - Len(Rest(buf)))
      BY <2>1, <2>2, <2>5 DEF k
    <3> QED
      BY <3>1, <3>2
  <2>8. CASE Oversized(buf)
    <3>1. Texts(batch') = <<SubSeq(buf, 1, MaxLine)>> /\ Len(buf) - Len(Rest(buf)) = MaxLine
      <4> HIDE DEF buf
      <4> QED
        BY <1>3, <2>1, <2>8, FlushCuts
    <3>2. MaxLine \in 0..(Len(b) + n) /\ k + MaxLine < Len(d)
      <4>1. Len(buf) > MaxLine /\ MaxLine \in Nat
        BY <2>8, TailerAssumption DEF Oversized
      <4> HIDE DEF buf, b, d, o
      <4> QED
        BY <2>1, <2>2, <4>1 DEF k
    <3>3. SubSeq(d, k + 1, k + MaxLine) = SubSeq(buf, 1, MaxLine)
      BY <2>6, <3>2
    <3>4. offset' - Len(lineBuffer') = k + MaxLine
      BY <2>7, <3>1
    <3>5. Texts(batch') = <<SubSeq(d, k + 1, k + MaxLine)>>
      BY <3>1, <3>3
    <3>6. Stream!Cut
      BY <1>2, <1>4, <1>7, <3>2, <3>4, <3>5 DEF Stream!Cut, Stream!Upcoming, IsOpen
    <3> QED
      BY <3>6 DEF Stream!Next
  <2>9. CASE ~Oversized(buf)
    <3>1. Texts(batch') = Lines(buf) /\ Len(buf) - Len(Rest(buf)) = LastNewline(buf)
      <4> HIDE DEF buf
      <4> QED
        BY <1>3, <2>1, <2>9, FlushTakesLines
    <3> DEFINE m == Len(buf)
    <3>2. m \in 1..MaxLine /\ m \in 0..(Len(b) + n) /\ k + m <= Len(d)
      <4>1. ~(Len(buf) > MaxLine) /\ MaxLine \in Nat
        BY <2>9, TailerAssumption DEF Oversized
      <4> HIDE DEF buf, b, d, o
      <4> QED
        BY <2>1, <2>2, <2>5, <4>1 DEF k
    <3>3. SubSeq(d, k + 1, k + m) = buf
      <4>1. SubSeq(d, k + 1, k + m) = SubSeq(buf, 1, m)
        BY <2>6, <3>2
      <4> HIDE DEF buf
      <4>2. SubSeq(buf, 1, Len(buf)) = buf
        BY <2>1, SubSeqFull
      <4> QED
        BY <4>1, <4>2
    <3>4. offset' - Len(lineBuffer') = k + LastNewline(buf)
      BY <2>7, <3>1
    <3>5. /\ Texts(batch') = Lines(SubSeq(d, k + 1, k + m))
          /\ offset' - Len(lineBuffer') = k + LastNewline(SubSeq(d, k + 1, k + m))
      BY <3>1, <3>3, <3>4
    <3> HIDE DEF m
    <3>6. Stream!Deliver
      BY <1>2, <1>4, <1>7, <3>2, <3>5 DEF Stream!Deliver, Stream!Upcoming, IsOpen
    <3> QED
      BY <3>6 DEF Stream!Next
  <2> QED
    BY <2>8, <2>9
<1> QED
  BY <1>5, <1>6, <1>7

LEMMA PublishStream ==
  ASSUME IInv, MessagesOK, PublishBatch
  PROVE  Stream!Next
<1>1. /\ sent' = sent \o batch /\ batch' = <<>> /\ UNCHANGED <<data, truncated>>
      /\ UNCHANGED <<fd, offset, lineBuffer>> \/ fd' = NoFile
  BY DEF PublishBatch, CloseFile, file, disk, session
<1>2. Texts(sent') = Texts(sent) \o Texts(batch)
  <2>1. Texts(sent \o batch) = Texts(sent) \o Texts(batch)
    BY TextsConcat DEF MessagesOK
  <2> QED
    BY <1>1, <2>1
<1>3. Texts(batch') = <<>>
  BY <1>1, NoTexts
<1>4. CASE UNCHANGED <<fd, offset, lineBuffer>>
  BY <1>1, <1>2, <1>3, <1>4 DEF Stream!Next, Stream!Publish, IsOpen
<1>5. CASE fd' = NoFile
  BY <1>2, <1>3, <1>5 DEF Stream!Next, Stream!Publish, Stream!Closed, IsOpen
<1> QED
  BY <1>1, <1>4, <1>5

LEMMA PanicStream ==
  ASSUME IInv, MessagesOK, Panic
  PROVE  Stream!Next
<1>1. PICK n \in 0..Len(batch) : sent' = sent \o SubSeq(batch, 1, n)
  BY DEF Panic
<1>2. batch' = <<>> /\ fd' = NoFile
  BY DEF Panic
<1>3. sent \in Seq(Msg) /\ batch \in Seq(Msg)
  BY DEF MessagesOK
<1> DEFINE p == SubSeq(batch, 1, n)
<1>4. p \in Seq(Msg) /\ Texts(p) = SubSeq(Texts(batch), 1, n)
  BY <1>3, FirstMessages
<1>5. sent' = sent \o p
  BY <1>1
<1> HIDE DEF p
<1>6. Texts(sent \o p) = Texts(sent) \o Texts(p)
  BY <1>3, <1>4, TextsConcat
<1>7. Texts(sent') = Texts(sent) \o SubSeq(Texts(batch), 1, n)
  BY <1>4, <1>5, <1>6
<1>8. n \in 0..Len(Texts(batch))
  BY <1>3, TextsType
<1>9. Texts(batch') = <<>>
  BY <1>2, NoTexts
<1>10. Stream!Crash
  BY <1>2, <1>7, <1>8, <1>9 DEF Stream!Crash, Stream!Closed, IsOpen
<1> QED
  BY <1>10 DEF Stream!Next

LEMMA PlainStream ==
  ASSUME IInv, MessagesOK, PlainStep \/ Cancel \/ UNCHANGED vars \/ (OpenFile /\ OpenFails)
  PROVE  Stream!Next \/ UNCHANGED Stream!vars
<1>1. UNCHANGED <<data, sent, batch, truncated>>
  BY PlainEffect
<1>2. CASE UNCHANGED <<fd, offset, lineBuffer>>
  BY <1>1, <1>2, StreamSame
<1>3. CASE ~UNCHANGED <<fd, offset, lineBuffer>>
  <2>1. fd' = NoFile /\ lineBuffer' = <<>> /\ pc \notin {"publish", "publishErr"}
    BY <1>3, PlainEffect
  <2>2. batch = <<>>
    BY <2>1 DEF MessagesOK
  <2>3. Texts(batch) = <<>> /\ Texts(batch') = Texts(batch) /\ Texts(sent') = Texts(sent)
    BY <1>1, <2>2, NoTexts
  <2>4. CASE fd = NoFile
    BY <1>1, <2>1, <2>3, <2>4 DEF Stream!vars, IsOpen
  <2>5. CASE fd # NoFile
    BY <2>1, <2>3, <2>5 DEF Stream!Next, Stream!Close, Stream!Closed, IsOpen
  <2> QED
    BY <2>4, <2>5
<1> QED
  BY <1>2, <1>3

\* Run, with its polling, chunked reads, rotation checks, error paths and restarts,
\* implements LineStream: each step of it and of the file system is one step of the
\* stream of complete lines, or changes nothing there.
THEOREM TailerImplementsLineStream == Spec => ImplementsLineStream
<1>1. Init => Stream!Init
  BY DEF Init, Stream!Init, IsOpen, Texts
<1>2. IInv /\ MessagesOK /\ [Next]_vars => [Stream!Next]_(Stream!vars)
  <2> SUFFICES ASSUME IInv, MessagesOK, [Next]_vars
               PROVE  Stream!Next \/ UNCHANGED Stream!vars
    OBVIOUS
  <2>1. CASE FileSystem
    BY <2>1, DiskStream
  <2>2. CASE Read
    BY <2>2, ReadStream
  <2>3. CASE PublishBatch
    BY <2>3, PublishStream
  <2>4. CASE Panic
    BY <2>4, PanicStream
  <2>5. CASE OpenFile /\ ~OpenFails
    BY <2>5, OpenStream
  <2>6. CASE PlainStep \/ Cancel \/ UNCHANGED vars \/ (OpenFile /\ OpenFails)
    BY <2>6, PlainStream
  <2> QED
    BY <2>1, <2>2, <2>3, <2>4, <2>5, <2>6, NextCases
<1> QED
  BY <1>1, <1>2, SpecMessages, PTL DEF Spec, Stream!Spec, ImplementsLineStream

(***************************************************************************)
(* No byte is published twice.                                             *)
(***************************************************************************)
\* The bytes of a text and of several texts, by number.
Ids(s) == {s[i].id : i \in DOMAIN s}
IdsOf(ls) == UNION {Ids(ls[j]) : j \in DOMAIN ls}

\* No byte is there twice: in one text, in two of several texts.
Distinct(s) == \A i, j \in DOMAIN s : s[i].id = s[j].id => i = j
Separate(ls) == \A j, l \in DOMAIN ls : j # l => Ids(ls[j]) \cap Ids(ls[l]) = {}

\* What must not be published (again): the messages, and with an exact path the bytes
\* there at startup.
Published == Texts(sent \o batch)
Old == IF Glob THEN {} ELSE 0..startId
Used == IdsOf(Published) \cup Old

\* A byte is at one place of one file, and what is in lineBuffer is in no other file.
BytesOK ==
  /\ \A i \in Inodes : Distinct(data[i]) /\ \A id \in Ids(data[i]) : id <= written
  /\ \A i, j \in Inodes : i # j => Ids(data[i]) \cap Ids(data[j]) = {}
  /\ \A i \in Inodes \ {fd} : Ids(data[i]) \cap Ids(lineBuffer) = {}
  /\ \A id \in Ids(lineBuffer) \cup Used : id <= written
  /\ startId <= written

\* The open file has no name but t.path; an exact path is never switched away from.
NamesOK ==
  /\ \A p, q \in Paths : dir[p] = dir[q] => p = q \/ dir[p] = NoFile
  /\ \A p \in Paths : fd # NoFile /\ dir[p] = fd => p = path
  /\ fd # NoFile => ~startAtEnd /\ (faulted \/ fd = fileIno)
  /\ ~Glob => ~switchPending /\ gone = {} /\ pc \notin {"newer", "newer2"}
  /\ startAtEnd /\ restarts = 0 => sent = <<>>

\* The bytes still to be read of the open file are not yet used: those after offset, and
\* all of it when it has become shorter than that.
OpenUnread ==
  fd # NoFile =>
    /\ Distinct(lineBuffer) /\ Ids(lineBuffer) \cap Used = {}
    /\ \A x \in DOMAIN data[fd] :
         x > offset => data[fd][x].id \notin Used \cup Ids(lineBuffer)
    /\ Len(data[fd]) < offset => Ids(data[fd]) \cap Used = {}

\* Nor are those of the files that may yet be opened at their start.
MayOpen(p) == Glob \/ (p = path /\ ~startAtEnd)
FilesUnread ==
  pc # "done" =>
    \A p \in Paths : MayOpen(p) /\ dir[p] # NoFile /\ dir[p] # fd /\ dir[p] \notin gone
                       => Ids(data[dir[p]]) \cap Used = {}

Unread ==
  Separate(Published) /\ IdsOf(Published) \cap Old = {} /\ OpenUnread /\ FilesUnread

Excused == faulted \/ (Glob /\ restarts > 0)

UnreadOK == Excused \/ Unread

LEMMA IdsAppend ==
  ASSUME NEW s \in Seq(Byte), NEW b \in Byte
  PROVE  /\ Ids(Append(s, b)) = Ids(s) \cup {b.id}
         /\ Distinct(Append(s, b)) <=> Distinct(s) /\ b.id \notin Ids(s)
<1> DEFINE t == Append(s, b)
<1>1. /\ t \in Seq(Byte) /\ Len(t) = Len(s) + 1 /\ t[Len(s) + 1] = b
      /\ \A i \in 1..Len(s) : t[i] = s[i]
  BY AppendProperties
<1>2. /\ Len(s) \in Nat /\ DOMAIN s = 1..Len(s) /\ DOMAIN t = 1..Len(t)
      /\ DOMAIN t = DOMAIN s \cup {Len(s) + 1} /\ Len(s) + 1 \notin DOMAIN s
  BY <1>1
<1> HIDE DEF t
<1>3. Ids(t) = Ids(s) \cup {b.id}
  BY <1>1, <1>2 DEF Ids
<1>4. ASSUME Distinct(t) PROVE Distinct(s) /\ b.id \notin Ids(s)
  BY <1>1, <1>2, <1>4 DEF Distinct, Ids
<1>5. ASSUME Distinct(s), b.id \notin Ids(s) PROVE Distinct(t)
  BY <1>1, <1>2, <1>5 DEF Distinct, Ids
<1> QED
  BY <1>3, <1>4, <1>5 DEF t

LEMMA IdsConcat ==
  ASSUME NEW a \in Seq(Byte), NEW b \in Seq(Byte)
  PROVE  /\ Ids(a \o b) = Ids(a) \cup Ids(b)
         /\ Distinct(a \o b) <=> Distinct(a) /\ Distinct(b) /\ Ids(a) \cap Ids(b) = {}
<1> DEFINE c == a \o b
           n == Len(a)
<1>1. /\ c \in Seq(Byte) /\ Len(c) = n + Len(b)
      /\ \A i \in 1..(n + Len(b)) : c[i] = IF i <= n THEN a[i] ELSE b[i - n]
  BY ConcatProperties
<1>2. /\ n \in Nat /\ Len(b) \in Nat /\ DOMAIN a = 1..n /\ DOMAIN b = 1..Len(b)
      /\ DOMAIN c = 1..(n + Len(b))
  BY <1>1
<1> HIDE DEF c, n
<1>3. ASSUME NEW i \in DOMAIN a PROVE i \in DOMAIN c /\ c[i] = a[i]
  BY <1>1, <1>2
<1>4. ASSUME NEW i \in DOMAIN b
      PROVE  n + i \in DOMAIN c /\ c[n + i] = b[i] /\ n + i \notin DOMAIN a
  <2>1. n + i \in 1..(n + Len(b)) /\ ~(n + i <= n) /\ (n + i) - n = i
    BY <1>2
  <2> QED
    BY <1>1, <1>2, <2>1
<1>5. ASSUME NEW i \in DOMAIN c, i \notin DOMAIN a
      PROVE  i - n \in DOMAIN b /\ c[i] = b[i - n] /\ n + (i - n) = i
  BY <1>1, <1>2, <1>5
<1>6. Ids(c) \subseteq Ids(a) \cup Ids(b)
  BY <1>3, <1>5 DEF Ids
<1>7. Ids(a) \subseteq Ids(c) /\ Ids(b) \subseteq Ids(c)
  BY <1>3, <1>4 DEF Ids
<1>8. ASSUME Distinct(c) PROVE Distinct(a) /\ Distinct(b) /\ Ids(a) \cap Ids(b) = {}
  <2>1. Distinct(a)
    BY <1>3, <1>8 DEF Distinct
  <2>2. ASSUME NEW i \in DOMAIN b, NEW j \in DOMAIN b, b[i].id = b[j].id PROVE i = j
    <3>1. n + i = n + j
      BY <1>4, <1>8, <2>2 DEF Distinct
    <3> QED
      BY <1>2, <3>1
  <2>3. ASSUME NEW i \in DOMAIN a, NEW j \in DOMAIN b PROVE a[i].id # b[j].id
    <3>1. i # n + j
      BY <1>4
    <3> QED
      BY <1>3, <1>4, <1>8, <3>1 DEF Distinct
  <2> QED
    BY <2>1, <2>2, <2>3 DEF Distinct, Ids
<1>9. ASSUME Distinct(a), Distinct(b), Ids(a) \cap Ids(b) = {} PROVE Distinct(c)
  <2> SUFFICES ASSUME NEW i \in DOMAIN c, NEW j \in DOMAIN c, c[i].id = c[j].id PROVE i = j
    BY DEF Distinct
  <2>1. CASE i \in DOMAIN a /\ j \in DOMAIN a
    BY <1>3, <1>9, <2>1 DEF Distinct
  <2>2. CASE i \notin DOMAIN a /\ j \notin DOMAIN a
    <3>1. i - n = j - n
      BY <1>5, <1>9, <2>2 DEF Distinct
    <3> QED
      BY <1>5, <2>2, <3>1
  <2>3. CASE i \in DOMAIN a /\ j \notin DOMAIN a
    BY <1>3, <1>5, <1>9, <2>3 DEF Ids
  <2>4. CASE i \notin DOMAIN a /\ j \in DOMAIN a
    BY <1>3, <1>5, <1>9, <2>4 DEF Ids
  <2> QED
    BY <2>1, <2>2, <2>3, <2>4
<1> QED
  BY <1>6, <1>7, <1>8, <1>9 DEF c

LEMMA IdsSlice ==
  ASSUME NEW d \in Seq(Byte), NEW i \in Nat, NEW j \in Nat, 1 <= i, j <= Len(d)
  PROVE  /\ SubSeq(d, i, j) \in Seq(Byte)
         /\ Ids(SubSeq(d, i, j)) = {d[x].id : x \in i..j}
         /\ Distinct(d) => Distinct(SubSeq(d, i, j))
<1> DEFINE s == SubSeq(d, i, j)
<1>1. /\ s \in Seq(Byte) /\ Len(s) = (IF i <= j THEN j - i + 1 ELSE 0)
      /\ \A x \in 1..(j - i + 1) : s[x] = d[i + x - 1]
  <2>1. \A x \in i..j : d[x] \in Byte
    OBVIOUS
  <2> QED
    BY <2>1, SubSeqProperties
<1> HIDE DEF s
<1>2. DOMAIN s = 1..(j - i + 1)
  BY <1>1
<1>3. \A x \in DOMAIN s : s[x] = d[i + x - 1] /\ i + x - 1 \in i..j /\ i + x - 1 \in DOMAIN d
  BY <1>1, <1>2
<1>4. \A y \in i..j : (y - i) + 1 \in DOMAIN s /\ i + ((y - i) + 1) - 1 = y
  BY <1>2
<1>5. Ids(s) \subseteq {d[x].id : x \in i..j}
  BY <1>3 DEF Ids
<1>6. ASSUME NEW y \in i..j PROVE d[y].id \in Ids(s)
  <2>1. (y - i) + 1 \in DOMAIN s /\ i + ((y - i) + 1) - 1 = y
    BY <1>4
  <2>2. s[(y - i) + 1] = d[y]
    BY <1>3, <2>1
  <2> QED
    BY <2>1, <2>2 DEF Ids
<1>7. ASSUME Distinct(d) PROVE Distinct(s)
  <2> SUFFICES ASSUME NEW x \in DOMAIN s, NEW y \in DOMAIN s, s[x].id = s[y].id PROVE x = y
    BY DEF Distinct
  <2>1. i + x - 1 = i + y - 1
    BY <1>3, <1>7 DEF Distinct
  <2> QED
    BY <1>2, <2>1
<1> QED
  BY <1>1, <1>5, <1>6, <1>7 DEF s

LEMMA IdsOfAppend ==
  ASSUME NEW ls \in Seq(Seq(Byte)), NEW x \in Seq(Byte)
  PROVE  /\ IdsOf(Append(ls, x)) = IdsOf(ls) \cup Ids(x)
         /\ Separate(ls) /\ IdsOf(ls) \cap Ids(x) = {} => Separate(Append(ls, x))
<1> DEFINE S == Seq(Byte)
           t == Append(ls, x)
<1>0. ls \in Seq(S) /\ x \in S
  OBVIOUS
<1> HIDE DEF S
<1>1. /\ t \in Seq(S) /\ Len(t) = Len(ls) + 1 /\ t[Len(ls) + 1] = x
      /\ \A i \in 1..Len(ls) : t[i] = ls[i]
  BY <1>0, AppendProperties
<1>2. /\ Len(ls) \in Nat /\ DOMAIN ls = 1..Len(ls) /\ DOMAIN t = 1..Len(t)
      /\ DOMAIN t = DOMAIN ls \cup {Len(ls) + 1} /\ Len(ls) + 1 \notin DOMAIN ls
  BY <1>0, <1>1
<1> HIDE DEF t
<1>3. IdsOf(t) = IdsOf(ls) \cup Ids(x)
  BY <1>1, <1>2 DEF IdsOf
<1>4. ASSUME Separate(ls), IdsOf(ls) \cap Ids(x) = {} PROVE Separate(t)
  <2> SUFFICES ASSUME NEW j \in DOMAIN t, NEW l \in DOMAIN t, j # l
               PROVE  Ids(t[j]) \cap Ids(t[l]) = {}
    BY DEF Separate
  <2>1. CASE j \in DOMAIN ls /\ l \in DOMAIN ls
    BY <1>1, <1>2, <1>4, <2>1 DEF Separate
  <2>2. CASE j \in DOMAIN ls /\ l = Len(ls) + 1
    <3>1. t[j] = ls[j] /\ t[l] = x
      BY <1>1, <1>2, <2>2
    <3>2. Ids(ls[j]) \subseteq IdsOf(ls)
      BY <2>2 DEF IdsOf
    <3> QED
      BY <1>4, <3>1, <3>2
  <2>3. CASE l \in DOMAIN ls /\ j = Len(ls) + 1
    <3>1. t[l] = ls[l] /\ t[j] = x
      BY <1>1, <1>2, <2>3
    <3>2. Ids(ls[l]) \subseteq IdsOf(ls)
      BY <2>3 DEF IdsOf
    <3> QED
      BY <1>4, <3>1, <3>2
  <2> QED
    BY <1>2, <2>1, <2>2, <2>3
<1> QED
  BY <1>3, <1>4 DEF t

LEMMA IdsOfConcat ==
  ASSUME NEW a \in Seq(Seq(Byte)), NEW b \in Seq(Seq(Byte))
  PROVE  /\ IdsOf(a \o b) = IdsOf(a) \cup IdsOf(b)
         /\ Separate(a) /\ Separate(b) /\ IdsOf(a) \cap IdsOf(b) = {} => Separate(a \o b)
         /\ Separate(a \o b) => Separate(a)
<1> DEFINE S == Seq(Byte)
           c == a \o b
           n == Len(a)
<1>0. a \in Seq(S) /\ b \in Seq(S)
  OBVIOUS
<1> HIDE DEF S
<1>1. /\ c \in Seq(S) /\ Len(c) = n + Len(b)
      /\ \A i \in 1..(n + Len(b)) : c[i] = IF i <= n THEN a[i] ELSE b[i - n]
  BY <1>0, ConcatProperties
<1>2. /\ n \in Nat /\ Len(b) \in Nat /\ DOMAIN a = 1..n /\ DOMAIN b = 1..Len(b)
      /\ DOMAIN c = 1..(n + Len(b))
  BY <1>0, <1>1
<1> HIDE DEF c, n
<1>3. ASSUME NEW i \in DOMAIN a PROVE i \in DOMAIN c /\ c[i] = a[i]
  BY <1>1, <1>2
<1>4. ASSUME NEW i \in DOMAIN b PROVE n + i \in DOMAIN c /\ c[n + i] = b[i]
  <2>1. n + i \in 1..(n + Len(b)) /\ ~(n + i <= n) /\ (n + i) - n = i
    BY <1>2
  <2> QED
    BY <1>1, <1>2, <2>1
<1>5. ASSUME NEW i \in DOMAIN c, i \notin DOMAIN a
      PROVE  i - n \in DOMAIN b /\ c[i] = b[i - n] /\ n + (i - n) = i
  BY <1>1, <1>2, <1>5
<1>6. IdsOf(c) \subseteq IdsOf(a) \cup IdsOf(b)
  BY <1>3, <1>5 DEF IdsOf
<1>7. IdsOf(a) \subseteq IdsOf(c) /\ IdsOf(b) \subseteq IdsOf(c)
  BY <1>3, <1>4 DEF IdsOf
<1>8. ASSUME Separate(c) PROVE Separate(a)
  BY <1>3, <1>8 DEF Separate
<1>9. ASSUME Separate(a), Separate(b), IdsOf(a) \cap IdsOf(b) = {} PROVE Separate(c)
  <2> SUFFICES ASSUME NEW i \in DOMAIN c, NEW j \in DOMAIN c, i # j
               PROVE  Ids(c[i]) \cap Ids(c[j]) = {}
    BY DEF Separate
  <2>1. ASSUME NEW k \in DOMAIN c, k \in DOMAIN a PROVE Ids(c[k]) \subseteq IdsOf(a)
    BY <1>3, <2>1 DEF IdsOf
  <2>2. ASSUME NEW k \in DOMAIN c, k \notin DOMAIN a PROVE Ids(c[k]) \subseteq IdsOf(b)
    BY <1>5, <2>2 DEF IdsOf
  <2>3. CASE i \in DOMAIN a /\ j \in DOMAIN a
    BY <1>3, <1>9, <2>3 DEF Separate
  <2>4. CASE i \notin DOMAIN a /\ j \notin DOMAIN a
    <3>1. i - n # j - n
      BY <1>5, <2>4
    <3> QED
      BY <1>5, <1>9, <2>4, <3>1 DEF Separate
  <2>5. CASE i \in DOMAIN a /\ j \notin DOMAIN a
    <3>1. Ids(c[i]) \subseteq IdsOf(a) /\ Ids(c[j]) \subseteq IdsOf(b)
      BY <2>1, <2>2, <2>5
    <3> QED
      BY <1>9, <3>1
  <2>6. CASE i \notin DOMAIN a /\ j \in DOMAIN a
    <3>1. Ids(c[i]) \subseteq IdsOf(b) /\ Ids(c[j]) \subseteq IdsOf(a)
      BY <2>1, <2>2, <2>6
    <3> QED
      BY <1>9, <3>1
  <2> QED
    BY <2>3, <2>4, <2>5, <2>6
<1> QED
  BY <1>6, <1>7, <1>8, <1>9 DEF c

LEMMA IdsOfEmpty == Ids(<<>>) = {} /\ IdsOf(<<>>) = {} /\ Distinct(<<>>) /\ Separate(<<>>)
  BY DEF Ids, IdsOf, Distinct, Separate

LEMMA IdsStrip == ASSUME NEW s \in Seq(Byte) PROVE Ids(Strip(s)) \subseteq Ids(s)
<1> DEFINE G == {u \in Seq(Byte) : Ids(Strip(u)) \subseteq Ids(u)}
<1>1. <<>> \in G
  BY VisibleType, IdsOfEmpty
<1>2. ASSUME NEW u \in Seq(Byte), NEW b \in Byte, u \in G PROVE Append(u, b) \in G
  <2> DEFINE x == Strip(u)
  <2>1. Append(u, b) \in Seq(Byte) /\ x \in Seq(Byte)
    BY AppendProperties, VisibleType
  <2>2. Strip(Append(u, b)) = Append(x, b) \/ Strip(Append(u, b)) = x
    BY StripAppend
  <2>3. Ids(x) \subseteq Ids(u)
    BY <1>2
  <2> HIDE DEF x
  <2>4. Ids(Append(x, b)) = Ids(x) \cup {b.id} /\ Ids(Append(u, b)) = Ids(u) \cup {b.id}
    BY <2>1, IdsAppend
  <2>5. Ids(Strip(Append(u, b))) \subseteq Ids(Append(u, b))
    BY <2>2, <2>3, <2>4
  <2> QED
    BY <2>1, <2>5
<1>3. \A u \in Seq(Byte), b \in Byte : u \in G => Append(u, b) \in G
  BY <1>2
<1> HIDE DEF G
<1>4. Seq(Byte) \subseteq G
  BY <1>1, <1>3, SequenceInduction
<1> QED
  BY <1>4 DEF G

\* The lines of a text have no byte in common, with each other or with what follows.
LinesApart(s) ==
  /\ Ids(After(s)) \subseteq Ids(s) /\ IdsOf(Lines(s)) \subseteq Ids(s)
  /\ Distinct(s) => Separate(Lines(s)) /\ IdsOf(Lines(s)) \cap Ids(After(s)) = {}

LEMMA LinesAreApart == ASSUME NEW s \in Seq(Byte) PROVE LinesApart(s)
<1> DEFINE G == {u \in Seq(Byte) : LinesApart(u)}
<1>1. <<>> \in G
  <2>1. After(<<>>) = <<>>
    <3> DEFINE e == <<>>
    <3>1. e \in Seq(Byte) /\ Len(e) = 0
      OBVIOUS
    <3> HIDE DEF e
    <3>2. LastNewline(e) \in 0..Len(e)
      BY <3>1, LastNewlineInRange
    <3>3. After(e) \in Seq(Byte) /\ Len(After(e)) = 0
      <4>1. LastNewline(e) = 0
        BY <3>1, <3>2
      <4>2. After(e) \in Seq(Byte) /\ Len(After(e)) = Len(e) - LastNewline(e)
        BY <3>1, AfterType
      <4> QED
        BY <3>1, <4>1, <4>2
    <3>4. After(e) = <<>>
      BY <3>3, EmptySeq
    <3> QED
      BY <3>4 DEF e
  <2> QED
    BY <2>1, LinesOfEmpty, IdsOfEmpty DEF LinesApart
<1>2. ASSUME NEW u \in Seq(Byte), NEW b \in Byte, u \in G PROVE Append(u, b) \in G
  <2> DEFINE t == Append(u, b)
             a == After(u)
             x == Strip(a)
             ls == Lines(u)
  <2>1. t \in Seq(Byte) /\ a \in Seq(Byte) /\ ls \in Seq(Seq(Byte))
    BY AppendProperties, AfterType, LinesType
  <2>2. Ids(t) = Ids(u) \cup {b.id} /\ (Distinct(t) => Distinct(u) /\ b.id \notin Ids(u))
    BY IdsAppend
  <2>3. After(t) = IF b.k = "nl" THEN <<>> ELSE Append(a, b)
    BY AfterAppend
  <2>4. Lines(t) = IF b.k = "nl" /\ x # <<>> THEN Append(ls, x) ELSE ls
    BY LinesAppend
  <2>5. /\ Ids(a) \subseteq Ids(u) /\ IdsOf(ls) \subseteq Ids(u)
        /\ Distinct(u) => Separate(ls) /\ IdsOf(ls) \cap Ids(a) = {}
    BY <1>2 DEF LinesApart
  <2> HIDE DEF t, a, ls
  <2>6. x \in Seq(Byte) /\ Ids(x) \subseteq Ids(a)
    BY <2>1, VisibleType, IdsStrip
  <2> HIDE DEF x
  <2>7. Ids(Append(a, b)) = Ids(a) \cup {b.id}
    BY <2>1, IdsAppend
  <2>8. /\ IdsOf(Append(ls, x)) = IdsOf(ls) \cup Ids(x)
        /\ Separate(ls) /\ IdsOf(ls) \cap Ids(x) = {} => Separate(Append(ls, x))
    BY <2>1, <2>6, IdsOfAppend
  <2>9. Ids(After(t)) \subseteq Ids(t) /\ IdsOf(Lines(t)) \subseteq Ids(t)
    <3>1. Ids(After(t)) \subseteq Ids(t)
      BY <2>2, <2>3, <2>5, <2>7, IdsOfEmpty
    <3>2. IdsOf(Lines(t)) \subseteq IdsOf(ls) \cup Ids(x)
      BY <2>4, <2>8
    <3> QED
      BY <2>2, <2>5, <2>6, <3>1, <3>2
  <2>10. ASSUME Distinct(t)
         PROVE  Separate(Lines(t)) /\ IdsOf(Lines(t)) \cap Ids(After(t)) = {}
    <3>1. /\ b.id \notin Ids(u) /\ Separate(ls) /\ IdsOf(ls) \subseteq Ids(u)
          /\ IdsOf(ls) \cap Ids(a) = {}
      BY <2>2, <2>5, <2>10
    <3>2. CASE b.k = "nl" /\ x # <<>>
      <4>1. Lines(t) = Append(ls, x) /\ Ids(After(t)) = {}
        BY <2>3, <2>4, <3>2, IdsOfEmpty
      <4>2. Separate(Append(ls, x))
        BY <2>6, <2>8, <3>1
      <4> QED
        BY <2>2, <2>5, <2>6, <2>8, <3>1, <4>1, <4>2
    <3>3. CASE b.k = "nl" /\ x = <<>>
      <4>1. Lines(t) = ls /\ Ids(After(t)) = {}
        BY <2>3, <2>4, <3>3, IdsOfEmpty
      <4> QED
        BY <2>2, <3>1, <4>1
    <3>4. CASE b.k # "nl"
      <4>1. Lines(t) = ls /\ Ids(After(t)) = Ids(a) \cup {b.id}
        BY <2>3, <2>4, <2>7, <3>4
      <4> QED
        BY <2>2, <3>1, <4>1
    <3> QED
      BY <3>2, <3>3, <3>4
  <2>11. LinesApart(t)
    BY <2>9, <2>10 DEF LinesApart
  <2> QED
    BY <2>1, <2>11 DEF t
<1>3. \A u \in Seq(Byte), b \in Byte : u \in G => Append(u, b) \in G
  BY <1>2
<1> HIDE DEF G
<1>4. Seq(Byte) \subseteq G
  BY <1>1, <1>3, SequenceInduction
<1> QED
  BY <1>4 DEF G

\* What flushCompleteLines makes of a buffer has the bytes of the buffer.
LEMMA FlushWithin ==
  ASSUME NEW s \in Seq(Byte), Len(s) <= MaxLine + ReadBuf, sess \in Nat
  PROVE  /\ Texts(Batch(s)) \in Seq(Seq(Byte))
         /\ IdsOf(Texts(Batch(s))) \subseteq Ids(s) /\ Ids(Rest(s)) \subseteq Ids(s)
<1>1. CASE ~Oversized(s)
  <2>1. Texts(Batch(s)) = Lines(s)
    BY <1>1, FlushTakesLines
  <2>2. Rest(s) = After(s)
    BY <1>1 DEF Rest, After
  <2>3. Lines(s) \in Seq(Seq(Byte)) /\ LinesApart(s)
    BY LinesType, LinesAreApart
  <2> QED
    BY <2>1, <2>2, <2>3 DEF LinesApart
<1>2. CASE Oversized(s)
  <2> DEFINE c == SubSeq(s, 1, MaxLine)
             r == Rest(s)
             m == MaxLine + 1
  <2>1. Texts(Batch(s)) = <<c>>
    BY <1>2, FlushCuts
  <2>2. r = SubSeq(s, m, Len(s))
    BY <1>2 DEF Rest
  <2>3. MaxLine \in Nat /\ Len(s) \in Nat /\ MaxLine <= Len(s) /\ m \in Nat /\ 1 <= m /\ 1 <= 1
    BY <1>2, TailerAssumption DEF Oversized
  <2>4. c \in Seq(Byte) /\ Ids(c) = {s[x].id : x \in 1..MaxLine}
    BY <2>3, IdsSlice
  <2>5. r \in Seq(Byte) /\ Ids(r) = {s[x].id : x \in m..Len(s)}
    <3> HIDE DEF m
    <3> QED
      BY <2>2, <2>3, IdsSlice
  <2> HIDE DEF c, r
  <2>6. Ids(c) \subseteq Ids(s) /\ Ids(r) \subseteq Ids(s)
    <3>1. \A x \in 1..MaxLine : x \in DOMAIN s
      BY <2>3
    <3>2. \A x \in m..Len(s) : x \in DOMAIN s
      BY <2>3
    <3> QED
      BY <2>4, <2>5, <3>1, <3>2 DEF Ids
  <2>7. <<c>> \in Seq(Seq(Byte)) /\ IdsOf(<<c>>) = Ids(c)
    <3>1. DOMAIN <<c>> = {1} /\ <<c>>[1] = c
      OBVIOUS
    <3>2. <<c>> \in Seq(Seq(Byte))
      BY <2>4
    <3> QED
      BY <3>1, <3>2 DEF IdsOf
  <2> QED
    BY <2>1, <2>6, <2>7 DEF r
<1> QED
  BY <1>1, <1>2

\* What flushCompleteLines makes of a buffer without repetitions.
LEMMA FlushApart ==
  ASSUME NEW s \in Seq(Byte), Len(s) <= MaxLine + ReadBuf, sess \in Nat, Distinct(s)
  PROVE  /\ Texts(Batch(s)) \in Seq(Seq(Byte)) /\ Separate(Texts(Batch(s)))
         /\ IdsOf(Texts(Batch(s))) \subseteq Ids(s)
         /\ IdsOf(Texts(Batch(s))) \cap Ids(Rest(s)) = {}
         /\ Ids(Rest(s)) \subseteq Ids(s) /\ Distinct(Rest(s))
<1>1. CASE ~Oversized(s)
  <2>1. Texts(Batch(s)) = Lines(s)
    BY <1>1, FlushTakesLines
  <2>2. Rest(s) = After(s)
    BY <1>1 DEF Rest, After
  <2>3. Lines(s) \in Seq(Seq(Byte)) /\ LinesApart(s)
    BY LinesType, LinesAreApart
  <2>4. Distinct(After(s))
    <3> DEFINE l == LastNewline(s) + 1
    <3>1. l \in Nat /\ 1 <= l /\ Len(s) \in Nat
      BY LastNewlineInRange
    <3> HIDE DEF l
    <3>2. Distinct(SubSeq(s, l, Len(s)))
      BY <3>1, IdsSlice
    <3> QED
      BY <3>2 DEF After, l
  <2> QED
    BY <2>1, <2>2, <2>3, <2>4 DEF LinesApart
<1>2. CASE Oversized(s)
  <2> DEFINE c == SubSeq(s, 1, MaxLine)
             r == Rest(s)
             m == MaxLine + 1
  <2>1. Texts(Batch(s)) = <<c>>
    BY <1>2, FlushCuts
  <2>2. r = SubSeq(s, m, Len(s))
    BY <1>2 DEF Rest
  <2>3. MaxLine \in Nat /\ Len(s) \in Nat /\ MaxLine <= Len(s) /\ m \in Nat /\ 1 <= m /\ 1 <= 1
    BY <1>2, TailerAssumption DEF Oversized
  <2>4. c \in Seq(Byte) /\ Ids(c) = {s[x].id : x \in 1..MaxLine}
    BY <2>3, IdsSlice
  <2>5. r \in Seq(Byte) /\ Ids(r) = {s[x].id : x \in m..Len(s)} /\ Distinct(r)
    <3> HIDE DEF m
    <3> QED
      BY <2>2, <2>3, IdsSlice
  <2> HIDE DEF c, r
  <2>6. Ids(c) \subseteq Ids(s) /\ Ids(r) \subseteq Ids(s)
    <3>1. \A x \in 1..MaxLine : x \in DOMAIN s
      BY <2>3
    <3>2. \A x \in m..Len(s) : x \in DOMAIN s
      BY <2>3
    <3> QED
      BY <2>4, <2>5, <3>1, <3>2 DEF Ids
  <2>7. Ids(c) \cap Ids(r) = {}
    <3> SUFFICES ASSUME NEW x \in 1..MaxLine, NEW y \in m..Len(s) PROVE s[x].id # s[y].id
      BY <2>4, <2>5
    <3>1. x \in DOMAIN s /\ y \in DOMAIN s /\ x # y
      BY <2>3
    <3> QED
      BY <3>1 DEF Distinct
  <2>8. <<c>> \in Seq(Seq(Byte)) /\ Separate(<<c>>) /\ IdsOf(<<c>>) = Ids(c)
    <3>1. DOMAIN <<c>> = {1} /\ <<c>>[1] = c
      OBVIOUS
    <3>2. <<c>> \in Seq(Seq(Byte))
      BY <2>4
    <3> QED
      BY <3>1, <3>2 DEF Separate, IdsOf
  <2> QED
    BY <2>1, <2>5, <2>6, <2>7, <2>8 DEF r
<1> QED
  BY <1>1, <1>2

(***************************************************************************)
(* BytesOK and NamesOK are preserved.                                      *)
(***************************************************************************)
LEMMA IdsNat ==
  /\ \A s \in Seq(Byte) : Ids(s) \subseteq Nat
  /\ \A ls \in Seq(Seq(Byte)) : IdsOf(ls) \subseteq Nat
<1>1. ASSUME NEW s \in Seq(Byte) PROVE Ids(s) \subseteq Nat
  <2>1. \A i \in DOMAIN s : s[i] \in Byte
    OBVIOUS
  <2> QED
    BY <2>1 DEF Ids, Byte
<1>2. ASSUME NEW ls \in Seq(Seq(Byte)) PROVE IdsOf(ls) \subseteq Nat
  <2>1. \A j \in DOMAIN ls : ls[j] \in Seq(Byte)
    OBVIOUS
  <2> QED
    BY <1>1, <2>1 DEF IdsOf
<1> QED
  BY <1>1, <1>2

LEMMA PublishedType ==
  ASSUME MessagesOK PROVE Published \in Seq(Seq(Byte))
<1>1. sent \o batch \in Seq(Msg)
  BY ConcatProperties DEF MessagesOK
<1> QED
  BY <1>1, TextsType DEF Published

\* A step that leaves the files and the messages alone.
LEMMA BytesSame ==
  ASSUME BytesOK, UNCHANGED <<data, written, startId>>, Published' = Published,
         UNCHANGED <<fd, lineBuffer>> \/ lineBuffer' = <<>>
  PROVE  BytesOK'
<1>1. Used' = Used
  BY DEF Used, Old
<1>2. CASE UNCHANGED <<fd, lineBuffer>>
  BY <1>1, <1>2 DEF BytesOK
<1>3. CASE lineBuffer' = <<>>
  <2>1. Ids(lineBuffer') = {}
    BY <1>3, IdsOfEmpty
  <2> QED
    BY <1>1, <2>1 DEF BytesOK
<1> QED
  BY <1>2, <1>3

\* The bytes of a file are those it had, or fewer, or one more.
LEMMA DiskBytes == ASSUME IInv, MessagesOK, BytesOK, FileSystem PROVE BytesOK'
<1> USE DEF IInv, TypeOK, FileType, DiskType, HistoryType
<1>0. Used' = Used /\ UNCHANGED <<fd, lineBuffer, startId>>
  <2>1. UNCHANGED <<sent, batch, startId, fd, lineBuffer>>
    BY DEF FileSystem, Write, NewFile, Remove, Truncate, tailer, file, out, seen
  <2> QED
    BY <2>1 DEF Used, Old, Published
<1>1. CASE Write
  <2>1. PICK i \in Inodes, k \in Kinds :
          data' = [data EXCEPT ![i] = Append(@, [id |-> written + 1, k |-> k])]
    BY <1>1 DEF Write
  <2>2. written' = written + 1
    BY <1>1 DEF Write
  <2> DEFINE b == [id |-> written + 1, k |-> k]
  <2>3. b \in Byte /\ b.id = written + 1
    <3>1. k \in {"ch", "nl", "cr"} /\ written + 1 \in Nat
      BY TailerAssumption
    <3> QED
      BY <3>1 DEF Byte
  <2>4. data'[i] = Append(data[i], b) /\ \A j \in Inodes : j # i => data'[j] = data[j]
    BY <2>1
  <2> HIDE DEF b
  <2>5. /\ Ids(data'[i]) = Ids(data[i]) \cup {written + 1}
        /\ Distinct(data'[i]) <=> Distinct(data[i]) /\ written + 1 \notin Ids(data[i])
    BY <2>3, <2>4, IdsAppend
  <2>6. \A j \in Inodes : Ids(data[j]) \subseteq Nat
    BY IdsNat
  <2>7. Ids(lineBuffer) \cup Used \subseteq Nat
    BY PublishedType, IdsNat DEF Used, Old
  <2>8. \A j \in Inodes : written + 1 \notin Ids(data[j])
    BY <2>6 DEF BytesOK
  <2>9. written + 1 \notin Ids(lineBuffer) \cup Used
    BY <2>7 DEF BytesOK
  <2>10. ASSUME NEW j \in Inodes
         PROVE  Distinct(data'[j]) /\ \A id \in Ids(data'[j]) : id <= written'
    <3>1. \A id \in Ids(data[j]) : id <= written /\ id \in Nat
      BY <2>6 DEF BytesOK
    <3>2. CASE j = i
      <4>1. Distinct(data'[j])
        BY <2>5, <2>8, <3>2 DEF BytesOK
      <4>2. ASSUME NEW id \in Ids(data'[j]) PROVE id <= written'
        <5>1. id \in Ids(data[j]) \/ id = written + 1
          BY <2>5, <3>2
        <5>2. id \in Nat /\ id <= written + 1
          BY <3>1, <5>1
        <5> QED
          BY <2>2, <5>2
      <4> QED
        BY <4>1, <4>2
    <3>3. CASE j # i
      <4>1. data'[j] = data[j] /\ Distinct(data[j])
        BY <2>4, <3>3 DEF BytesOK
      <4>2. \A id \in Ids(data[j]) : id <= written'
        BY <2>2, <3>1
      <4> QED
        BY <4>1, <4>2
    <3> QED
      BY <3>2, <3>3
  <2>11. ASSUME NEW j \in Inodes, NEW l \in Inodes, j # l
         PROVE  Ids(data'[j]) \cap Ids(data'[l]) = {}
    <3>1. Ids(data[j]) \cap Ids(data[l]) = {}
      BY <2>11 DEF BytesOK
    <3> QED
      BY <2>4, <2>5, <2>8, <2>11, <3>1
  <2>12. ASSUME NEW j \in Inodes \ {fd'} PROVE Ids(data'[j]) \cap Ids(lineBuffer') = {}
    <3>1. Ids(data[j]) \cap Ids(lineBuffer) = {}
      BY <1>0 DEF BytesOK
    <3>2. Ids(lineBuffer') = Ids(lineBuffer)
      BY <1>0
    <3>3. Ids(data'[j]) \subseteq Ids(data[j]) \cup {written + 1}
      <4>1. CASE j = i
        BY <2>5, <4>1
      <4>2. CASE j # i
        BY <2>4, <4>2
      <4> QED
        BY <4>1, <4>2
    <3> QED
      BY <2>9, <3>1, <3>2, <3>3
  <2>13. \A id \in Ids(lineBuffer) \cup Used : id <= written'
    <3>1. \A id \in Ids(lineBuffer) \cup Used : id <= written /\ id \in Nat
      BY <2>7 DEF BytesOK
    <3> QED
      BY <2>2, <3>1
  <2>14. startId' <= written'
    BY <1>0, <2>2 DEF BytesOK
  <2> QED
    BY <1>0, <2>10, <2>11, <2>12, <2>13, <2>14 DEF BytesOK
<1>2. ASSUME NEW i \in Inodes, data' = [data EXCEPT ![i] = <<>>] \/ data' = data, written' = written
      PROVE  BytesOK'
  <2>1. \A j \in Inodes : data'[j] = data[j] \/ data'[j] = <<>>
    BY <1>2
  <2>2. \A j \in Inodes : Ids(data'[j]) \subseteq Ids(data[j]) /\ Distinct(data'[j])
    BY <2>1, IdsOfEmpty DEF BytesOK
  <2>3. \A j, l \in Inodes : j # l => Ids(data'[j]) \cap Ids(data'[l]) = {}
    BY <2>2 DEF BytesOK
  <2>4. \A j \in Inodes \ {fd'} : Ids(data'[j]) \cap Ids(lineBuffer') = {}
    BY <1>0, <2>2 DEF BytesOK
  <2>5. \A j \in Inodes : \A id \in Ids(data'[j]) : id <= written'
    BY <1>2, <2>2 DEF BytesOK
  <2>6. (\A id \in Ids(lineBuffer') \cup Used' : id <= written') /\ startId' <= written'
    BY <1>0, <1>2 DEF BytesOK
  <2> QED
    BY <2>2, <2>3, <2>4, <2>5, <2>6 DEF BytesOK
<1>3. ASSUME NEW p \in Paths, NewFile(p) PROVE BytesOK'
  <2>1. PICK i \in Inodes : data' = [data EXCEPT ![i] = <<>>]
    BY <1>3 DEF NewFile
  <2> QED
    BY <1>2, <1>3, <2>1 DEF NewFile
<1>4. ASSUME NEW p \in Paths, Truncate(p) PROVE BytesOK'
  <2>1. dir[p] \in Inodes /\ data' = [data EXCEPT ![dir[p]] = <<>>] /\ written' = written
    BY <1>4 DEF Truncate
  <2> QED
    BY <1>2, <2>1
<1>5. ASSUME NEW p \in Paths, Remove(p) PROVE BytesOK'
  <2>1. dir[p] \in Inodes /\ data' = data /\ written' = written
    BY <1>5 DEF Remove
  <2> QED
    BY <1>2, <2>1
<1> QED
  BY <1>1, <1>3, <1>4, <1>5 DEF FileSystem

LEMMA PlainBytes ==
  ASSUME BytesOK, PlainStep \/ Cancel \/ UNCHANGED vars \/ (OpenFile /\ OpenFails)
  PROVE  BytesOK'
<1>1. /\ UNCHANGED <<data, written, startId>> /\ UNCHANGED <<sent, batch>>
      /\ UNCHANGED <<fd, lineBuffer>> \/ lineBuffer' = <<>>
  BY PlainEffect
<1>2. Published' = Published
  BY <1>1 DEF Published
<1> QED
  BY <1>1, <1>2, BytesSame

LEMMA OpenBytes == ASSUME IInv, BytesOK, OpenFile, ~OpenFails PROVE BytesOK'
<1>1. fd = NoFile
  BY DEF OpenFile, At, IInv, FileOpenWhenUsed
<1>2. /\ startId' \in {startId, written} /\ UNCHANGED <<lineBuffer, sent, batch, data, written>>
  BY DEF OpenFile, disk, out
<1>3. Ids(lineBuffer') = {}
  BY <1>1, <1>2, IdsOfEmpty DEF IInv, BufferIsTail
<1>4. startId \in Nat /\ written \in Nat
  BY DEF IInv, TypeOK, DiskType, HistoryType
<1>5. startId' <= written'
  BY <1>2, <1>4 DEF BytesOK
<1>6. \A id \in Used' : id <= written
  <2>1. \A id \in IdsOf(Published) : id <= written
    BY DEF BytesOK, Used
  <2>2. Published' = Published
    BY <1>2 DEF Published
  <2>3. \A id \in Old' : id <= written
    <3>1. \A id \in 0..startId' : id <= written
      BY <1>2, <1>4 DEF BytesOK
    <3> QED
      BY <3>1 DEF Old
  <2> QED
    BY <2>1, <2>2, <2>3 DEF Used
<1> QED
  BY <1>2, <1>3, <1>5, <1>6 DEF BytesOK

\* A read moves bytes of the open file to the buffer, and from there to the messages.
LEMMA ReadPublishes ==
  ASSUME IInv, MessagesOK, Read
  PROVE  \/ UNCHANGED <<batch, lineBuffer, offset>> /\ Published' = Published
         \/ \E n : /\ ReadsBytes(n) /\ n > 0
                   /\ Published' = Published \o Texts(Batch(Buffer(n)))
<1>1. PICK n : ReadsBytes(n)
  BY ReadEffect
<1>2. pc = "read" /\ UNCHANGED <<sent, sess>>
  BY ReadEffect
<1>3. n \in Nat /\ batch = <<>> /\ sent \in Seq(Msg) /\ sess \in Nat /\ offset \in Nat
  BY <1>1, <1>2 DEF ReadsBytes, MessagesOK, IInv, TypeOK, HistoryType, FileType
<1>4. CASE n = 0
  <2>1. UNCHANGED <<batch, lineBuffer, offset>>
    BY <1>1, <1>3, <1>4 DEF ReadsBytes
  <2> QED
    BY <1>2, <2>1 DEF Published
<1>5. CASE n # 0
  <2> DEFINE B == Batch(Buffer(n))
  <2>1. batch' = B /\ n > 0
    BY <1>1, <1>3, <1>5 DEF ReadsBytes
  <2>2. B \in Seq(Msg)
    <3>1. Buffer(n) \in Seq(Byte) /\ Len(Buffer(n)) <= MaxLine + ReadBuf
      BY <1>1, <2>1 DEF ReadsBytes
    <3> QED
      BY <1>3, <3>1, FlushTakes
  <2> HIDE DEF B
  <2>3. Texts(sent \o B) = Texts(sent) \o Texts(B)
    BY <1>3, <2>2, TextsConcat
  <2>4. sent \o batch = sent
    BY <1>3, ConcatEmptySeq
  <2>5. Published' = Published \o Texts(B)
    BY <1>2, <2>1, <2>3, <2>4 DEF Published
  <2> QED
    BY <1>1, <2>1, <2>5 DEF B
<1> QED
  BY <1>4, <1>5

\* What the buffer holds after n more bytes.
LEMMA BufferIds ==
  ASSUME IInv, BytesOK, fd \in Inodes, NEW n, ReadsBytes(n), n > 0
  PROVE  LET c == SubSeq(data[fd], offset + 1, offset + n)
         IN  /\ Buffer(n) = lineBuffer \o c /\ c \in Seq(Byte) /\ Distinct(c)
             /\ Ids(Buffer(n)) = Ids(lineBuffer) \cup Ids(c)
             /\ Ids(c) = {data[fd][x].id : x \in (offset + 1)..(offset + n)}
             /\ Ids(c) \subseteq Ids(data[fd])
<1> DEFINE d == data[fd]
           i == offset + 1
           j == offset + n
           c == SubSeq(d, i, j)
<1>1. /\ d \in Seq(Byte) /\ lineBuffer \in Seq(Byte) /\ i \in Nat /\ j \in Nat /\ 1 <= i
      /\ j <= Len(d) /\ Distinct(d)
  BY DEF IInv, TypeOK, FileType, DiskType, ReadsBytes, BytesOK
<1>2. Buffer(n) = lineBuffer \o c
  BY DEF Buffer
<1> HIDE DEF d, i, j
<1>3. c \in Seq(Byte) /\ Ids(c) = {d[x].id : x \in i..j} /\ Distinct(c)
  BY <1>1, IdsSlice
<1>4. \A x \in i..j : x \in DOMAIN d
  BY <1>1
<1>5. Ids(c) \subseteq Ids(d)
  BY <1>3, <1>4 DEF Ids
<1> HIDE DEF c
<1>6. Ids(lineBuffer \o c) = Ids(lineBuffer) \cup Ids(c)
  BY <1>1, <1>3, IdsConcat
<1>7. Ids(Buffer(n)) = Ids(lineBuffer) \cup Ids(c)
  BY <1>2, <1>6
<1> QED
  BY <1>2, <1>3, <1>5, <1>7 DEF c, d, i, j

LEMMA ReadBytesOK ==
  ASSUME IInv, MessagesOK, BytesOK, Read, fd # NoFile
  PROVE  BytesOK'
<1>1. fd \in Inodes /\ UNCHANGED <<data, written, fd, startId>> /\ sess \in Nat
  BY ReadEffect DEF IInv, TypeOK, HistoryType
<1>2. CASE UNCHANGED <<batch, lineBuffer, offset>> /\ Published' = Published
  BY <1>1, <1>2, BytesSame
<1>3. ASSUME NEW n, ReadsBytes(n), n > 0, Published' = Published \o Texts(Batch(Buffer(n)))
      PROVE  BytesOK'
  <2> DEFINE s == Buffer(n)
             T == Texts(Batch(s))
  <2>1. /\ s \in Seq(Byte) /\ Len(s) <= MaxLine + ReadBuf /\ lineBuffer' = Rest(s)
        /\ Ids(s) \subseteq Ids(lineBuffer) \cup Ids(data[fd])
    BY <1>1, <1>3, BufferIds DEF ReadsBytes
  <2> HIDE DEF s
  <2>2. T \in Seq(Seq(Byte)) /\ IdsOf(T) \subseteq Ids(s) /\ Ids(Rest(s)) \subseteq Ids(s)
    BY <1>1, <2>1, FlushWithin
  <2>3. IdsOf(Published') = IdsOf(Published) \cup IdsOf(T)
    <3> HIDE DEF T
    <3>1. IdsOf(Published \o T) = IdsOf(Published) \cup IdsOf(T)
      BY <2>2, PublishedType, IdsOfConcat
    <3> QED
      BY <1>3, <3>1 DEF T, s
  <2>4. Old' = Old
    BY <1>1 DEF Old
  <2>5. Ids(lineBuffer') \cup Used' \subseteq Ids(lineBuffer) \cup Used \cup Ids(data[fd])
    BY <2>1, <2>2, <2>3, <2>4 DEF Used
  <2>6. \A id \in Ids(lineBuffer') \cup Used' : id <= written
    BY <1>1, <2>5 DEF BytesOK
  <2>7. \A i \in Inodes \ {fd} : Ids(data[i]) \cap Ids(lineBuffer') = {}
    <3> SUFFICES ASSUME NEW i \in Inodes \ {fd} PROVE Ids(data[i]) \cap Ids(lineBuffer') = {}
      OBVIOUS
    <3>1. Ids(data[i]) \cap Ids(lineBuffer) = {} /\ Ids(data[i]) \cap Ids(data[fd]) = {}
      BY <1>1 DEF BytesOK
    <3> QED
      BY <2>1, <2>2, <3>1
  <2> QED
    BY <1>1, <2>6, <2>7 DEF BytesOK
<1> QED
  BY <1>2, <1>3, ReadPublishes

\* What has been published stays so; a panic may lose messages of the batch.
LEMMA PublishedSteps ==
  ASSUME MessagesOK, PublishBatch \/ Panic
  PROVE  /\ PublishBatch => Published' = Published
         /\ IdsOf(Published') \subseteq IdsOf(Published)
         /\ Separate(Published) => Separate(Published')
<1>0. sent \in Seq(Msg) /\ batch \in Seq(Msg)
  BY DEF MessagesOK
<1>1. ASSUME NEW c \in Seq(Msg) PROVE Texts(c \o <<>>) = Texts(c)
  <2>1. c \o <<>> = c
    BY ConcatEmptySeq
  <2> QED
    BY <2>1
<1>2. ASSUME PublishBatch PROVE Published' = Published
  <2> DEFINE c == sent \o batch
  <2>1. sent' = c /\ batch' = <<>>
    BY <1>2 DEF PublishBatch
  <2>2. c \in Seq(Msg)
    BY <1>0, ConcatProperties
  <2> HIDE DEF c
  <2>3. Texts(sent' \o batch') = Texts(c)
    BY <1>1, <2>1, <2>2
  <2> QED
    BY <2>3 DEF Published, c
<1>3. ASSUME Panic
      PROVE  IdsOf(Published') \subseteq IdsOf(Published) /\ (Separate(Published) => Separate(Published'))
  <2>1. PICK n \in 0..Len(batch) : sent' = sent \o SubSeq(batch, 1, n)
    BY <1>3 DEF Panic
  <2>2. batch' = <<>>
    BY <1>3 DEF Panic
  <2> DEFINE p == SubSeq(batch, 1, n)
             m == n + 1
             q == SubSeq(batch, m, Len(batch))
  <2>3. p \in Seq(Msg)
    BY <1>0, FirstMessages
  <2>4. q \in Seq(Msg) /\ batch = p \o q
    <3>1. n \in Nat /\ Len(batch) \in Nat /\ m \in Nat /\ 1 <= m
      BY <1>0
    <3>2. \A i \in m..Len(batch) : batch[i] \in Msg
      BY <1>0, <3>1
    <3>3. SubSeq(batch, 1, n) \o SubSeq(batch, n + 1, Len(batch)) = SubSeq(batch, 1, Len(batch))
      <4>1. 1 \in 1..(Len(batch) + 1) /\ n \in (1 - 1)..Len(batch) /\ Len(batch) \in n..Len(batch)
        BY <3>1
      <4> QED
        BY <1>0, <4>1, ConcatAdjacentSubSeq
    <3>4. SubSeq(batch, 1, Len(batch)) = batch
      BY <1>0, SubSeqFull
    <3>5. batch = p \o q
      BY <3>3, <3>4
    <3> HIDE DEF m
    <3>6. q \in Seq(Msg)
      BY <3>1, <3>2, SubSeqProperties
    <3> QED
      BY <3>5, <3>6
  <2>5. sent' = sent \o p
    BY <2>1
  <2> HIDE DEF p, q
  <2> DEFINE S == Texts(sent)
             P == Texts(p)
             Q == Texts(q)
  <2>6. S \in Seq(Seq(Byte)) /\ P \in Seq(Seq(Byte)) /\ Q \in Seq(Seq(Byte))
    BY <1>0, <2>3, <2>4, TextsType
  <2>7. sent \o p \in Seq(Msg) /\ Texts(sent \o p) = S \o P
    BY <1>0, <2>3, TextsConcat, ConcatProperties
  <2>8. Texts(sent \o batch) = S \o (P \o Q)
    <3>1. Texts(p \o q) = P \o Q
      BY <2>3, <2>4, TextsConcat
    <3>2. Texts(sent \o batch) = S \o Texts(batch)
      BY <1>0, TextsConcat
    <3> QED
      BY <2>4, <3>1, <3>2
  <2>9. Published' = S \o P
    <3>1. Texts(sent' \o batch') = Texts(sent \o p)
      BY <1>1, <2>2, <2>5, <2>7
    <3> QED
      BY <2>7, <3>1 DEF Published
  <2> HIDE DEF S, P, Q
  <2>10. S \o (P \o Q) = (S \o P) \o Q /\ S \o P \in Seq(Seq(Byte))
    <3> DEFINE T == Seq(Byte)
    <3>1. S \in Seq(T) /\ P \in Seq(T) /\ Q \in Seq(T)
      BY <2>6
    <3> HIDE DEF T
    <3>2. S \o P \in Seq(T)
      BY <3>1, ConcatProperties
    <3>3. (S \o P) \o Q = S \o (P \o Q)
      BY <3>1, ConcatAssociative
    <3> QED
      BY <3>2, <3>3 DEF T
  <2>11. Published = (S \o P) \o Q
    BY <2>8, <2>10 DEF Published, S, P, Q
  <2> DEFINE a == S \o P
  <2>12. a \in Seq(Seq(Byte)) /\ Published' = a /\ Published = a \o Q
    BY <2>9, <2>10, <2>11
  <2> HIDE DEF a
  <2>13. IdsOf(a \o Q) = IdsOf(a) \cup IdsOf(Q) /\ (Separate(a \o Q) => Separate(a))
    BY <2>6, <2>12, IdsOfConcat
  <2> QED
    BY <2>12, <2>13
<1> QED
  BY <1>2, <1>3

LEMMA NextBytes == IInv /\ MessagesOK /\ BytesOK /\ [Next]_vars => BytesOK'
<1> SUFFICES ASSUME IInv, MessagesOK, BytesOK, [Next]_vars PROVE BytesOK'
  OBVIOUS
<1>1. CASE FileSystem
  BY <1>1, DiskBytes
<1>2. CASE Read
  BY <1>2, ReadBytesOK, ReadEffect
<1>3. CASE PublishBatch
  <2>1. /\ UNCHANGED <<data, written, startId>>
        /\ UNCHANGED <<fd, lineBuffer>> \/ lineBuffer' = <<>>
    BY <1>3 DEF PublishBatch, CloseFile, file, disk
  <2> QED
    BY <1>3, <2>1, PublishedSteps, BytesSame
<1>4. CASE Panic
  <2>1. UNCHANGED <<data, written, startId>> /\ lineBuffer' = <<>>
    BY <1>4 DEF Panic, disk, seen
  <2>2. Ids(lineBuffer') = {}
    BY <2>1, IdsOfEmpty
  <2>3. Used' \subseteq Used
    BY <1>4, <2>1, PublishedSteps DEF Used, Old
  <2> QED
    BY <2>1, <2>2, <2>3 DEF BytesOK
<1>5. CASE OpenFile /\ ~OpenFails
  BY <1>5, OpenBytes
<1>6. CASE PlainStep \/ Cancel \/ UNCHANGED vars \/ (OpenFile /\ OpenFails)
  BY <1>6, PlainBytes
<1> QED
  BY <1>1, <1>2, <1>3, <1>4, <1>5, <1>6, NextCases

LEMMA DiskNames == ASSUME IInv, NamesOK, FileSystem PROVE NamesOK'
<1> USE DEF IInv, TypeOK, DiskType
<1>0. UNCHANGED <<fd, path, startAtEnd, faulted, fileIno, switchPending, pc, restarts, sent>>
  BY DEF FileSystem, Write, NewFile, Remove, Truncate, tailer, file, look, out, env, seen
<1>1. CASE Write \/ \E p \in Paths : Truncate(p)
  <2>1. UNCHANGED <<dir, gone>>
    BY <1>1 DEF Write, Truncate, seen
  <2> QED
    BY <1>0, <2>1 DEF NamesOK
<1>2. ASSUME NEW p \in Paths, NewFile(p) PROVE NamesOK'
  <2>1. PICK i \in Inodes \ (Linked \cup {fd}) :
          dir' = [dir EXCEPT ![p] = i] /\ gone' = gone \ {i}
    BY <1>2 DEF NewFile
  <2>2. \A q \in Paths : dir'[q] = IF q = p THEN i ELSE dir[q]
    BY <2>1
  <2>3. \A q \in Paths : dir[q] # i
    BY <2>1, TailerAssumption DEF Linked
  <2>4. i # fd /\ ~Glob => gone' = {}
    BY <2>1 DEF NamesOK
  <2>5. \A q, r \in Paths : dir'[q] = dir'[r] => q = r \/ dir'[q] = NoFile
    BY <2>2, <2>3 DEF NamesOK
  <2>6. \A q \in Paths : fd # NoFile /\ dir'[q] = fd => q = path
    BY <2>1, <2>2 DEF NamesOK
  <2> QED
    BY <1>0, <2>1, <2>4, <2>5, <2>6 DEF NamesOK
<1>3. ASSUME NEW p \in Paths, Remove(p) PROVE NamesOK'
  <2>1. dir' = [dir EXCEPT ![p] = NoFile] /\ gone' = gone
    BY <1>3 DEF Remove, seen
  <2>2. \A q \in Paths : dir'[q] = IF q = p THEN NoFile ELSE dir[q]
    BY <2>1
  <2> QED
    BY <1>0, <2>1, <2>2 DEF NamesOK
<1> QED
  BY <1>1, <1>2, <1>3 DEF FileSystem

LEMMA NextNames == IInv /\ NamesOK /\ [Next]_vars => NamesOK'
<1> SUFFICES ASSUME IInv, NamesOK, [Next]_vars PROVE NamesOK'
  OBVIOUS
<1> USE DEF At, Goto
<1>1. CASE FileSystem
  BY <1>1, DiskNames
<1>2. CASE Cancel \/ UNCHANGED vars
  BY <1>2 DEF NamesOK, Cancel, vars, disk, tailer, file, look, out, env, session, seen
<1>3. CASE LoopTop
  BY <1>3 DEF NamesOK, LoopTop, BeginCycle, CloseFile, disk, file, look, out, env, session, seen
<1>4. CASE FindFile
  <2>1. fd = NoFile
    BY <1>4 DEF FindFile, IInv, FileOpenWhenUsed
  <2> QED
    BY <1>4, <2>1 DEF NamesOK, FindFile, disk, out, env, session, seen
<1>5. CASE OpenStat \/ (OpenFile /\ OpenFails)
  <2>1. fd = NoFile
    BY <1>5 DEF OpenStat, OpenFile, IInv, FileOpenWhenUsed
  <2> QED
    BY <1>5, <2>1 DEF NamesOK, OpenStat, OpenFails, IOError, disk, file, look, out, env, session, seen
<1>6. CASE OpenFile /\ ~OpenFails
  <2>1. /\ dir[path] # NoFile /\ fd' = dir[path] /\ startAtEnd' = FALSE
        /\ faulted' = (faulted \/ dir[path] # fileIno) /\ pc' \in {"check", "fstat"}
        /\ UNCHANGED <<dir, path, fileIno, switchPending, gone>>
    BY <1>6 DEF OpenFile, BeginCycle, disk
  <2>2. path \in Paths
    BY DEF IInv, TypeOK, FileType
  <2> QED
    BY <2>1, <2>2 DEF NamesOK
<1>7. CASE CheckPresent
  BY <1>7 DEF NamesOK, CheckPresent, CloseFile, disk, file, look, out, env, session, seen
<1>8. CASE CheckReplaced
  BY <1>8 DEF NamesOK, CheckReplaced, CloseFile, IOError, disk, file, look, out, env, session, seen
<1>9. CASE StatCurrent \/ FindNewer
  <2>1. UNCHANGED <<dir, fd, path, startAtEnd, faulted, fileIno, gone, restarts, sent>> /\ Glob
    BY <1>9 DEF NamesOK, StatCurrent, FindNewer, IOError, disk, file, out, env, session, seen
  <2> QED
    BY <2>1 DEF NamesOK
<1>10. CASE StatFile
  BY <1>10 DEF NamesOK, StatFile, ReadOrDrained, CloseFile, IOError, disk, file, look, out, env, session, seen
<1>11. CASE Read
  BY <1>11 DEF NamesOK, Read, IOError, disk, look, out, env, session, seen
<1>12. CASE PublishBatch
  <2>1. fd # NoFile
    BY <1>12 DEF PublishBatch, IInv, FileOpenWhenUsed
  <2> QED
    BY <1>12, <2>1 DEF NamesOK, PublishBatch, CloseFile, disk, file, look, env, session, seen
<1>13. CASE Restat
  BY <1>13 DEF NamesOK, Restat, ReadOrDrained, CloseFile, IOError, disk, file, look, out, env, session, seen
<1>14. CASE AfterDrain \/ Wake
  BY <1>14 DEF NamesOK, AfterDrain, Wake, CloseFile, disk, file, look, out, env, session, seen
<1>15. CASE Panic
  <2>1. restarts' # 0
    <3>1. restarts \in Nat /\ restarts' = restarts + 1
      BY <1>15 DEF Panic, IInv, TypeOK, EnvType
    <3> QED
      BY <3>1
  <2> QED
    BY <1>15, <2>1 DEF NamesOK, Panic, disk, session, seen
<1> QED
  BY <1>1, <1>2, <1>3, <1>4, <1>5, <1>6, <1>7, <1>8, <1>9, <1>10, <1>11, <1>12, <1>13, <1>14,
     <1>15 DEF Next, Run, Returned

(***************************************************************************)
(* UnreadOK is preserved.                                                  *)
(***************************************************************************)
LEMMA ExcusedStays == ASSUME IInv, [Next]_vars, Excused PROVE Excused'
<1>1. restarts \in Nat
  BY DEF IInv, TypeOK, EnvType
<1>2. (faulted => faulted') /\ restarts' \in {restarts, restarts + 1}
  <2>1. CASE FileSystem \/ Cancel \/ UNCHANGED vars \/ Panic
    BY <2>1 DEF FileSystem, Write, NewFile, Remove, Truncate, Cancel, Panic, vars, env, seen
  <2>2. CASE Run
    <3>0. CASE OpenFile
      <4>1. CASE OpenFails
        BY <4>1 DEF OpenFails, IOError, env, seen
      <4>2. CASE ~OpenFails
        <5>1. faulted' = (faulted \/ dir[path] # fileIno) /\ restarts' = restarts
          BY <3>0, <4>2 DEF OpenFile, env
        <5>2. faulted => faulted'
          BY <5>1
        <5> QED
          BY <5>1, <5>2
      <4> QED
        BY <4>1, <4>2
    <3>1. CASE LoopTop \/ FindFile \/ OpenStat \/ CheckPresent \/ CheckReplaced
      BY <3>1 DEF LoopTop, FindFile, OpenStat, OpenFails, CheckPresent, CheckReplaced,
        IOError, env, seen
    <3>2. CASE StatCurrent \/ FindNewer \/ StatFile \/ Read
      BY <3>2 DEF StatCurrent, FindNewer, StatFile, Read, IOError, env, seen
    <3>3. CASE PublishBatch \/ Restat \/ AfterDrain \/ Wake
      BY <3>3 DEF PublishBatch, Restat, AfterDrain, Wake, IOError, env, seen
    <3> QED
      BY <2>2, <3>0, <3>1, <3>2, <3>3 DEF Run
  <2> QED
    BY <2>1, <2>2 DEF Next, Returned
<1>3. restarts > 0 => restarts' > 0
  BY <1>1, <1>2
<1> QED
  BY <1>2, <1>3 DEF Excused

LEMMA UsedSame ==
  ASSUME Published' = Published, startId' = startId PROVE Old' = Old /\ Used' = Used
  BY DEF Used, Old

\* A step that leaves the files, the open one and the messages alone.
LEMMA UnreadSame ==
  ASSUME Unread, UNCHANGED <<data, dir, fd, offset, lineBuffer, startAtEnd, gone, startId>>,
         Published' = Published, Glob \/ path' = path, pc = "done" => pc' = "done"
  PROVE  Unread'
<1>1. Old' = Old /\ Used' = Used
  BY UsedSame
<1>2. OpenUnread'
  BY <1>1 DEF Unread, OpenUnread
<1>3. \A p : MayOpen(p)' => MayOpen(p)
  BY DEF MayOpen
<1>4. FilesUnread'
  BY <1>1, <1>3 DEF Unread, FilesUnread
<1> QED
  BY <1>1, <1>2, <1>4 DEF Unread

\* The file is closed: Run returns, or the file is not opened again, or it holds nothing
\* that was used.
LEMMA UnreadClosed ==
  ASSUME Unread, fd' = NoFile, UNCHANGED <<data, dir, path, startAtEnd, startId>>,
         Published' = Published, gone \subseteq gone', pc # "done",
         \/ pc' = "done"
         \/ fd \in gone'
         \/ \A p \in Paths : dir[p] # fd
         \/ Ids(data[fd]) \cap Used = {}
  PROVE  Unread'
<1>1. Old' = Old /\ Used' = Used
  BY UsedSame
<1>2. OpenUnread'
  BY DEF OpenUnread
<1>3. FilesUnread'
  <2> SUFFICES ASSUME pc' # "done", NEW p \in Paths, MayOpen(p)', dir'[p] # NoFile,
                      dir'[p] \notin gone'
               PROVE  Ids(data'[dir'[p]]) \cap Used' = {}
    BY DEF FilesUnread
  <2>1. MayOpen(p) /\ dir[p] \notin gone /\ dir[p] # NoFile
    BY DEF MayOpen
  <2>2. CASE dir[p] # fd
    BY <1>1, <2>1, <2>2 DEF Unread, FilesUnread
  <2>3. CASE dir[p] = fd
    BY <1>1, <2>3
  <2> QED
    BY <2>2, <2>3
<1> QED
  BY <1>1, <1>2, <1>3 DEF Unread

\* A file grows with a new byte, or is emptied, or is a new one.
LEMMA DiskUnread ==
  ASSUME IInv, MessagesOK, BytesOK, NamesOK, Unread, FileSystem
  PROVE  Unread'
<1> USE DEF IInv, TypeOK, DiskType, FileType
<1>0. /\ UNCHANGED <<fd, offset, lineBuffer, startAtEnd, startId, path, pc>>
      /\ Old' = Old /\ Used' = Used /\ Published' = Published
  <2>1. UNCHANGED <<sent, batch, startId, fd, offset, lineBuffer, startAtEnd, path, pc>>
    BY DEF FileSystem, Write, NewFile, Remove, Truncate, tailer, file, out, seen
  <2>2. Published' = Published
    BY <2>1 DEF Published
  <2> QED
    BY <2>1, <2>2, UsedSame
<1>1. \A p : MayOpen(p)' <=> MayOpen(p)
  BY <1>0 DEF MayOpen
<1>2. CASE Write
  <2>1. PICK i \in Inodes, k \in Kinds :
          data' = [data EXCEPT ![i] = Append(@, [id |-> written + 1, k |-> k])]
    BY <1>2 DEF Write
  <2>2. UNCHANGED <<dir, gone>>
    BY <1>2 DEF Write, seen
  <2> DEFINE b == [id |-> written + 1, k |-> k]
  <2>3. b \in Byte /\ b.id = written + 1
    <3>1. k \in {"ch", "nl", "cr"} /\ written + 1 \in Nat
      BY TailerAssumption
    <3> QED
      BY <3>1 DEF Byte
  <2>4. data'[i] = Append(data[i], b) /\ \A j \in Inodes : j # i => data'[j] = data[j]
    BY <2>1
  <2> HIDE DEF b
  <2>5. Ids(data'[i]) = Ids(data[i]) \cup {written + 1}
    BY <2>3, <2>4, IdsAppend
  <2>6. written + 1 \notin Used \cup Ids(lineBuffer)
    <3>1. Ids(lineBuffer) \cup Used \subseteq Nat
      <4>1. Published \in Seq(Seq(Byte)) /\ startId \in Nat
        BY PublishedType DEF HistoryType
      <4> QED
        BY <4>1, IdsNat DEF Used, Old
    <3> QED
      BY <3>1 DEF BytesOK
  <2>7. \A j \in Inodes : Ids(data[j]) \cap Used = {} => Ids(data'[j]) \cap Used = {}
    BY <2>4, <2>5, <2>6
  <2>8. OpenUnread'
    <3> SUFFICES ASSUME fd # NoFile
                 PROVE  /\ \A x \in DOMAIN data'[fd] :
                             x > offset => data'[fd][x].id \notin Used \cup Ids(lineBuffer)
                        /\ Len(data'[fd]) < offset => Ids(data'[fd]) \cap Used = {}
      BY <1>0 DEF OpenUnread, Unread
    <3>1. fd \in Inodes
      OBVIOUS
    <3>2. CASE fd # i
      BY <2>4, <3>1, <3>2 DEF Unread, OpenUnread
    <3>3. CASE fd = i
      <4> DEFINE d == data[fd]
                 e == data'[fd]
      <4>1. d \in Seq(Byte) /\ e = Append(d, b)
        BY <2>4, <3>1, <3>3
      <4>2. /\ \A x \in DOMAIN d : x > offset => d[x].id \notin Used \cup Ids(lineBuffer)
            /\ Len(d) < offset => Ids(d) \cap Used = {}
        BY DEF Unread, OpenUnread
      <4>3. Ids(d) \cap Used = {} => Ids(e) \cap Used = {}
        BY <2>7, <3>1
      <4> HIDE DEF d, e
      <4>4. /\ e \in Seq(Byte) /\ Len(e) = Len(d) + 1 /\ e[Len(d) + 1] = b
            /\ \A x \in 1..Len(d) : e[x] = d[x]
        BY <2>3, <4>1, AppendProperties
      <4>5. /\ Len(d) \in Nat /\ DOMAIN d = 1..Len(d) /\ DOMAIN e = DOMAIN d \cup {Len(d) + 1}
        BY <4>1, <4>4
      <4>6. ASSUME NEW x \in DOMAIN e, x > offset PROVE e[x].id \notin Used \cup Ids(lineBuffer)
        <5>1. CASE x \in DOMAIN d
          BY <4>2, <4>4, <4>5, <4>6, <5>1
        <5>2. CASE x = Len(d) + 1
          BY <2>3, <2>6, <4>4, <5>2
        <5> QED
          BY <4>5, <5>1, <5>2
      <4>7. Len(e) < offset => Ids(e) \cap Used = {}
        <5>1. Len(e) < offset => Len(d) < offset
          BY <4>4, <4>5
        <5> QED
          BY <4>2, <4>3, <5>1
      <4> QED
        BY <4>6, <4>7 DEF e
    <3> QED
      BY <3>2, <3>3
  <2>9. FilesUnread'
    <3> SUFFICES ASSUME pc # "done", NEW p \in Paths, MayOpen(p), dir[p] # NoFile, dir[p] # fd,
                        dir[p] \notin gone
                 PROVE  Ids(data'[dir[p]]) \cap Used = {}
      BY <1>0, <1>1, <2>2 DEF FilesUnread
    <3>1. dir[p] \in Inodes /\ Ids(data[dir[p]]) \cap Used = {}
      BY DEF Unread, FilesUnread
    <3> QED
      BY <2>7, <3>1
  <2> QED
    BY <1>0, <2>8, <2>9 DEF Unread
<1> DEFINE Moved(i) ==
             \A q \in Paths : /\ \/ dir'[q] = dir[q] \/ dir'[q] = NoFile
                                 \/ dir'[q] = i /\ data'[i] = <<>>
                              /\ dir'[q] \in gone => \/ dir'[q] \in gone'
                                                     \/ dir'[q] = i /\ data'[i] = <<>>
<1>3. ASSUME NEW i \in Inodes, data' = [data EXCEPT ![i] = <<>>] \/ data' = data, Moved(i)
      PROVE  Unread'
  <2>1. \A j \in Inodes : data'[j] = data[j] \/ data'[j] = <<>>
    BY <1>3
  <2>2. OpenUnread'
    <3> SUFFICES ASSUME fd # NoFile
                 PROVE  /\ \A x \in DOMAIN data'[fd] :
                             x > offset => data'[fd][x].id \notin Used \cup Ids(lineBuffer)
                        /\ Len(data'[fd]) < offset => Ids(data'[fd]) \cap Used = {}
      BY <1>0 DEF OpenUnread, Unread
    <3>1. fd \in Inodes
      OBVIOUS
    <3>2. CASE data'[fd] = data[fd]
      BY <3>2 DEF Unread, OpenUnread
    <3>3. CASE data'[fd] = <<>>
      BY <3>3, IdsOfEmpty
    <3> QED
      BY <2>1, <3>1, <3>2, <3>3
  <2>3. FilesUnread'
    <3> SUFFICES ASSUME pc # "done", NEW p \in Paths, MayOpen(p), dir'[p] # NoFile, dir'[p] # fd,
                        dir'[p] \notin gone'
                 PROVE  Ids(data'[dir'[p]]) \cap Used = {}
      BY <1>0, <1>1 DEF FilesUnread
    <3>1. CASE dir'[p] = i /\ data'[i] = <<>>
      BY <3>1, IdsOfEmpty
    <3>2. CASE ~(dir'[p] = i /\ data'[i] = <<>>)
      <4>1. dir'[p] = dir[p] /\ dir[p] \notin gone /\ dir[p] \in Inodes
        BY <1>3, <3>2
      <4>2. Ids(data[dir[p]]) \cap Used = {}
        BY <4>1 DEF Unread, FilesUnread
      <4> QED
        BY <2>1, <4>1, <4>2, IdsOfEmpty
    <3> QED
      BY <3>1, <3>2
  <2> QED
    BY <1>0, <2>2, <2>3 DEF Unread
<1>4. ASSUME NEW p \in Paths, NewFile(p) PROVE Unread'
  <2>1. PICK i \in Inodes : /\ data' = [data EXCEPT ![i] = <<>>]
                            /\ dir' = [dir EXCEPT ![p] = i] /\ gone' = gone \ {i}
    BY <1>4 DEF NewFile
  <2>2. data'[i] = <<>> /\ \A q \in Paths : dir'[q] = IF q = p THEN i ELSE dir[q]
    BY <2>1
  <2>3. Moved(i)
    BY <2>1, <2>2
  <2> HIDE DEF Moved
  <2> QED
    BY <1>3, <2>1, <2>3
<1>5. ASSUME NEW p \in Paths, Truncate(p) PROVE Unread'
  <2>1. dir[p] \in Inodes /\ data' = [data EXCEPT ![dir[p]] = <<>>] /\ UNCHANGED <<dir, gone>>
    BY <1>5 DEF Truncate, seen
  <2>2. Moved(dir[p])
    BY <2>1
  <2> HIDE DEF Moved
  <2> QED
    BY <1>3, <2>1, <2>2
<1>6. ASSUME NEW p \in Paths, Remove(p) PROVE Unread'
  <2>1. dir[p] \in Inodes /\ data' = data /\ dir' = [dir EXCEPT ![p] = NoFile] /\ gone' = gone
    BY <1>6 DEF Remove, seen
  <2>2. \A q \in Paths : dir'[q] = dir[q] \/ dir'[q] = NoFile
    BY <2>1
  <2>3. Moved(dir[p])
    BY <2>1, <2>2
  <2> HIDE DEF Moved
  <2> QED
    BY <1>3, <2>1, <2>3
<1> QED
  BY <1>2, <1>4, <1>5, <1>6 DEF FileSystem

LEMMA OpenFileUnread ==
  ASSUME IInv, MessagesOK, BytesOK, NamesOK, GoneOK', Unread, OpenFile, ~OpenFails, ~Excused'
  PROVE  Unread'
<1>1. fd = NoFile /\ pc = "open2" /\ path \in Paths /\ dir[path] \in Inodes /\ dir[path] # NoFile
  BY DEF OpenFile, At, IInv, FileOpenWhenUsed, TypeOK, DiskType, FileType
<1>2. /\ fd' = dir[path] /\ offset' = OpenOffset(dir[path]) /\ startAtEnd' = FALSE
      /\ startId' = (IF startAtEnd /\ restarts = 0 THEN written ELSE startId)
      /\ UNCHANGED <<lineBuffer, sent, batch, data, dir, written, path, gone, restarts>>
      /\ pc' # "done"
  BY DEF OpenFile, BeginCycle, Goto, disk, out, env
<1>3. lineBuffer' = <<>> /\ Published' = Published
  BY <1>1, <1>2 DEF IInv, BufferIsTail, Published
<1>4. fd' \notin gone
  <2>1. CASE Glob
    <3>1. ~faulted' /\ ~(restarts' > 0)
      BY <2>1 DEF Excused
    <3> QED
      BY <1>2, <3>1 DEF GoneOK, LeftOK
  <2>2. CASE ~Glob
    BY <2>2 DEF NamesOK
  <2> QED
    BY <2>1, <2>2
<1>5. CASE startAtEnd
  <2>1. offset' = Len(data[dir[path]])
    BY <1>2, <1>5 DEF OpenOffset
  <2>2. data[dir[path]] \in Seq(Byte)
    BY <1>1 DEF IInv, TypeOK, DiskType
  <2>3. /\ \A x \in DOMAIN data[dir[path]] : ~(x > Len(data[dir[path]]))
        /\ ~(Len(data[dir[path]]) < Len(data[dir[path]]))
    <3> DEFINE d == data[dir[path]]
    <3>1. d \in Seq(Byte) /\ Len(d) \in Nat /\ DOMAIN d = 1..Len(d)
      BY <2>2
    <3> HIDE DEF d
    <3>2. (\A x \in DOMAIN d : ~(x > Len(d))) /\ ~(Len(d) < Len(d))
      BY <3>1
    <3> QED
      BY <3>2 DEF d
  <2>4. OpenUnread'
    BY <1>2, <1>3, <2>1, <2>3, IdsOfEmpty DEF OpenUnread
  <2>5. IdsOf(Published') \cap Old' = {}
    <3>1. CASE restarts = 0
      <4>1. sent = <<>> /\ batch = <<>>
        BY <1>1, <1>5, <3>1 DEF NamesOK, MessagesOK
      <4>2. <<>> \o <<>> = <<>>
        OBVIOUS
      <4>3. Published = <<>>
        BY <4>1, <4>2, NoTexts DEF Published
      <4> QED
        BY <1>3, <4>3, IdsOfEmpty
    <3>2. CASE restarts # 0
      BY <1>2, <1>3, <3>2 DEF Unread, Old
    <3> QED
      BY <3>1, <3>2
  <2>6. FilesUnread'
    <3>1. CASE ~Glob
      <4>1. \A p \in Paths : MayOpen(p)' => dir'[p] = fd'
        BY <1>2, <3>1 DEF MayOpen
      <4> QED
        BY <4>1 DEF FilesUnread
    <3>2. CASE Glob
      <4>1. Used' = Used
        BY <1>3, <3>2 DEF Used, Old
      <4> SUFFICES ASSUME NEW p \in Paths, dir[p] # NoFile, dir[p] \notin gone
                   PROVE  Ids(data[dir[p]]) \cap Used = {}
        BY <1>2, <4>1 DEF FilesUnread
      <4> QED
        BY <1>1, <3>2 DEF Unread, FilesUnread, MayOpen
    <3> QED
      BY <3>1, <3>2
  <2> QED
    BY <1>3, <2>4, <2>5, <2>6 DEF Unread
<1>6. CASE ~startAtEnd
  <2>1. offset' = 0 /\ startId' = startId
    BY <1>2, <1>6 DEF OpenOffset
  <2>2. Old' = Old /\ Used' = Used
    BY <1>3, <2>1, UsedSame
  <2>3. Ids(data[dir[path]]) \cap Used = {}
    <3>1. MayOpen(path) /\ dir[path] # fd /\ dir[path] \notin gone
      BY <1>1, <1>2, <1>4, <1>6 DEF MayOpen
    <3> QED
      BY <1>1, <3>1 DEF Unread, FilesUnread
  <2>4. OpenUnread'
    <3>1. \A x \in DOMAIN data[dir[path]] : data[dir[path]][x].id \notin Used
      BY <2>3 DEF Ids
    <3> QED
      BY <1>2, <1>3, <2>2, <2>3, <3>1, IdsOfEmpty DEF OpenUnread
  <2>5. FilesUnread'
    <3>1. \A p \in Paths : MayOpen(p)' => MayOpen(p)
      BY <1>2, <1>6 DEF MayOpen
    <3> SUFFICES ASSUME NEW p \in Paths, MayOpen(p), dir[p] # NoFile, dir[p] \notin gone
                 PROVE  Ids(data[dir[p]]) \cap Used = {}
      BY <1>2, <2>2, <3>1 DEF FilesUnread
    <3> QED
      BY <1>1 DEF Unread, FilesUnread
  <2> QED
    BY <1>3, <2>2, <2>4, <2>5 DEF Unread
<1> QED
  BY <1>5, <1>6

\* The bytes read are new to the messages, and so are those that stay in the buffer.
LEMMA ReadUnread ==
  ASSUME IInv, MessagesOK, BytesOK, Unread, Read
  PROVE  Unread'
<1>1. /\ fd \in Inodes /\ fd # NoFile /\ pc = "read" /\ pc' # "done" /\ sess \in Nat
      /\ UNCHANGED <<data, dir, fd, startId>>
  BY ReadEffect DEF IInv, TypeOK, HistoryType
<1>2. UNCHANGED <<path, startAtEnd, gone>>
  BY DEF Read, seen
<1>3. CASE UNCHANGED <<batch, lineBuffer, offset>> /\ Published' = Published
  BY <1>1, <1>2, <1>3, UnreadSame
<1>4. ASSUME NEW n, ReadsBytes(n), n > 0, Published' = Published \o Texts(Batch(Buffer(n)))
      PROVE  Unread'
  <2> DEFINE d == data[fd]
             s == Buffer(n)
             B == Texts(Batch(s))
             c == SubSeq(d, offset + 1, offset + n)
  <2>1. /\ s \in Seq(Byte) /\ Len(s) <= MaxLine + ReadBuf /\ lineBuffer' = Rest(s)
        /\ offset' = offset + n /\ offset + n <= Len(d) /\ n \in Nat
    BY <1>4 DEF ReadsBytes
  <2>2. /\ s = lineBuffer \o c /\ c \in Seq(Byte) /\ Distinct(c)
        /\ Ids(s) = Ids(lineBuffer) \cup Ids(c) /\ Ids(c) \subseteq Ids(d)
        /\ Ids(c) = {d[x].id : x \in (offset + 1)..(offset + n)}
    BY <1>1, <1>4, BufferIds
  <2>3. /\ d \in Seq(Byte) /\ Distinct(d) /\ Len(d) \in Nat /\ DOMAIN d = 1..Len(d)
        /\ offset \in Nat /\ lineBuffer \in Seq(Byte)
    BY <1>1 DEF IInv, TypeOK, DiskType, FileType, BytesOK
  <2>4. /\ Distinct(lineBuffer) /\ Ids(lineBuffer) \cap Used = {}
        /\ \A x \in DOMAIN d : x > offset => d[x].id \notin Used \cup Ids(lineBuffer)
    BY <1>1 DEF Unread, OpenUnread
  <2> HIDE DEF d, s, c
  <2>5. \A x \in (offset + 1)..(offset + n) : x \in DOMAIN d /\ x > offset
    BY <2>1, <2>3
  <2>6. Ids(c) \cap (Used \cup Ids(lineBuffer)) = {}
    BY <2>2, <2>4, <2>5
  <2>7. Distinct(s)
    <3>1. Distinct(lineBuffer \o c)
      BY <2>2, <2>3, <2>4, <2>6, IdsConcat
    <3> QED
      BY <2>2, <3>1
  <2>8. /\ B \in Seq(Seq(Byte)) /\ Separate(B) /\ IdsOf(B) \subseteq Ids(s)
        /\ IdsOf(B) \cap Ids(Rest(s)) = {} /\ Ids(Rest(s)) \subseteq Ids(s) /\ Distinct(Rest(s))
    BY <1>1, <2>1, <2>7, FlushApart
  <2>9. Published' = Published \o B
    BY <1>4 DEF s
  <2> HIDE DEF B
  <2>10. Ids(s) \cap Used = {}
    BY <2>2, <2>4, <2>6
  <2>11. IdsOf(Published) \subseteq Used /\ Old \subseteq Used /\ Old' = Old
    BY <1>1 DEF Used, Old
  <2>12. /\ IdsOf(Published') = IdsOf(Published) \cup IdsOf(B) /\ Separate(Published')
    <3>1. IdsOf(Published) \cap IdsOf(B) = {}
      BY <2>8, <2>10, <2>11
    <3>2. Separate(Published) /\ Published \in Seq(Seq(Byte))
      BY PublishedType DEF Unread
    <3>3. IdsOf(Published \o B) = IdsOf(Published) \cup IdsOf(B) /\ Separate(Published \o B)
      BY <2>8, <3>1, <3>2, IdsOfConcat
    <3> QED
      BY <2>9, <3>3
  <2>13. Used' = Used \cup IdsOf(B)
    BY <2>11, <2>12 DEF Used
  <2>14. IdsOf(Published') \cap Old' = {}
    <3>1. IdsOf(Published) \cap Old = {}
      BY DEF Unread
    <3> QED
      BY <2>8, <2>10, <2>11, <2>12, <3>1
  <2>15. Ids(lineBuffer') \cap Used' = {} /\ Distinct(lineBuffer')
    BY <2>1, <2>8, <2>10, <2>13
  <2>16. ASSUME NEW x \in DOMAIN d, x > offset + n
         PROVE  d[x].id \notin Used' \cup Ids(lineBuffer')
    <3>1. x > offset /\ x \notin (offset + 1)..(offset + n)
      BY <2>1, <2>3, <2>16
    <3>2. d[x].id \notin Ids(c)
      BY <2>2, <2>3, <2>5, <3>1 DEF Distinct
    <3>3. d[x].id \notin Used \cup Ids(lineBuffer)
      BY <2>4, <3>1
    <3> QED
      BY <2>1, <2>2, <2>8, <2>13, <3>2, <3>3
  <2>17. ~(Len(d) < offset + n)
    BY <2>1, <2>3
  <2>18. OpenUnread'
    <3>1. data'[fd'] = d
      BY <1>1 DEF d
    <3> QED
      BY <2>1, <2>15, <2>16, <2>17, <3>1 DEF OpenUnread
  <2>19. FilesUnread'
    <3>1. \A p : MayOpen(p)' => MayOpen(p)
      BY <1>2 DEF MayOpen
    <3> SUFFICES ASSUME NEW p \in Paths, MayOpen(p), dir[p] # NoFile, dir[p] # fd, dir[p] \notin gone
                 PROVE  Ids(data[dir[p]]) \cap Used' = {}
      BY <1>1, <1>2, <3>1 DEF FilesUnread
    <3>2. Ids(data[dir[p]]) \cap Used = {}
      BY <1>1 DEF Unread, FilesUnread
    <3>3. dir[p] \in Inodes
      BY DEF IInv, TypeOK, DiskType
    <3>4. Ids(data[dir[p]]) \cap Ids(lineBuffer) = {} /\ Ids(data[dir[p]]) \cap Ids(d) = {}
      BY <1>1, <3>3 DEF BytesOK, d
    <3> QED
      BY <2>2, <2>8, <2>13, <3>2, <3>4
  <2> QED
    BY <2>12, <2>14, <2>18, <2>19 DEF Unread
<1> QED
  BY <1>3, <1>4, ReadPublishes

LEMMA PlainUnread ==
  ASSUME IInv, NamesOK, Unread, ~Excused', PlainStep
  PROVE  Unread'
<1>0. UNCHANGED <<data, dir, startId, sent, batch>>
  BY PlainEffect
<1>1. Published' = Published
  BY <1>0 DEF Published
<1>2. CASE /\ UNCHANGED <<fd, offset, lineBuffer, startAtEnd, gone>>
           /\ Glob \/ path' = path
           /\ pc # "done"
  BY <1>0, <1>1, <1>2, UnreadSame
<1>3. ASSUME /\ fd' = NoFile /\ UNCHANGED <<path, startAtEnd>> /\ gone \subseteq gone' /\ pc # "done"
             /\ \/ pc' = "done" \/ fd \in gone' \/ Ids(data[fd]) \cap Used = {}
                \/ \A p \in Paths : dir[p] # fd
      PROVE  Unread'
  BY <1>0, <1>1, <1>3, UnreadClosed
<1>4. CASE LoopTop
  BY <1>2, <1>3, <1>4 DEF LoopTop, CloseFile, At, Goto, file, seen
<1>5. CASE FindFile \/ OpenStat \/ StatCurrent \/ FindNewer \/ Wake
  BY <1>2, <1>5 DEF FindFile, OpenStat, OpenFails, StatCurrent, FindNewer, Wake, At, file, seen
<1>6. CASE CheckPresent \/ CheckReplaced
  <2>1. fd # NoFile /\ pc # "done"
    BY <1>6 DEF CheckPresent, CheckReplaced, At, IInv, FileOpenWhenUsed
  <2>2. UNCHANGED <<gone, faulted>>
    BY <1>6 DEF CheckPresent, CheckReplaced, seen
  <2>3. ~faulted /\ fd = fileIno
    BY <2>1, <2>2 DEF Excused, NamesOK
  <2>4. CASE UNCHANGED file
    BY <1>2, <2>1, <2>2, <2>4 DEF file
  <2>5. CASE CloseFile /\ (dir[path] = NoFile \/ HasBeenReplaced)
    <3>1. dir[path] # fd
      BY <2>1, <2>3, <2>5 DEF HasBeenReplaced
    <3>2. \A p \in Paths : dir[p] # fd
      BY <2>1, <3>1 DEF NamesOK
    <3> QED
      BY <1>3, <2>1, <2>2, <2>5, <3>2 DEF CloseFile
  <2> QED
    BY <1>6, <2>4, <2>5 DEF CheckPresent, CheckReplaced
<1>7. CASE StatFile
  <2>1. fd # NoFile /\ pc # "done" /\ UNCHANGED gone
    BY <1>7 DEF StatFile, At, IInv, FileOpenWhenUsed
  <2>2. CASE Size < offset /\ CloseFile
    <3>1. Ids(data[fd]) \cap Used = {}
      BY <2>1, <2>2 DEF Size, Unread, OpenUnread
    <3> QED
      BY <1>3, <2>1, <2>2, <3>1 DEF CloseFile
  <2>3. CASE UNCHANGED file
    BY <1>2, <2>1, <2>3 DEF file
  <2>4. CASE faulted' = TRUE
    BY <2>4 DEF Excused
  <2> QED
    BY <1>7, <2>2, <2>3, <2>4 DEF StatFile
<1>8. CASE Restat
  BY <1>2, <1>3, <1>8 DEF Restat, CloseFile, At, Goto, file, seen
<1>9. CASE AfterDrain
  BY <1>2, <1>3, <1>9 DEF AfterDrain, CloseFile, At, file
<1> QED
  BY <1>4, <1>5, <1>6, <1>7, <1>8, <1>9 DEF PlainStep

LEMMA NextUnread ==
  IInv /\ MessagesOK /\ BytesOK /\ NamesOK /\ GoneOK /\ UnreadOK /\ [Next]_vars => UnreadOK'
<1> SUFFICES ASSUME IInv, MessagesOK, BytesOK, NamesOK, GoneOK, UnreadOK, [Next]_vars, ~Excused'
             PROVE  Unread'
  BY DEF UnreadOK
<1>0. Unread /\ ~Excused
  BY ExcusedStays DEF UnreadOK
<1>1. CASE FileSystem
  BY <1>0, <1>1, DiskUnread
<1>2. CASE Read
  BY <1>0, <1>2, ReadUnread
<1>3. CASE PublishBatch
  <2>1. Published' = Published /\ pc # "done"
    BY <1>3, PublishedSteps DEF PublishBatch, At
  <2>2. faulted' \/ UNCHANGED <<data, dir, file, gone, startId>>
    BY <1>3 DEF PublishBatch, disk, seen
  <2> QED
    BY <1>0, <2>1, <2>2, UnreadSame DEF Excused, file
<1>4. CASE Panic
  <2>1. /\ fd' = NoFile /\ startAtEnd' = TRUE /\ startId' = startId /\ restarts' = restarts + 1
    BY <1>4 DEF Panic, seen
  <2>2. restarts' > 0
    BY <2>1 DEF IInv, TypeOK, EnvType
  <2>3. ~Glob
    BY <2>2 DEF Excused
  <2>4. OpenUnread' /\ FilesUnread'
    BY <2>1, <2>3 DEF OpenUnread, FilesUnread, MayOpen
  <2>5. Separate(Published') /\ IdsOf(Published') \subseteq IdsOf(Published) /\ Old' = Old
    BY <1>0, <1>4, <2>1, PublishedSteps DEF Unread, Old
  <2> QED
    BY <1>0, <2>4, <2>5 DEF Unread
<1>5. CASE OpenFile /\ ~OpenFails
  <2>1. GoneOK'
    BY NextGone
  <2> QED
    BY <1>0, <1>5, <2>1, OpenFileUnread
<1>6. CASE PlainStep
  BY <1>0, <1>6, PlainUnread
<1>7. CASE Cancel \/ UNCHANGED vars \/ (OpenFile /\ OpenFails)
  <2>1. /\ UNCHANGED <<data, dir, fd, offset, lineBuffer, startAtEnd, gone, startId, path, sent, batch>>
        /\ pc = "done" => pc' = "done"
    BY <1>7 DEF Cancel, OpenFile, OpenFails, At, vars, disk, tailer, file, out, seen
  <2>2. Published' = Published
    BY <2>1 DEF Published
  <2> QED
    BY <1>0, <2>1, <2>2, UnreadSame
<1> QED
  BY <1>1, <1>2, <1>3, <1>4, <1>5, <1>6, <1>7, NextCases

OnceOK == IInv /\ MessagesOK /\ GoneOK /\ BytesOK /\ NamesOK /\ UnreadOK

LEMMA InitOnce == Init => BytesOK /\ NamesOK /\ UnreadOK
<1> SUFFICES ASSUME Init PROVE BytesOK /\ NamesOK /\ UnreadOK
  OBVIOUS
<1>1. \A i \in Inodes : data[i] = <<>>
  BY DEF Init
<1>2. Published = <<>>
  <2>1. sent = <<>> /\ batch = <<>> /\ <<>> \o <<>> = <<>>
    BY DEF Init
  <2> QED
    BY <2>1, NoTexts DEF Published
<1>3. startId = 0 /\ written = 0 /\ fd = NoFile /\ lineBuffer = <<>> /\ startAtEnd = TRUE
  BY DEF Init
<1>4. \A i \in Inodes : Ids(data[i]) = {} /\ Distinct(data[i])
  BY <1>1, IdsOfEmpty
<1>5. \A id \in Used : id <= 0
  BY <1>2, <1>3, IdsOfEmpty DEF Used, Old
<1>6. BytesOK
  <2>1. Ids(lineBuffer) = {}
    BY <1>3, IdsOfEmpty
  <2>2. \A id \in Ids(lineBuffer) \cup Used : id <= written
    BY <1>3, <1>5, <2>1
  <2>3. startId <= written
    BY <1>3
  <2> QED
    BY <1>4, <2>1, <2>2, <2>3 DEF BytesOK
<1>7. NamesOK
  BY DEF Init, NamesOK
<1>8. Unread
  <2>1. \A p \in Paths : dir[p] # NoFile => dir[p] \in Inodes
    BY DEF Init
  <2> QED
    BY <1>2, <1>3, <1>4, <2>1, IdsOfEmpty DEF Unread, OpenUnread, FilesUnread
<1> QED
  BY <1>6, <1>7, <1>8 DEF UnreadOK

LEMMA InitGone == Init => GoneOK
  BY InitIInv DEF Init, GoneOK, LeftOK

LEMMA SpecOnce == Spec => []OnceOK
<1>1. Init /\ IInv /\ MessagesOK => OnceOK
  BY InitOnce, InitGone DEF OnceOK
<1>2. OnceOK /\ [Next]_vars => OnceOK'
  BY NextIInv, NextMessages, NextGone, NextBytes, NextNames, NextUnread DEF OnceOK
<1> QED
  BY <1>1, <1>2, SpecMessages, PTL DEF Spec

\* Used, in the words of Tailer.
LEMMA SentOfPublished ==
  ASSUME MessagesOK, NEW j \in DOMAIN sent
  PROVE  /\ j \in DOMAIN Published /\ Ids(Published[j]) = SentIds(j)
         /\ SentIds(j) \subseteq IdsOf(Published)
<1>1. sent \in Seq(Msg) /\ batch \in Seq(Msg)
  BY DEF MessagesOK
<1> DEFINE c == sent \o batch
<1>2. /\ c \in Seq(Msg) /\ Len(c) = Len(sent) + Len(batch)
      /\ \A i \in 1..(Len(sent) + Len(batch)) :
           c[i] = IF i <= Len(sent) THEN sent[i] ELSE batch[i - Len(sent)]
  BY <1>1, ConcatProperties
<1>3. Len(sent) \in Nat /\ Len(batch) \in Nat /\ DOMAIN sent = 1..Len(sent)
  BY <1>1
<1> HIDE DEF c
<1>4. j \in DOMAIN c /\ c[j] = sent[j]
  BY <1>2, <1>3
<1>5. DOMAIN Texts(c) = DOMAIN c /\ Texts(c)[j] = c[j].text
  BY <1>4 DEF Texts
<1>6. j \in DOMAIN Published /\ Published[j] = sent[j].text
  BY <1>4, <1>5 DEF Published, c
<1> QED
  BY <1>6 DEF Ids, IdsOf, SentIds

\* A byte that a program wrote is in at most one message: no rotation, truncation, switch
\* to a newer match or (with an exact path) supervised restart makes Run read a byte
\* again.  What is excepted is the reopening after an I/O error and the open under the
\* inode number of a file just replaced.
THEOREM DuplicateOnlyAfterFaultAlways == Spec => []DuplicateOnlyAfterFault
<1>1. OnceOK => DuplicateOnlyAfterFault
  <2> SUFFICES ASSUME OnceOK, ~Excused, NEW j \in DOMAIN sent, NEW l \in DOMAIN sent, j # l
               PROVE  SentIds(j) \cap SentIds(l) = {}
    BY DEF DuplicateOnlyAfterFault, Excused
  <2>1. Separate(Published)
    BY DEF OnceOK, UnreadOK, Unread
  <2>2. /\ j \in DOMAIN Published /\ Ids(Published[j]) = SentIds(j)
        /\ l \in DOMAIN Published /\ Ids(Published[l]) = SentIds(l)
    BY SentOfPublished DEF OnceOK
  <2> QED
    BY <2>1, <2>2 DEF Separate
<1> QED
  BY <1>1, SpecOnce, PTL

\* With an exact path nothing that the file held when Run first opened it is published,
\* with the same exceptions: startAtEnd skips it, and no later open goes back to it.
THEOREM OldOnlyAfterFaultAlways == Spec => []OldOnlyAfterFault
<1>1. OnceOK => OldOnlyAfterFault
  <2> SUFFICES ASSUME OnceOK, ~faulted, ~Glob, NEW j \in DOMAIN sent, NEW id \in SentIds(j)
               PROVE  id > startId
    BY DEF OldOnlyAfterFault
  <2>1. IdsOf(Published) \cap Old = {}
    BY DEF OnceOK, UnreadOK, Unread, Excused
  <2>2. id \in IdsOf(Published)
    BY SentOfPublished DEF OnceOK
  <2>3. id \notin 0..startId
    BY <2>1, <2>2 DEF Old
  <2>4. id \in Nat /\ startId \in Nat
    <3>1. Published \in Seq(Seq(Byte)) /\ startId \in Nat
      BY PublishedType DEF OnceOK, IInv, TypeOK, HistoryType
    <3> QED
      BY <2>2, <3>1, IdsNat
  <2> QED
    BY <2>3, <2>4
<1> QED
  BY <1>1, SpecOnce, PTL
=============================================================================
