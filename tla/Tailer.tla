------------------------------- MODULE Tailer -------------------------------
(***************************************************************************)
(* One log tailer (logs/tailer.go) and the file system it polls.           *)
(*                                                                         *)
(* Run is a loop of system calls with local computation between them.  An  *)
(* action of the tailer is one system call, together with the local code   *)
(* up to the next one, so that a writer, a log rotation or the shutdown    *)
(* can act between any two calls.  pc names the call that comes next.      *)
(*                                                                         *)
(* A byte is a record: id numbers the bytes in the order in which the      *)
(* programs being logged write them, and k says what flushCompleteLines    *)
(* tells apart: a newline "nl", a byte that is stripped from a line "cr"   *)
(* (a carriage return or a byte order mark), or any other byte "ch".       *)
(***************************************************************************)
EXTENDS Lists, FiniteSetsExt

CONSTANTS
  NumPaths,            \* how many names the pattern matches: one for an exact path
  Inodes,              \* inode numbers; a freed one may be given to a new file
  NoFile,              \* no inode: a name that does not exist, a nil *os.File
  Kinds,               \* the byte kinds the writers use
  Glob,                \* t.glob: the configured path is a pattern
  MaxLine,             \* maxLineBytes
  ReadBuf,             \* readBufSize
  RotationCheckEvery,  \* rotationCheckEvery
  MaxBytes,            \* bound: bytes ever written
  MaxMoves,            \* bound: files created, renamed away, replaced or truncated
  MaxErrors,           \* bound: I/O errors
  MaxRestarts          \* bound: panics, each followed by a supervised restart

ASSUME TailerAssumption ==
  /\ NumPaths \in Nat \ {0}
  /\ NoFile \notin Inodes
  /\ Kinds \subseteq {"ch", "nl", "cr"}
  /\ Glob \in BOOLEAN
  /\ MaxLine \in Nat /\ ReadBuf \in Nat \ {0} /\ ReadBuf <= MaxLine
  /\ RotationCheckEvery \in Nat \ {0}
  /\ MaxBytes \in Nat /\ MaxMoves \in Nat /\ MaxErrors \in Nat /\ MaxRestarts \in Nat

\* The names, in the order in which filepath.Glob returns them.
Paths == 1..NumPaths

VARIABLES
  dir, data, mtime,          \* the file system: name -> inode, inode -> content, mtime
  now, written, moves,       \* its clock, and what has been used of its bounds
  pc,                        \* the system call Run makes next
  path, fd, fileIno, offset, lineBuffer, startAtEnd,   \* the file being followed
  cycle, switchPending, left, curM,                    \* the rotation check
  batch, sent,               \* messages to publish, and (history) those published
  cancelled, errors, restarts,
  \* History of the open file: its number, where reading began, whether it was
  \* truncated since, its length when a switch became pending.
  sess, start, truncated, due,
  \* History of the tailer: the last byte there at startup, the files switched away
  \* from, whether a file was closed for an I/O error or opened under the inode
  \* number of another one.
  startId, gone, faulted

disk == <<dir, data, mtime, now, written, moves>>
file == <<path, fd, fileIno, offset, lineBuffer, startAtEnd>>
look == <<cycle, switchPending, left, curM>>
out == <<batch, sent>>
env == <<cancelled, errors, restarts>>
session == <<sess, start, truncated, due>>
seen == <<startId, gone, faulted>>
tailer == <<pc, file, look, out>>
vars == <<disk, tailer, env, session, seen>>

Byte == [id : Nat, k : {"ch", "nl", "cr"}]

PCs == {"top", "find", "open", "open2", "check", "check2", "newer", "newer2", "fstat",
        "read", "publish", "publishErr", "restat", "drained", "sleep", "done"}

(***************************************************************************)
(* flushCompleteLines, on the bytes s of lineBuffer.                       *)
(***************************************************************************)
Newlines(s) == {i \in 1..Len(s) : s[i].k = "nl"}

\* A line without byte order marks and carriage returns.
Strip(line) == Selected(line, {i \in DOMAIN line : line[i].k # "cr"})

\* The line that the newline at n ends, stripped.
LineBefore(s, n) ==
  Strip(SubSeq(s, Max({i \in Newlines(s) : i < n} \cup {0}) + 1, n - 1))

\* The non-empty lines of s that a newline ends.
Lines(s) ==
  Selected([n \in 1..Len(s) |-> LineBefore(s, n)],
           {n \in Newlines(s) : LineBefore(s, n) # <<>>})

\* Mutant of Oversized: an off-by-one.
OversizedLate(s) == Len(s) > MaxLine + 1

Oversized(s) == Len(s) > MaxLine

\* Mutant of LastNewline: only the first line of a chunk is taken out of the buffer.
FirstNewline(s) == IF Newlines(s) = {} THEN 0 ELSE Min(Newlines(s))

\* `consumed` at the end of the line loop.
LastNewline(s) == IF Newlines(s) = {} THEN 0 ELSE Max(Newlines(s))

Message(text, isChunk) == [text |-> text, chunk |-> isChunk, sess |-> sess]

\* What is appended to the batch: an unstripped chunk of an oversized buffer, or lines.
Batch(s) ==
  IF Oversized(s)
  THEN <<Message(SubSeq(s, 1, MaxLine), TRUE)>>
  ELSE [j \in DOMAIN Lines(s) |-> Message(Lines(s)[j], FALSE)]

\* Mutant of Rest: the partial line is dropped with the rest.
RestDropped(s) == <<>>

\* What stays in the buffer.
Rest(s) == SubSeq(s, (IF Oversized(s) THEN MaxLine ELSE LastNewline(s)) + 1, Len(s))

(***************************************************************************)
(* newestMatch: the newest mtime, ties to the later name, among the names  *)
(* whose inode was not switched away from.  The stats that one call makes  *)
(* are taken together.                                                     *)
(***************************************************************************)
Matches == {p \in Paths : dir[p] # NoFile}

\* Mutant of Candidates: t.left is not consulted.
AllMatches == Matches

Candidates == {p \in Matches : dir[p] \notin left}

NewerThan(p, q) ==
  \/ mtime[dir[p]] > mtime[dir[q]]
  \/ mtime[dir[p]] = mtime[dir[q]] /\ p > q

NewestMatch == CHOOSE p \in Candidates : \A q \in Candidates \ {p} : NewerThan(p, q)

\* t.left once the inodes that no match has any more are forgotten.
PrunedLeft == {i \in left : \E p \in Matches : dir[p] = i}

(***************************************************************************)
(* The programs being logged, log rotation and the shutdown.               *)
(***************************************************************************)
Linked == {dir[p] : p \in Paths} \ {NoFile}

\* mtimes only matter to a pattern; two changes may fall in one clock tick.
Touch(i) ==
  \E t \in (IF Glob THEN {now, now + 1} ELSE {now}) :
    now' = t /\ mtime' = [mtime EXCEPT ![i] = t]

\* A program appends a byte, maybe to a file renamed away while the tailer has it open.
Write ==
  /\ written < MaxBytes
  /\ written' = written + 1
  /\ \E i \in Inodes \cap (Linked \cup {fd}), k \in Kinds :
       /\ data' = [data EXCEPT ![i] = Append(@, [id |-> written + 1, k |-> k])]
       /\ Touch(i)
  /\ UNCHANGED <<dir, moves, tailer, env, session, seen>>

Move(p) == moves < MaxMoves /\ moves' = moves + 1

\* A new, empty file takes the name p, which may have had another file.  Its inode
\* number is free: no name links to it and the tailer does not have it open.
NewFile(p) ==
  /\ Move(p)
  /\ \E i \in Inodes \ (Linked \cup {fd}) :
       /\ dir' = [dir EXCEPT ![p] = i]
       /\ data' = [data EXCEPT ![i] = <<>>]
       /\ Touch(i)
       /\ gone' = gone \ {i}
  /\ UNCHANGED <<written, tailer, env, session, startId, faulted>>

\* The file is deleted, or renamed to a name that does not match.
Remove(p) ==
  /\ Move(p) /\ dir[p] # NoFile
  /\ dir' = [dir EXCEPT ![p] = NoFile]
  /\ UNCHANGED <<data, mtime, now, written, tailer, env, session, seen>>

\* The file is emptied in place (copytruncate).
Truncate(p) ==
  /\ Move(p) /\ dir[p] # NoFile
  /\ data' = [data EXCEPT ![dir[p]] = <<>>]
  /\ Touch(dir[p])
  /\ truncated' = (truncated \/ dir[p] = fd)
  /\ UNCHANGED <<dir, written, tailer, env, sess, start, due, seen>>

\* main cancels ctx on a signal.
Cancel ==
  /\ ~cancelled
  /\ cancelled' = TRUE
  /\ UNCHANGED <<disk, tailer, errors, restarts, session, seen>>

(***************************************************************************)
(* Run.                                                                    *)
(***************************************************************************)
At(l) == pc = l
Goto(l) == pc' = l

IOError == errors < MaxErrors /\ errors' = errors + 1 /\ UNCHANGED <<cancelled, restarts>>

\* Mutant of CloseFile: a close that forgets lineBuffer.Reset().
CloseFileOnly == fd' = NoFile /\ UNCHANGED <<path, fileIno, offset, lineBuffer, startAtEnd>>

\* f.Close(); f = nil; lineBuffer.Reset() - and the deferred close when Run returns.
CloseFile ==
  /\ fd' = NoFile /\ lineBuffer' = <<>>
  /\ UNCHANGED <<path, fileIno, offset, startAtEnd>>

\* cycle++; the rotation check comes every RotationCheckEvery cycles.
BeginCycle ==
  /\ cycle' = (cycle + 1) % RotationCheckEvery
  /\ Goto(IF cycle' = 0 THEN "check" ELSE "fstat")

\* Mutant of CtxDone: ctx is not looked at.
CtxIgnored == FALSE

\* ctx.Err() != nil
CtxDone == cancelled

LoopTop ==
  /\ At("top")
  /\ \/ /\ CtxDone
        /\ CloseFile /\ Goto("done")
        /\ UNCHANGED <<cycle, switchPending>>
     \/ /\ ~CtxDone /\ fd = NoFile
        /\ switchPending' = FALSE
        /\ Goto("find")
        /\ UNCHANGED <<file, cycle>>
     \/ /\ ~CtxDone /\ fd # NoFile
        /\ BeginCycle
        /\ UNCHANGED <<file, switchPending>>
  /\ UNCHANGED <<disk, left, curM, out, env, session, seen>>

\* newestMatch for a pattern, os.Stat for an exact path; wait when there is no file.
FindFile ==
  /\ At("find")
  /\ \/ /\ Glob
        /\ left' = PrunedLeft
        /\ path' = IF Candidates = {} THEN path ELSE NewestMatch
        /\ Goto(IF Candidates = {} THEN "sleep" ELSE "open")
     \/ /\ ~Glob
        /\ Goto(IF dir[path] = NoFile THEN "sleep" ELSE "open")
        /\ UNCHANGED <<left, path>>
  /\ UNCHANGED <<disk, fd, fileIno, offset, lineBuffer, startAtEnd, cycle, switchPending,
                 curM, out, env, session, seen>>

\* The open is given up and tried again after retryDelay.
OpenFails ==
  /\ \/ dir[path] = NoFile /\ UNCHANGED env
     \/ IOError
  /\ Goto("sleep")
  /\ UNCHANGED <<disk, file, look, out, session, seen>>

\* openFile, first call: fileInode takes the inode number from the name.
OpenStat ==
  /\ At("open")
  /\ \/ OpenFails
     \/ /\ dir[path] # NoFile
        /\ fileIno' = dir[path]
        /\ Goto("open2")
        /\ UNCHANGED <<disk, path, fd, offset, lineBuffer, startAtEnd, look, out, env,
                       session, seen>>

\* Mutants of OpenOffset: startAtEnd is ignored; an off-by-one at the end.
OpenAtStart(i) == 0
OpenBeforeEnd(i) == IF startAtEnd THEN Len(data[i]) - 1 ELSE 0

OpenOffset(i) == IF startAtEnd THEN Len(data[i]) ELSE 0

\* openFile, second call: os.Open (and Seek) of what the name links to now.
OpenFile ==
  /\ At("open2")
  /\ \/ OpenFails
     \/ /\ dir[path] # NoFile
        /\ fd' = dir[path]
        /\ offset' = OpenOffset(dir[path])
        /\ startAtEnd' = FALSE
        /\ BeginCycle
        /\ sess' = sess + 1 /\ start' = offset' /\ truncated' = FALSE /\ due' = 0
        /\ startId' = IF startAtEnd /\ restarts = 0 THEN written ELSE startId
        /\ faulted' = (faulted \/ dir[path] # fileIno)
        /\ UNCHANGED <<disk, path, fileIno, lineBuffer, switchPending, left, curM, out, env,
                       gone>>

\* os.Stat(t.path): has the file disappeared?
CheckPresent ==
  /\ At("check")
  /\ \/ dir[path] = NoFile /\ CloseFile /\ Goto("top")
     \/ dir[path] # NoFile /\ Goto("check2") /\ UNCHANGED file
  /\ UNCHANGED <<disk, look, out, env, session, seen>>

\* Mutant of HasBeenReplaced.
NeverReplaced == FALSE

HasBeenReplaced == dir[path] # NoFile /\ dir[path] # fileIno

\* hasBeenReplaced; a failing stat counts as "not replaced".
CheckReplaced ==
  /\ At("check2")
  /\ \/ HasBeenReplaced /\ CloseFile /\ Goto("top") /\ UNCHANGED env
     \/ /\ (~HasBeenReplaced /\ UNCHANGED env) \/ IOError
        /\ Goto(IF Glob /\ ~switchPending THEN "newer" ELSE "fstat")
        /\ UNCHANGED file
  /\ UNCHANGED <<disk, look, out, session, seen>>

\* hasNewerMatch, first call: f.Stat(), the mtime of the open file.
StatCurrent ==
  /\ At("newer")
  /\ \/ curM' = mtime[fd] /\ Goto("newer2") /\ UNCHANGED env
     \/ IOError /\ Goto("fstat") /\ UNCHANGED curM
  /\ UNCHANGED <<disk, file, cycle, switchPending, left, out, session, seen>>

HasNewerMatch ==
  /\ Candidates # {}
  /\ NewestMatch # path
  /\ mtime[dir[NewestMatch]] > curM

\* hasNewerMatch, second call: newestMatch.
FindNewer ==
  /\ At("newer2")
  /\ left' = PrunedLeft
  /\ switchPending' = HasNewerMatch
  /\ due' = IF HasNewerMatch THEN Len(data[fd]) ELSE due
  /\ Goto("fstat")
  /\ UNCHANGED <<disk, file, cycle, curM, out, env, sess, start, truncated, seen>>

Size == Len(data[fd])

\* Mutant of ReadOrDrained: a pending switch does not wait for the drain.
SwitchAtOnce == IF Size > offset /\ ~switchPending THEN "read" ELSE "drained"

\* Where the drain loop goes on: its condition, then the code after it.
ReadOrDrained == IF Size > offset THEN "read" ELSE "drained"

\* f.Stat(): a file shorter than what was read of it has been truncated.
StatFile ==
  /\ At("fstat")
  /\ \/ Size < offset /\ CloseFile /\ Goto("top") /\ UNCHANGED <<env, faulted>>
     \/ Size >= offset /\ Goto(ReadOrDrained) /\ UNCHANGED <<file, env, faulted>>
     \/ IOError /\ CloseFile /\ Goto("sleep") /\ faulted' = TRUE
  /\ UNCHANGED <<disk, look, out, session, startId, gone>>

\* What ReadAt(buf, offset) returns: nothing at or past the end of the file.
Available ==
  IF Size <= offset THEN 0 ELSE IF Size - offset < ReadBuf THEN Size - offset ELSE ReadBuf

\* n bytes are appended to lineBuffer, which is flushed into the batch.
ReadAndFlush(n) ==
  LET buf == lineBuffer \o SubSeq(data[fd], offset + 1, offset + n)
  IN  /\ offset' = offset + n
      /\ batch' = IF n = 0 THEN batch ELSE Batch(buf)
      /\ lineBuffer' = IF n = 0 THEN lineBuffer ELSE Rest(buf)

\* ReadAt; with an error it may return fewer bytes, which are used.
Read ==
  /\ At("read")
  /\ \/ ReadAndFlush(Available) /\ Goto("publish") /\ UNCHANGED env
     \/ (\E n \in 0..Available : ReadAndFlush(n)) /\ Goto("publishErr") /\ IOError
  /\ UNCHANGED <<disk, path, fd, fileIno, startAtEnd, look, sent, session, seen>>

\* publishBatch: what Redis does not take is dropped.  After a read error the file is
\* closed.
PublishBatch ==
  /\ sent' = sent \o batch
  /\ batch' = <<>>
  /\ \/ At("publish") /\ Goto("restat") /\ UNCHANGED <<file, faulted>>
     \/ At("publishErr") /\ CloseFile /\ Goto("sleep") /\ faulted' = TRUE
  /\ UNCHANGED <<disk, look, env, session, startId, gone>>

\* f.Stat() again; when it fails the drain ends with the file kept open.
Restat ==
  /\ At("restat")
  /\ \/ CtxDone /\ CloseFile /\ Goto("done") /\ UNCHANGED env
     \/ ~CtxDone /\ Goto(ReadOrDrained) /\ UNCHANGED <<file, env>>
     \/ IOError /\ Goto("drained") /\ UNCHANGED file
  /\ UNCHANGED <<disk, look, out, session, seen>>

\* Leave the file for the newer match, or sleep until the next poll.
AfterDrain ==
  /\ At("drained")
  /\ \/ /\ switchPending
        /\ left' = left \cup {fileIno}
        /\ gone' = gone \cup {fd}
        /\ CloseFile /\ Goto("top")
     \/ ~switchPending /\ Goto("sleep") /\ UNCHANGED <<left, gone, file>>
  /\ UNCHANGED <<disk, cycle, switchPending, curM, out, env, session, startId, faulted>>

\* sleep returns: after its delay, or because ctx is cancelled.
Wake ==
  /\ At("sleep")
  /\ Goto("top")
  /\ UNCHANGED <<disk, file, look, out, env, session, seen>>

\* A panic in the publisher: runSupervised (main.go) recovers it and, restartDelay
\* later, runs a new Tailer unless ctx is cancelled, as LoopTop would find.  Some of
\* the batch may have been delivered.
Panic ==
  /\ At("publish") \/ At("publishErr")
  /\ restarts < MaxRestarts
  /\ restarts' = restarts + 1
  /\ \E n \in 0..Len(batch) : sent' = sent \o SubSeq(batch, 1, n)
  /\ batch' = <<>>
  /\ path' = 1 /\ fd' = NoFile /\ lineBuffer' = <<>> /\ startAtEnd' = TRUE
  /\ cycle' = 0 /\ switchPending' = FALSE /\ left' = {}
  /\ Goto("sleep")
  /\ UNCHANGED <<disk, fileIno, offset, curM, cancelled, errors, session, seen>>

-----------------------------------------------------------------------------
Init ==
  /\ dir \in [Paths -> Inodes \cup {NoFile}]
  /\ \A p, q \in Paths : dir[p] = dir[q] => p = q \/ dir[p] = NoFile
  /\ data = [i \in Inodes |-> <<>>] /\ mtime = [i \in Inodes |-> 0]
  /\ now = 0 /\ written = 0 /\ moves = 0
  /\ pc = "top"
  /\ path = 1 /\ fd = NoFile /\ fileIno = NoFile /\ offset = 0
  /\ lineBuffer = <<>> /\ startAtEnd = TRUE
  /\ cycle = 0 /\ switchPending = FALSE /\ left = {} /\ curM = 0
  /\ batch = <<>> /\ sent = <<>>
  /\ cancelled = FALSE /\ errors = 0 /\ restarts = 0
  /\ sess = 0 /\ start = 0 /\ truncated = FALSE /\ due = 0
  /\ startId = 0 /\ gone = {} /\ faulted = FALSE

FileSystem == Write \/ \E p \in Paths : NewFile(p) \/ Remove(p) \/ Truncate(p)

Run ==
  \/ LoopTop \/ FindFile \/ OpenStat \/ OpenFile
  \/ CheckPresent \/ CheckReplaced \/ StatCurrent \/ FindNewer
  \/ StatFile \/ Read \/ PublishBatch \/ Restat \/ AfterDrain \/ Wake

\* Run has returned.
Returned == At("done") /\ UNCHANGED vars

Next == FileSystem \/ Cancel \/ Run \/ Panic \/ Returned

Spec == Init /\ [][Next]_vars

\* The goroutine keeps being scheduled; nothing is assumed of writers and signals.
FairSpec == Spec /\ WF_vars(Run)

-----------------------------------------------------------------------------
DiskType ==
  /\ dir \in [Paths -> Inodes \cup {NoFile}]
  /\ data \in [Inodes -> Seq(Byte)] /\ mtime \in [Inodes -> Nat]
  /\ now \in Nat /\ written \in Nat /\ moves \in Nat

FileType ==
  /\ path \in Paths /\ fd \in Inodes \cup {NoFile} /\ fileIno \in Inodes \cup {NoFile}
  /\ offset \in Nat /\ lineBuffer \in Seq(Byte) /\ startAtEnd \in BOOLEAN

LookType ==
  /\ cycle \in 0..(RotationCheckEvery - 1) /\ switchPending \in BOOLEAN
  /\ left \subseteq Inodes \cup {NoFile} /\ curM \in Nat

EnvType == cancelled \in BOOLEAN /\ errors \in Nat /\ restarts \in Nat

HistoryType ==
  /\ sess \in Nat /\ start \in Nat /\ truncated \in BOOLEAN /\ due \in Nat
  /\ startId \in Nat /\ gone \subseteq Inodes /\ faulted \in BOOLEAN

\* The variables of the file system and of Run have their types.  (What the messages
\* hold is NothingLost.)
TypeOK == DiskType /\ FileType /\ LookType /\ EnvType /\ HistoryType /\ pc \in PCs

\* Once flushed, lineBuffer holds at most maxLineBytes: the guard of
\* flushCompleteLines against unbounded growth works whatever is written.
BufferBounded == Len(lineBuffer) <= MaxLine

\* lineBuffer holds exactly the bytes just before offset in the open file: no close
\* path leaves a partial line to be glued to the first line of the next file.  The one
\* exception is a file truncated while it is open.
BufferIsTail ==
  /\ fd = NoFile => lineBuffer = <<>>
  /\ fd # NoFile /\ ~truncated =>
       /\ Len(lineBuffer) <= offset /\ offset <= Len(data[fd])
       /\ lineBuffer = SubSeq(data[fd], offset - Len(lineBuffer) + 1, offset)

\* What has been read of the open file, and the messages made from it so far.
ReadSoFar == SubSeq(data[fd], start + 1, offset)
FromOpenFile ==
  Selected(sent \o batch, {j \in DOMAIN (sent \o batch) : (sent \o batch)[j].sess = sess})

Visible(s) == Selected(s, {i \in DOMAIN s : s[i].k = "ch"})

Joined(ms) ==
  LET f[n \in 0..Len(ms)] == IF n = 0 THEN <<>> ELSE f[n - 1] \o ms[n].text
  IN  f[Len(ms)]

\* Every byte read of the open file, line ends and stripped bytes aside, is in exactly
\* one message, in file order, or still in lineBuffer: flushing chunk by chunk, with
\* oversized lines cut, neither loses nor repeats nor reorders anything.
NothingLost ==
  fd # NoFile /\ ~truncated =>
    Visible(ReadSoFar) = Visible(Joined(FromOpenFile)) \o Visible(lineBuffer)

\* While no oversized chunk was cut, the messages are the non-empty lines of what was
\* read, wherever the boundaries of the reads fell.
LinesExact ==
  fd # NoFile /\ ~truncated /\ (\A j \in DOMAIN FromOpenFile : ~FromOpenFile[j].chunk) =>
    [j \in DOMAIN FromOpenFile |-> FromOpenFile[j].text] = Lines(ReadSoFar)

SentIds(j) == {sent[j].text[i].id : i \in DOMAIN sent[j].text}

\* No byte is published twice, across rotations, truncations, switches and (for an exact
\* path) supervised restarts, unless a file was closed for an I/O error or was opened
\* under the inode number of a file it had just replaced.
DuplicateOnlyAfterFault ==
  faulted \/ (Glob /\ restarts > 0) \/
    \A j, l \in DOMAIN sent : j # l => SentIds(j) \cap SentIds(l) = {}

\* With an exact path, content that was there at the first open is not published
\* (startAtEnd: "first open skips existing content"), with the same exception.
OldOnlyAfterFault ==
  faulted \/ Glob \/ \A j \in DOMAIN sent : \A id \in SentIds(j) : id > startId

\* The tailer of a pattern never reopens a file that it switched away from.
NeverGoesBack == faulted \/ restarts > 0 \/ fd \notin gone

\* When a file is left for a newer match, what it held when the newer match was seen
\* has been read, unless the drain loop could not stat it.
DrainsBeforeSwitch ==
  [][gone' # gone /\ fd' # fd /\ ~truncated /\ errors = 0 => offset >= due]_vars

\* Run returns after cancellation, whatever the writers do.
Stops == cancelled ~> At("done")

\* With an exact path the tailer is, again and again, at the end of the file that the
\* name links to: rotation, truncation and disappearance are all noticed.
FollowsThePath ==
  []<>(\/ cancelled \/ faulted \/ dir[path] = NoFile
       \/ fd = dir[path] /\ offset = Len(data[fd]))

(***************************************************************************)
(* What the documentation says, without the exceptions made above.         *)
(***************************************************************************)
\* README: "`message` is the raw line with its trailing newline removed".
OneLinePerMessage ==
  \A j \in DOMAIN sent : \A i \in DOMAIN sent[j].text : sent[j].text[i].k # "nl"

\* README: "Detects log rotation, truncation": no message joins bytes written before
\* and after a truncation, skipping what was written in between.
NoSplice ==
  \A j \in DOMAIN sent : \A i \in 1..(Len(sent[j].text) - 1) :
    sent[j].text[i + 1].id = sent[j].text[i].id + 1
=============================================================================
