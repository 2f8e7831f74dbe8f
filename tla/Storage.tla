------------------------------- MODULE Storage -------------------------------
(***************************************************************************)
(* The storage collector (storage/collector.go).                           *)
(*                                                                         *)
(* Each round sums the local filesystems, with statfs calls that are       *)
(* waited for however long they take, and reports every configured path    *)
(* with statfs calls that run in goroutines of their own and are waited    *)
(* for at most statTimeout.  A call that outlives its round stays in       *)
(* pending.  The calls of the abandoned goroutines return at any time, or  *)
(* never, between any two steps of the collector.                          *)
(***************************************************************************)
EXTENDS Integers, Mounts

CONSTANTS
  Points,        \* the mount points, sorted by path
  Tables,        \* the mount tables there may be at startup
  Mountable,     \* the entries that may be mounted later
  Config,        \* c.mounts: paths and patterns
  NoCall, NoPattern, NoDev,
  MaxRounds,     \* bound: ticks
  MaxRemounts,   \* bound: filesystems mounted or unmounted
  MaxRestarts    \* bound: panics, each followed by a supervised restart

Paths == ToSet(Points) \cup ToSet(Config)

Filesystems == Mountable \cup UNION {ToSet(t) : t \in Tables}

\* There is always a root.
ASSUME StorageAssumption ==
  /\ Points \in Seq(Seq(Components)) /\ Config \in Seq(Seq(Components))
  /\ Tables \subseteq Seq(Filesystems) /\ \A t \in Tables : \E i \in DOMAIN t : t[i].path = <<>>
  /\ \A e \in Filesystems : e # NoEntry /\ e.path \in ToSet(Points)
  /\ NoCall \notin Nat \ {0}
  /\ MaxRounds \in Nat /\ MaxRemounts \in Nat /\ MaxRestarts \in Nat

VARIABLES
  mounted, remounts,    \* the mount table
  pc, round,            \* where Run is, and the number of the round
  table,                \* the mount table as read: [ok, entries]
  todo,                 \* local filesystems, then configured paths, still to report
  read, missing,        \* serverStorage: devices summed, and filesystems left out
  event,                \* mountUsages: the entries so far
  failing, mountFailing,
  pending,              \* c.pending: path -> the number of the call, or NoCall
  calls,                \* the statfs goroutines whose result nobody has taken
  cur,                  \* the call being waited for
  restarts,
  \* History of the log: per path, the lines that say that it failed less those that
  \* say that it is readable again; the paths whose last statfs failed.
  opened, down,
  changed               \* history: the mount table has changed since it was read

env == <<mounted, remounts, changed>>
work == <<table, todo, read, missing, event>>
stat == <<pending, calls, cur>>
log == <<mountFailing, opened, down>>
vars == <<env, pc, round, work, failing, stat, restarts, log>>

At(l) == pc = l
Goto(l) == pc' = l

(***************************************************************************)
(* Mounts come and go; statfs goroutines end.                              *)
(***************************************************************************)
Remount ==
  /\ remounts < MaxRemounts
  /\ remounts' = remounts + 1
  /\ changed' = ~At("select")
  /\ UNCHANGED <<pc, round, work, failing, stat, restarts, log>>

\* A filesystem is mounted, maybe on top of another one.
Mount(e) ==
  /\ Remount
  /\ e \notin ToSet(mounted)
  /\ mounted' = Append(mounted, e)

\* A filesystem that no later one is mounted in is unmounted; "/" stays.
Unmount(i) ==
  /\ Remount
  /\ mounted[i].path # <<>>
  /\ \A j \in DOMAIN mounted : j > i => ~HoldsPath(mounted[i].path, mounted[j].path)
  /\ mounted' = RemoveAt(mounted, i)

\* Some collector still has the channel of call k.
Wanted(k) == k.id = cur \/ k.id = pending[k.path]

\* c.stat returns and its result is sent on the buffered channel.
CallReturns(k) ==
  /\ k \in calls /\ k.st = "running"
  /\ \E r \in {"ok", "err"} :
       calls' = (calls \ {k}) \cup (IF Wanted(k) THEN {[k EXCEPT !.st = r]} ELSE {})
  /\ UNCHANGED <<env, pc, round, work, failing, pending, cur, restarts, log>>

(***************************************************************************)
(* Run and serverStorage.                                                  *)
(***************************************************************************)
NoTable == [ok |-> FALSE, entries |-> <<>>]

\* A tick, or the end of the startup delay; readMountTable, which may fail.
BeginRound ==
  /\ At("select") /\ round < MaxRounds
  /\ round' = round + 1
  /\ \/ table' = [ok |-> TRUE, entries |-> mounted]
     \/ table' = NoTable
  /\ todo' = LocalFilesystems(table'.entries)
  /\ read' = <<>> /\ missing' = {} /\ event' = <<>>
  /\ changed' = FALSE
  /\ Goto("server")
  /\ UNCHANGED <<mounted, remounts, failing, stat, restarts, log>>

\* ctx is done, cancelled now or during the round, which does not look at it.
Return ==
  /\ At("select")
  /\ Goto("done")
  /\ UNCHANGED <<env, round, work, failing, stat, restarts, log>>

\* disk.Read of the next local filesystem: its size, none (skipped), or an error.
StatLocal ==
  /\ At("server") /\ todo # <<>>
  /\ LET p == Head(todo).path IN
       \/ /\ missing' = missing \cup {p} /\ failing' = failing \cup {p}
          /\ UNCHANGED read
       \/ /\ failing' = failing \ {p}
          /\ read' \in {read, Append(read, Serving(mounted, p).dev)}
          /\ UNCHANGED missing
  /\ todo' = Tail(todo)
  /\ UNCHANGED <<env, pc, round, table, event, stat, restarts, log>>

\* disk.Read has no timeout: it may block, and be answered much later or never.
HangLocal ==
  /\ At("server") /\ todo # <<>>
  /\ Goto("hung")
  /\ UNCHANGED <<env, round, work, failing, stat, restarts, log>>

AnswerLocal ==
  /\ At("hung")
  /\ Goto("server")
  /\ UNCHANGED <<env, round, work, failing, stat, restarts, log>>

(***************************************************************************)
(* mountUsages.                                                            *)
(***************************************************************************)
Item(p, pat, err) == [path |-> p, pattern |-> pat, error |-> err]

HasWildcard(path) == \E i \in DOMAIN path : path[i] = Wildcard

\* What one config entry is reported as: items with an error already need no statfs.
Expand(path) ==
  LET matching == Match(table.entries, path)
      matches == Selected(Points, {i \in DOMAIN Points : Points[i] \in matching})
  IN  IF ~HasWildcard(path) THEN <<Item(path, NoPattern, "")>>
      ELSE IF ~table.ok THEN <<Item(path, path, "mount table unreadable")>>
      ELSE IF matching = {} THEN <<Item(path, path, "no mounts match")>>
      ELSE [j \in DOMAIN matches |-> Item(matches[j], path, "")]

BeginMounts ==
  /\ At("server") /\ todo = <<>>
  /\ todo' = FlattenSeq([i \in DOMAIN Config |-> Expand(Config[i])])
  /\ Goto("mounts")
  /\ UNCHANGED <<env, round, table, read, missing, event, failing, stat, restarts, log>>

\* Device and type of the filesystem a path is on: published with a size or a timeout.
Device(err) ==
  LET entry == Find(table.entries, Head(todo).path)
  IN  IF entry = NoEntry \/ err \notin {"", "timeout"} THEN NoDev ELSE entry.dev

Entry(err, at, of) ==
  [item |-> Head(todo), error |-> err, at |-> at, dev |-> Device(err), of |-> of]

\* Mutant of Report: a mount point named by two entries is listed twice.
ReportAlways(err, at, of) == event' = Append(event, Entry(err, at, of))

\* add: the head of todo is listed unless its path is already.  The reading comes from a
\* call of round at, which the device `of' answered.
Report(err, at, of) ==
  event' = IF \E j \in DOMAIN event : event[j].item.path = Head(todo).path
           THEN event
           ELSE Append(event, Entry(err, at, of))

\* A pattern with nothing to show.
NothingToStat ==
  /\ At("mounts") /\ todo # <<>> /\ Head(todo).error # ""
  /\ Report(Head(todo).error, 0, NoDev)
  /\ todo' = Tail(todo)
  /\ UNCHANGED <<env, pc, round, table, read, missing, failing, stat, restarts, log>>

\* The lines that mountUsage logs about p.
Logged(p, failed) ==
  opened' = [opened EXCEPT ![p] = @ + (IF failed /\ p \notin mountFailing THEN 1 ELSE 0)
                                    - (IF ~failed /\ p \in mountFailing THEN 1 ELSE 0)]

\* Mutant of NowFailing: a path that is readable again is not taken out.
StillFailing(p, failed) == mountFailing \cup (IF failed THEN {p} ELSE {})

\* c.mountFailing: a failure is logged when it starts and when it clears.
NowFailing(p, failed) == IF failed THEN mountFailing \cup {p} ELSE mountFailing \ {p}

\* mountUsage once statfs has returned err (none: "").
MountUsage(err, at, of) ==
  /\ Report(err, at, of)
  /\ Logged(Head(todo).path, err # "")
  /\ mountFailing' = NowFailing(Head(todo).path, err # "")
  /\ down' = IF err # "" THEN down \cup {Head(todo).path} ELSE down \ {Head(todo).path}
  /\ todo' = Tail(todo)
  /\ Goto("mounts")

(***************************************************************************)
(* statfs.                                                                 *)
(***************************************************************************)
Path == Head(todo).path
Stuck == {k \in calls : k.id = pending[Path]}

\* A new channel: a number that no other call has.
NewId(others) == Min((1..(Cardinality(others) + 1)) \ {k.id : k \in others})

StartCall(others) ==
  /\ cur' = NewId(others)
  /\ calls' = others \cup {[id |-> cur', path |-> Path, at |-> round, st |-> "running",
                            of |-> Serving(mounted, Path).dev]}
  /\ Goto("wait")

\* Mutant of TakeNew: the late result is used instead of a new reading.
TakeLate(k) ==
  /\ pending' = [pending EXCEPT ![Path] = NoCall]
  /\ calls' = calls \ {k}
  /\ MountUsage(IF k.st = "ok" THEN "" ELSE "error", k.at, k.of)
  /\ UNCHANGED cur

\* The call left pending has returned: its result is dropped and a new one is made.
TakeNew(k) ==
  /\ pending' = [pending EXCEPT ![Path] = NoCall]
  /\ StartCall(calls \ {k})
  /\ UNCHANGED <<work, log>>

Statfs ==
  /\ At("mounts") /\ todo # <<>> /\ Head(todo).error = ""
  /\ \/ /\ pending[Path] = NoCall
        /\ StartCall(calls)
        /\ UNCHANGED <<pending, work, log>>
     \/ \E k \in Stuck : k.st # "running" /\ TakeNew(k)
     \/ /\ \E k \in Stuck : k.st = "running"
        /\ MountUsage("timeout", 0, NoDev)
        /\ UNCHANGED stat
  /\ UNCHANGED <<env, round, table, read, missing, failing, restarts>>

\* The result comes in time.
Receive ==
  /\ At("wait")
  /\ \E k \in calls :
       /\ k.id = cur /\ k.st # "running"
       /\ MountUsage(IF k.st = "ok" THEN "" ELSE "error", k.at, k.of)
       /\ calls' = calls \ {k}
  /\ cur' = NoCall
  /\ UNCHANGED <<env, round, table, read, missing, failing, pending, restarts>>

\* Mutant of LeavePending: the call is not remembered.
ForgetCall == UNCHANGED pending

LeavePending == pending' = [pending EXCEPT ![Path] = cur]

\* Mutant of TimedOut: a statfs without a timer.
NeverTimedOut == FALSE

\* The timer may fire at any time; when the result is there too, either may be taken.
TimedOut == At("wait")

Timeout ==
  /\ TimedOut
  /\ LeavePending
  /\ MountUsage("timeout", 0, NoDev)
  /\ cur' = NoCall
  /\ UNCHANGED <<env, round, table, read, missing, failing, calls, restarts>>

\* collectAndPublish returns, and what it kept is gone.
EndRound ==
  /\ table' = NoTable /\ read' = <<>> /\ missing' = {} /\ event' = <<>>
  /\ Goto("select")
  /\ UNCHANGED todo

\* PublishBatch, whatever becomes of the event.
Publish ==
  /\ At("mounts") /\ todo = <<>>
  /\ EndRound
  /\ UNCHANGED <<env, round, failing, stat, restarts, log>>

\* A panic in the publisher: runSupervised builds a new Collector.  The goroutines of
\* the old one live on.
Panic ==
  /\ At("mounts") /\ todo = <<>>
  /\ restarts < MaxRestarts
  /\ restarts' = restarts + 1
  /\ failing' = {} /\ mountFailing' = {} /\ pending' = [p \in Paths |-> NoCall]
  /\ calls' = {k \in calls : k.st = "running"}
  /\ EndRound
  /\ UNCHANGED <<env, round, cur, opened, down>>

-----------------------------------------------------------------------------
Init ==
  /\ mounted \in Tables /\ remounts = 0 /\ changed = FALSE
  /\ pc = "select" /\ round = 0
  /\ table = NoTable /\ todo = <<>>
  /\ read = <<>> /\ missing = {} /\ event = <<>>
  /\ failing = {} /\ mountFailing = {}
  /\ pending = [p \in Paths |-> NoCall] /\ calls = {} /\ cur = NoCall
  /\ restarts = 0
  /\ opened = [p \in Paths |-> 0] /\ down = {}

Collect ==
  \/ StatLocal \/ HangLocal \/ BeginMounts \/ NothingToStat
  \/ Statfs \/ Receive \/ Timeout \/ Publish

Environment ==
  \/ (\E e \in Mountable : Mount(e)) \/ (\E i \in DOMAIN mounted : Unmount(i))
  \/ (\E k \in calls : CallReturns(k))
  \/ AnswerLocal

\* Run has returned, or the bound on rounds is reached.
Stopped == (At("done") \/ At("select")) /\ UNCHANGED vars

Next == Collect \/ BeginRound \/ Return \/ Panic \/ Environment \/ Stopped

Spec == Init /\ [][Next]_vars

\* The goroutine is scheduled and its timers fire; no statfs need ever return.
FairSpec == Spec /\ WF_vars(Collect)

-----------------------------------------------------------------------------
Outstanding(p) == {k \in calls : k.path = p /\ k.st = "running"}

\* A dead mount holds one goroutine, not one per tick or per config entry that names it;
\* only a supervised restart, which forgets pending, leaves another one behind.
OneCallPerPath == \A p \in Paths : Cardinality(Outstanding(p)) <= 1 + restarts

\* A published size is the present size of the filesystem that it is published for: it
\* comes from a statfs started in the same round, never from a call that was given up
\* earlier, and that statfs was answered by the device named beside it.  Two exceptions:
\* a table that changed since it was read, and a mount point hidden by a later mount
\* above it.
SizeTrue ==
  \A j \in DOMAIN event :
    event[j].error = "" =>
      /\ event[j].at = round
      /\ \/ ~table.ok \/ changed
         \/ event[j].dev = event[j].of
         \/ \E i \in Covered(table.entries) :
              HoldsPath(table.entries[i].path, event[j].item.path)

\* The server's total counts no device twice, with bind mounts, loop devices and network
\* filesystems in the table, unless the table changed meanwhile or one disk is mounted
\* over another (both are listed, and statfs answers for the upper one twice).
CountedOnce ==
  \/ changed \/ Covered(table.entries) \cap Disks(table.entries) # {}
  \/ /\ IsInjective(read)
     /\ \A k \in DOMAIN read : \E i \in Disks(table.entries) : table.entries[i].dev = read[k]

Entries(p) == {j \in DOMAIN event : event[j].item.path = p}

\* When the event is published every configured path is in it exactly once, and so is
\* every pattern that matched nothing; no mount point is in it twice.
EveryPathOnce ==
  At("mounts") /\ todo = <<>> =>
    /\ \A p \in Paths : Cardinality(Entries(p)) <= 1
    /\ \A i \in DOMAIN Config :
         ~HasWildcard(Config[i]) \/ Match(table.entries, Config[i]) = {} =>
           Entries(Config[i]) # {}

\* Until a restart, the log has one open failure for each path whose last statfs failed
\* and none for the others.
FailureLoggedOnce ==
  restarts = 0 =>
    \A p \in Paths : opened[p] = (IF p \in down THEN 1 ELSE 0)

\* A round ends though no statfs of a configured path is ever answered; only a local
\* filesystem can hold it up.
RoundEnds == At("mounts") ~> At("select")
=============================================================================
