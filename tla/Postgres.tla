------------------------------- MODULE Postgres -------------------------------
(***************************************************************************)
(* The database collector (db/collector.go) with its Postgres engine       *)
(* (db/postgres), and the server it reads.                                 *)
(*                                                                         *)
(* A round opens a session to the maintenance database, reads the parts of *)
(* the event one query after the other, closes it, and then opens one      *)
(* session after the other to read the tables of each database.  The       *)
(* server may stop, restart, lose or reset statistics and databases may    *)
(* come and go between any two queries; the deadline of the round or the   *)
(* shutdown may pass there too.                                            *)
(*                                                                         *)
(* Round numbers stand for the times at which counters are read.           *)
(***************************************************************************)
EXTENDS Naturals, Sequences, FiniteSets

CONSTANTS
  NumDBs,           \* how many databases there may be
  Counters,         \* the columns of pg_stat_database that are differenced
  None,             \* nothing: a NULL column, a value that was not read
  OtherParts,       \* the parts between "server" and "databases": connections,
                    \* longRunning, blocked, replication
  ConnectAttempts,  \* connectAttempts
  RoleLimit,        \* CONNECTION LIMIT of the agent's role
  MaxRounds,        \* bound: rounds, the priming one included
  MaxWork,          \* bound: things counted in the databases
  MaxFaults         \* bound: stops of the server, statistics reset, databases dropped or
                    \* created, deadlines passed, calls that fail for other reasons

ASSUME PostgresAssumption ==
  /\ NumDBs \in Nat
  /\ ConnectAttempts \in Nat \ {0} /\ RoleLimit \in Nat \ {0}
  /\ MaxRounds \in Nat /\ MaxWork \in Nat /\ MaxFaults \in Nat

\* Each of them is read once.
ASSUME PartsAssumption ==
  /\ OtherParts \in Seq({"connections", "longRunning", "blocked", "replication"})
  /\ \A i, j \in DOMAIN OtherParts : OtherParts[i] = OtherParts[j] => i = j

\* Databases, ordered by name as qDatabases orders them.
DBs == 1..NumDBs
Maintenance == 0

\* A row of pg_database with its statistics; a reading of it; what is published of two.
Row ==
  [exists : BOOLEAN, allow : BOOLEAN, stats : [Counters -> Nat] \cup {None}, reset : Nat,
   inc : Nat]
Reading == [db : Row, start : Nat, total : [Counters -> Nat]]
Window == [seconds : Nat, delta : [Counters -> Nat]]

ASSUME NoneAssumption ==
  /\ None \notin Nat /\ None \notin [Counters -> Nat] /\ None \notin Window
  /\ \A D \in SUBSET DBs : None \notin [D -> Row] /\ None \notin [D -> Reading]

VARIABLES
  up, started,            \* the server: does it serve, and its start time
  dbs,                    \* [exists, allow, stats, reset, inc], inc counting creations
  backends,               \* closed by the agent, still exiting on the server
  total,                  \* history: all that was ever counted under a name
  work, faults, cancelled,
  pc, round, expired,     \* expired: the context of the round is done
  target, conn, attempt, step,   \* the session and what is read over it
  srvStart, rows, next, todo,    \* results of the round
  prev, failing, seen,           \* the engine's memory
  event,
  \* History: was the event published, did the shutdown make a read fail, what was
  \* read in each round, the lines logged and the keys that failed in this round and
  \* in the one before.
  out, cut, reads, warned, cleared, failedNow, failedBefore

bounds == <<work, faults>>
world == <<up, started, dbs, total>>
session == <<target, conn, attempt, step>>
result == <<srvStart, rows, next, todo>>
memory == <<prev, failing, seen>>
log == <<warned, cleared, failedNow, failedBefore>>
vars == <<world, backends, bounds, cancelled, pc, round, expired, session, result, memory,
          event, out, cut, reads, log>>

At(l) == pc = l
Goto(l) == pc' = l

Zero == [c \in Counters |-> 0]
Nothing == [d \in {} |-> None]

(***************************************************************************)
(* The server.  What happens to it during a step of the engine that asks   *)
(* it nothing may as well happen before the next question.                 *)
(***************************************************************************)
Between == At("idle") /\ round < MaxRounds
Unasked == Between \/ At("connect") \/ At("read")

\* Nothing has been counted where there is no entry.
CountedIn(d) == IF dbs[d].stats = None THEN Zero ELSE dbs[d].stats

\* Something is counted; the first thing counted makes the statistics entry.  Only a
\* reading of the counters sees it, so it may all happen between rounds.
Work(d) ==
  /\ work < MaxWork /\ work' = work + 1
  /\ Between /\ up /\ dbs[d].exists
  /\ \E c \in Counters :
       /\ dbs' = [dbs EXCEPT ![d].stats = [CountedIn(d) EXCEPT ![c] = @ + 1]]
       /\ total' = [total EXCEPT ![d][c] = @ + 1]
  /\ UNCHANGED <<up, started, backends, faults, cancelled, pc, round, expired,
                 session, result, memory, event, out, cut, reads, log>>

Fault == faults < MaxFaults /\ faults' = faults + 1

Change == Unasked /\ Fault

\* A database is dropped (not while a session uses it), created again, or has its
\* statistics reset.
Alter(d) ==
  /\ Change /\ up
  /\ \/ /\ dbs[d].exists /\ ~(target = d /\ conn = "open")
        /\ dbs' = [dbs EXCEPT ![d].exists = FALSE]
     \/ /\ ~dbs[d].exists
        /\ dbs' = [dbs EXCEPT ![d] = [dbs[d] EXCEPT !.exists = TRUE, !.stats = None,
                                                   !.reset = 0, !.inc = @ + 1]]
     \/ /\ dbs[d].exists
        /\ dbs' = [dbs EXCEPT ![d] = [dbs[d] EXCEPT !.stats = Zero, !.reset = faults + 1]]
  /\ UNCHANGED <<up, started, backends, total, work, cancelled, pc, round,
                 expired, session, result, memory, event, out, cut, reads, log>>

\* The server stops and its sessions with it; a crash may lose the statistics.
Stop ==
  /\ Change /\ up /\ up' = FALSE
  /\ \/ dbs' = dbs
     \/ dbs' = [d \in DBs |-> IF dbs[d].stats = None THEN dbs[d]
                              ELSE [dbs[d] EXCEPT !.stats = Zero]]
  /\ conn' = IF conn = "open" THEN "broken" ELSE conn
  /\ backends' = 0
  /\ UNCHANGED <<started, total, work, cancelled, pc, round, expired, target, attempt,
                 step, result, memory, event, out, cut, reads, log>>

Boot ==
  /\ Unasked /\ ~up /\ up' = TRUE
  /\ started' = started + 1
  /\ UNCHANGED <<dbs, backends, total, bounds, cancelled, pc, round, expired, session, result,
                 memory, event, out, cut, reads, log>>

\* A session that the agent closed is gone on the server as well.
BackendExits ==
  /\ Between \/ At("connect")
  /\ backends > 0 /\ backends' = backends - 1
  /\ UNCHANGED <<world, bounds, cancelled, pc, round, expired, session, result, memory, event,
                 out, cut, reads, log>>

(***************************************************************************)
(* The context of the round: its deadline, and the shutdown.               *)
(***************************************************************************)
Collecting == pc \notin {"idle", "publish", "done"}

\* The deadline passes while a call waits for the server, which then fails, as do all
\* that follow.  (Passing between two calls it makes the second one fail.)
Expires == ~expired /\ Fault /\ expired' = TRUE

\* Between rounds it is as if at the start of the next one.
Cancel ==
  /\ pc \in {"connect", "retry", "read", "publish"}
  /\ ~cancelled /\ cancelled' = TRUE
  /\ expired' = (expired \/ Collecting)
  /\ UNCHANGED <<world, backends, bounds, pc, round, session, result, memory, event, out, cut,
                 reads, log>>

(***************************************************************************)
(* round.ok and prune: a key is a part of the server or of a database.     *)
(***************************************************************************)
Key(part) == <<target, part>>

Readable(key) ==
  /\ seen' = seen \cup {key}
  /\ failing' = failing \ {key}
  /\ cleared' = cleared \cup ({key} \cap failing)
  /\ UNCHANGED <<prev, warned, failedNow, failedBefore, cut>>

Failed(key) ==
  /\ seen' = seen \cup {key}
  /\ failing' = failing \cup {key}
  /\ warned' = warned \cup ({key} \ failing)
  /\ failedNow' = failedNow \cup {key}
  /\ cut' = (cut \/ (cancelled /\ expired))
  /\ UNCHANGED <<prev, cleared, failedBefore>>

\* Mutant of Prune: keys that were not attempted stay.
PruneNothing == failing

Prune == failing \cap seen

(***************************************************************************)
(* Run: a round at startup that is not published, one after the startup    *)
(* delay and one for each tick.                                            *)
(***************************************************************************)
NoEvent == [up |-> FALSE, connected |-> FALSE, have |-> {}, errs |-> {}, dbs |-> Nothing]

BeginRound ==
  /\ Between
  /\ round' = round + 1
  /\ expired' = cancelled
  /\ event' = NoEvent /\ seen' = {}
  /\ Goto("connect")
  /\ out' = FALSE /\ cut' = FALSE
  /\ warned' = {} /\ cleared' = {} /\ failedNow' = {} /\ failedBefore' = failedNow
  /\ UNCHANGED <<world, backends, bounds, cancelled, session, result, prev, failing, reads>>

\* ctx is done in the startup delay or in the select.
Return ==
  /\ At("idle") /\ cancelled /\ round > 0
  /\ Goto("done")
  /\ UNCHANGED <<world, backends, bounds, cancelled, round, expired, session, result, memory,
                 event, out, cut, reads, log>>

(***************************************************************************)
(* connect.                                                                *)
(***************************************************************************)
InUse == backends + (IF conn = "open" THEN 1 ELSE 0)

Missing == target # Maintenance /\ ~dbs[target].exists

\* What one Connect may return in time.  A full server refuses like a role at its limit.
Outcomes ==
  IF expired THEN {}
  ELSE (CASE ~up -> {"noAnswer", "cannotConnectNow"}
          [] up /\ InUse >= RoleLimit -> {"tooMany"}
          [] up /\ InUse < RoleLimit -> IF Missing THEN {"refused"} ELSE {"ok"})
       \cup (IF faults < MaxFaults /\ up THEN {"tooMany", "refused"} ELSE {})

\* Is the outcome o due to the state of things, or one of the errors that are counted?
Counted(o) ==
  \/ o = "tooMany" /\ InUse < RoleLimit
  \/ o = "refused" /\ ~(Missing /\ InUse < RoleLimit)

\* ConnectFailure: an answer means that the server runs, except while it starts or stops.
UpAfter(o) == o \in {"tooMany", "refused"}

\* r.ok after connect: without a session to the maintenance database the event is empty;
\* without one to a database, that database's tables are.
ConnectFailed(o) ==
  /\ Failed(Key("connect"))
  /\ IF target = Maintenance
     THEN event' = [event EXCEPT !.up = UpAfter(o)] /\ Goto("end")
     ELSE event' = [event EXCEPT !.dbs[target].errs = {"connect"}] /\ Goto("db")
  /\ UNCHANGED <<conn, attempt>>

LastAttempt == attempt = ConnectAttempts

Connected ==
  /\ Readable(Key("connect"))
  /\ conn' = "open"
  /\ event' = IF target = Maintenance THEN [event EXCEPT !.up = TRUE, !.connected = TRUE]
              ELSE event
  /\ Goto("read")
  /\ UNCHANGED attempt

Connect ==
  /\ At("connect")
  /\ \/ \E o \in Outcomes :
          /\ faults' = IF Counted(o) THEN faults + 1 ELSE faults
          /\ expired' = expired
          /\ \/ o = "ok" /\ Connected
             \/ /\ o = "tooMany" /\ ~LastAttempt
                /\ Goto("retry")
                /\ UNCHANGED <<conn, attempt, event, memory, log, cut>>
             \/ o # "ok" /\ (o # "tooMany" \/ LastAttempt) /\ ConnectFailed(o)
     \/ /\ Expires \/ (expired /\ UNCHANGED <<expired, faults>>)
        /\ ConnectFailed("timedOut")
  /\ UNCHANGED <<world, backends, work, cancelled, round, target, step, result, out,
                 reads>>

\* Mutant of NextAttempt: the attempts are not counted.
SameAttempt == attempt

NextAttempt == attempt + 1

\* The wait before another attempt: over, or cut off with the refusal as the result.
Retry ==
  /\ At("retry")
  /\ \/ /\ attempt' = NextAttempt /\ Goto("connect")
        /\ UNCHANGED <<faults, expired, conn, event, memory, log, cut>>
     \/ /\ Expires \/ (expired /\ UNCHANGED <<expired, faults>>)
        /\ ConnectFailed("tooMany")
  /\ UNCHANGED <<world, backends, work, cancelled, round, target, step, result, out,
                 reads>>

(***************************************************************************)
(* The parts read over a session.                                          *)
(***************************************************************************)
ServerParts == <<"server">> \o OtherParts \o <<"databases", "sizes">>
TableParts == <<"largestTables", "deadTuples">>

Plan == IF target = Maintenance THEN ServerParts ELSE TableParts
Part == Plan[step]

Listed == {d \in DBs : dbs[d].exists}

\* A part that is read fills its fields; two of them are used again in the round.
PartRead ==
  /\ conn = "open" /\ ~expired
  /\ Readable(Key(Part))
  /\ event' = IF target = Maintenance THEN [event EXCEPT !.have = @ \cup {Part}]
              ELSE [event EXCEPT !.dbs[target].have = @ \cup {Part}]
  /\ srvStart' = IF Part = "server" THEN started ELSE srvStart
  /\ IF Part = "databases"
     THEN /\ rows' = [d \in Listed |-> dbs[d]]
          /\ todo' = Listed
          /\ reads' = [reads EXCEPT ![round] =
               IF srvStart = None THEN None
               ELSE [d \in Listed |-> [db |-> dbs[d], start |-> started, total |-> total[d]]]]
     ELSE UNCHANGED <<rows, todo, reads>>
  /\ UNCHANGED <<faults, expired, next>>

\* A query fails by itself, because the session is lost, or because time is up.
QueryFails ==
  \/ (expired \/ conn = "broken") /\ UNCHANGED <<faults, expired>>
  \/ ~expired /\ conn = "open" /\ Fault /\ UNCHANGED expired
  \/ Expires

\* Mutant of Named: a failure past the deadline is not named.
NamedInTime(part) == IF expired THEN {} ELSE {part}

Named(part) == {part}

PartFails ==
  /\ QueryFails
  /\ Failed(Key(Part))
  /\ event' = IF target = Maintenance THEN [event EXCEPT !.errs = @ \cup Named(Part)]
              ELSE [event EXCEPT !.dbs[target].errs = @ \cup Named(Part)]
  /\ UNCHANGED <<result, reads>>

ReadPart ==
  /\ At("read")
  /\ PartRead \/ PartFails
  /\ IF step < Len(Plan) THEN step' = step + 1 /\ Goto("read")
                         ELSE step' = step /\ Goto("close")
  /\ UNCHANGED <<world, backends, work, cancelled, round, target, conn, attempt, out>>

\* Mutant of Closed: the session is left open.
LeftOpen == conn

Closed == "none"

\* conn.Close; without the list of databases the round is over.
Close ==
  /\ At("close")
  /\ conn' = Closed
  /\ backends' = IF conn = "open" /\ conn' = "none" THEN backends + 1 ELSE backends
  /\ Goto(IF rows = None THEN "end" ELSE "db")
  /\ UNCHANGED <<world, bounds, cancelled, round, expired, target, attempt, step, result,
                 memory, event, out, cut, reads, log>>

(***************************************************************************)
(* databases: the activity of each, and its tables.                        *)
(***************************************************************************)
\* Mutant of Comparable: a restart or a reset shows only in the counters.
ComparableCounters(p, c) == \A k \in Counters : c.stats[k] >= p.stats[k]

\* Diff can be taken.
Comparable(p, c) ==
  /\ c.at > p.at /\ p.started = c.started /\ p.reset = c.reset
  /\ \A k \in Counters : c.stats[k] >= p.stats[k]

Diff(p, c) ==
  IF Comparable(p, c)
  THEN [seconds |-> c.at - p.at, delta |-> [k \in Counters |-> c.stats[k] - p.stats[k]]]
  ELSE None

Sample(d) == [stats |-> rows[d].stats, reset |-> rows[d].reset, started |-> srvStart, at |-> round]

\* ParseCounters finds counters, and a restart can be ruled out.
Measured(d) == rows[d].stats # None /\ srvStart # None

\* Mutant of NextSamples: only a sample that was differenced is kept.
NextIfKnown(d) ==
  IF Measured(d) /\ d \in DOMAIN prev
  THEN [x \in DOMAIN next \cup {d} |-> IF x = d THEN Sample(d) ELSE next[x]]
  ELSE next

NextSamples(d) ==
  IF Measured(d)
  THEN [x \in DOMAIN next \cup {d} |-> IF x = d THEN Sample(d) ELSE next[x]]
  ELSE next

Entry(d) ==
  [activity |-> IF Measured(d) /\ d \in DOMAIN prev THEN Diff(prev[d], Sample(d)) ELSE None,
   have |-> {},
   errs |-> IF rows[d].allow THEN {} ELSE {"connect"}]

Database ==
  /\ At("db") /\ todo # {}
  /\ LET d == CHOOSE x \in todo : \A y \in todo : x <= y
     IN  /\ todo' = todo \ {d}
         /\ next' = NextSamples(d)
         /\ event' = [event EXCEPT !.dbs = [x \in DOMAIN @ \cup {d} |->
                                              IF x = d THEN Entry(d) ELSE @[x]]]
         /\ target' = d /\ attempt' = 1 /\ step' = 1
         /\ Goto(IF rows[d].allow THEN "connect" ELSE "db")
  /\ UNCHANGED <<world, backends, bounds, cancelled, round, expired, conn, srvStart, rows,
                 memory, out, cut, reads, log>>

\* The samples of this round replace the last ones, unless the start time is unknown.
DatabasesDone ==
  /\ At("db") /\ todo = {}
  /\ prev' = IF srvStart = None THEN prev ELSE next
  /\ Goto("end")
  /\ UNCHANGED <<world, backends, bounds, cancelled, round, expired, session, result, failing,
                 seen, event, out, cut, reads, log>>

\* Collect returns: the deferred prune.
EndRound ==
  /\ At("end")
  /\ failing' = Prune
  /\ srvStart' = None /\ rows' = None /\ next' = Nothing /\ todo' = {}
  /\ target' = Maintenance /\ attempt' = 1 /\ step' = 1
  /\ Goto(IF round = 1 THEN "idle" ELSE "publish")
  /\ UNCHANGED <<world, backends, bounds, cancelled, round, expired, conn, prev, seen, event,
                 out, cut, reads, log>>

\* collectAndPublish: nothing is published of a round that the shutdown may have cut.
Publish ==
  /\ At("publish")
  /\ out' = ~cancelled
  /\ Goto("idle")
  /\ UNCHANGED <<world, backends, bounds, cancelled, round, expired, session, result, memory,
                 event, cut, reads, log>>

-----------------------------------------------------------------------------
Init ==
  /\ up = TRUE /\ started = 0
  /\ \E allow \in [DBs -> BOOLEAN] :
       dbs = [d \in DBs |-> [exists |-> TRUE, allow |-> allow[d], stats |-> Zero, reset |-> 0,
                             inc |-> 0]]
  /\ backends = 0
  /\ total = [d \in DBs |-> Zero]
  /\ work = 0 /\ faults = 0 /\ cancelled = FALSE
  /\ pc = "idle" /\ round = 0 /\ expired = FALSE
  /\ target = Maintenance /\ conn = "none" /\ attempt = 1 /\ step = 1
  /\ srvStart = None /\ rows = None /\ next = Nothing /\ todo = {}
  /\ prev = Nothing /\ failing = {} /\ seen = {}
  /\ event = NoEvent
  /\ out = FALSE /\ cut = FALSE /\ reads = [r \in 1..MaxRounds |-> None]
  /\ warned = {} /\ cleared = {} /\ failedNow = {} /\ failedBefore = {}

Server == Stop \/ Boot \/ BackendExits \/ \E d \in DBs : Work(d) \/ Alter(d)

\* Run has returned, or all the rounds of the bound have been run.
Stopped == (At("done") \/ (At("idle") /\ round = MaxRounds)) /\ UNCHANGED vars

Collect ==
  Connect \/ Retry \/ ReadPart \/ Close \/ Database \/ DatabasesDone \/ EndRound \/ Publish

Next == Server \/ Cancel \/ BeginRound \/ Return \/ Collect \/ Stopped

Spec == Init /\ [][Next]_vars

\* A call returns, by its context if not otherwise; a closed session need never be gone on
\* the server, nor a stopped server come back.
FairSpec == Spec /\ WF_vars(Collect)

-----------------------------------------------------------------------------
\* The engine opens a session only when it holds none ("at most one session is open at a
\* time and each is closed before the next opens"), and holds none between rounds,
\* whatever failed on the way.
OneSession == pc \in {"connect", "retry", "db", "end", "publish", "idle"} => conn = "none"

\* What was published of database d in this round, and the reading `seconds` before.
Activity(d) == event.dbs[d].activity
Before(d) == reads[round - Activity(d).seconds]

\* Published activity is what happened in the database between two readings that lie
\* `seconds` apart, over failed rounds, restarts and resets; for a database dropped and
\* created again under its name it is never more than that, and never negative.
ActivityExact ==
  out => \A d \in DOMAIN event.dbs : Activity(d) # None =>
    /\ Before(d) # None /\ d \in DOMAIN Before(d)
    /\ \A k \in Counters :
         LET happened == reads[round][d].total[k] - Before(d)[d].total[k]
         IN  /\ Activity(d).delta[k] \in 0..happened
             /\ reads[round][d].db.inc = Before(d)[d].db.inc => Activity(d).delta[k] = happened

\* Activity is published for a database whose counters were read in this round and in
\* the one before, unless the server restarted, the statistics were reset or the
\* database was created again between the two.
ActivityPresent ==
  out /\ reads[round - 1] # None /\ reads[round] # None =>
    \A d \in DOMAIN reads[round] \cap DOMAIN reads[round - 1] :
      LET now == reads[round][d]
          was == reads[round - 1][d]
      IN  now.start = was.start /\ now.db.reset = was.db.reset /\ now.db.inc = was.db.inc
            /\ now.db.stats # None /\ was.db.stats # None => Activity(d) # None

\* A failure is logged in the round in which it starts and in the one in which it
\* clears, and in no other: also when a part was not attempted for a while.
LoggedOnChange ==
  At("idle") =>
    /\ warned = failedNow \ failedBefore
    /\ cleared = (failedBefore \cap seen) \ failedNow

Accounted(have, errs, parts) == have \cup errs = parts /\ have \cap errs = {}

\* In a published event every part is there or named as failed, for the server and for
\* each database, wherever the deadline fell, and no failure is the shutdown's.
EventAccounted ==
  out =>
    /\ ~cut
    /\ IF event.connected
       THEN Accounted(event.have, event.errs, {ServerParts[i] : i \in DOMAIN ServerParts})
       ELSE event.have = {} /\ event.errs = {} /\ event.dbs = Nothing
    /\ \A d \in DOMAIN event.dbs :
         \/ event.dbs[d].have = {} /\ event.dbs[d].errs = {"connect"}
         \/ Accounted(event.dbs[d].have, event.dbs[d].errs, {TableParts[i] : i \in DOMAIN TableParts})

\* Collect returns though the role's connections are used up and stay so, or the server is
\* down: the attempts are counted and every wait ends with the round's context.
CollectReturns == At("connect") ~> ~Collecting
=============================================================================
