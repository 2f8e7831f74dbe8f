--------------------------- MODULE PostgresProofs ---------------------------
(***************************************************************************)
(* The rounds of module Postgres, for any number of databases, counters    *)
(* and rounds, whatever becomes of the server and of the context between   *)
(* two queries.  Four layers, each proved with the help of those before:   *)
(* the session and the control of a round; the log; the parts of the       *)
(* event; and the activity of the databases.                               *)
(***************************************************************************)
EXTENDS Postgres, TLAPS, SequenceTheorems, WellFoundedInduction

PCs ==
  {"idle", "connect", "retry", "read", "close", "db", "end", "publish", "done"}

\* The server part of a round is not over, so there is no database yet.
ServerPhase == pc \in {"connect", "retry"} /\ target = Maintenance

CtlOK ==
  /\ pc \in PCs /\ round \in 0..MaxRounds /\ (pc # "idle" => round > 0)
  /\ pc = "publish" => round > 1
  /\ target \in 0..NumDBs /\ step \in Nat \ {0} /\ todo \in SUBSET DBs
  /\ target \notin todo
  /\ conn \in {"none", "open", "broken"} /\ (conn = "open" => up) /\ backends \in Nat
  /\ pc \notin {"read", "close"} => conn = "none"
  /\ pc = "read" => step \in 1..Len(Plan)
  /\ pc \in {"idle", "publish", "done", "connect", "retry"} => step = 1
  /\ pc \in {"idle", "publish", "done"} \/ ServerPhase =>
       target = Maintenance /\ rows = None /\ srvStart = None /\ next = Nothing /\ todo = {}
  /\ pc = "read" /\ target = Maintenance /\ step = 1 => rows = None
  /\ pc \in {"read", "close"} /\ target = Maintenance => next = Nothing
  /\ pc = "db" \/ target # Maintenance => rows # None

\* The keys that failed in the round before and have not been tried yet still count as
\* failing.
Balance == failing = (failedBefore \ seen) \cup failedNow

LoggedOK ==
  /\ failedNow \subseteq seen
  /\ warned = failedNow \ failedBefore
  /\ cleared = (failedBefore \cap seen) \ failedNow

\* What is to be tried in this round has not been.
UntriedOK ==
  /\ pc \in {"connect", "retry"} => \A k \in seen : k[1] # target
  /\ pc = "read" => \A i \in step..Len(Plan) : Key(Plan[i]) \notin seen
  /\ pc \in {"connect", "retry", "read", "close", "db"} => \A k \in seen : k[1] \notin todo
  /\ pc \in {"connect", "retry", "read", "close"} /\ target = Maintenance =>
       \A k \in seen : k[1] = Maintenance

LogOK ==
  /\ IF pc \in {"idle", "publish", "done"} THEN failing = failedNow ELSE Balance
  /\ LoggedOK /\ UntriedOK

\* A round has not got past its databases.
InRound == pc \in {"connect", "retry", "read", "close", "db"}

AllParts(plan) == {plan[i] : i \in DOMAIN plan}
PartsBefore(plan, n) == {plan[i] : i \in 1..(n - 1)}

\* The tables of d: not asked for yet, being read, or accounted for.
TablesOK(d) ==
  LET e == event.dbs[d] IN
  IF d = target /\ pc \in {"connect", "retry"} THEN e.have = {} /\ e.errs = {}
  ELSE IF d = target /\ pc = "read" THEN Accounted(e.have, e.errs, PartsBefore(TableParts, step))
  ELSE \/ e.have = {} /\ e.errs = {"connect"}
       \/ Accounted(e.have, e.errs, AllParts(TableParts))

ShapeOK ==
  /\ event = [up |-> event.up, connected |-> event.connected, have |-> event.have,
              errs |-> event.errs, dbs |-> event.dbs]
  /\ event.dbs = [d \in DOMAIN event.dbs |-> event.dbs[d]]
  /\ DOMAIN event.dbs \subseteq DBs
  /\ \A d \in DOMAIN event.dbs :
       event.dbs[d] = [activity |-> event.dbs[d].activity, have |-> event.dbs[d].have,
                       errs |-> event.dbs[d].errs]

\* Without a session to the maintenance database the event is empty.
ReachOK ==
  /\ ~event.connected => event.have = {} /\ event.errs = {} /\ event.dbs = Nothing
  /\ pc \in {"read", "close", "db"} \/ target # Maintenance => event.connected
  /\ ServerPhase => ~event.connected
  /\ InRound /\ pc # "db" /\ target = Maintenance => event.dbs = Nothing
  /\ target # Maintenance => target \in DOMAIN event.dbs

ServerOK ==
  IF pc = "read" /\ target = Maintenance
  THEN Accounted(event.have, event.errs, PartsBefore(ServerParts, step))
  ELSE event.connected => Accounted(event.have, event.errs, AllParts(ServerParts))

OutOK == (cut => cancelled) /\ (out => pc = "idle" /\ ~cancelled /\ round > 1)

EventOK ==
  OutOK /\ ShapeOK /\ ReachOK /\ ServerOK /\ \A d \in DOMAIN event.dbs : TablesOK(d)

WorldOK ==
  /\ dbs \in [DBs -> Row] /\ total \in [DBs -> [Counters -> Nat]]
  /\ started \in Nat /\ faults \in Nat /\ up \in BOOLEAN
  /\ \A d \in DBs : dbs[d].reset <= faults

Now(d) == [db |-> dbs[d], start |-> started, total |-> total[d]]

\* What an earlier reading o of a database says of a later state n of it: within one
\* creation, start of the server and reset the counters show all that was counted; those
\* of a later creation show no more than that.  (A server that has stopped may have lost
\* them; lasting tells that it has not.)
Follows(o, n, lasting) ==
  /\ o.db.inc <= n.db.inc /\ o.start <= n.start
  /\ \A k \in Counters : o.total[k] <= n.total[k]
  /\ /\ lasting /\ o.db.stats # None
     /\ o.db.inc = n.db.inc /\ o.db.reset = n.db.reset /\ o.start = n.start
     => /\ n.db.stats # None
        /\ \A k \in Counters : n.db.stats[k] + o.total[k] = o.db.stats[k] + n.total[k]
  /\ o.db.inc # n.db.inc /\ n.db.stats # None =>
       \A k \in Counters : n.db.stats[k] + o.total[k] <= n.total[k]

Rounds == 1..MaxRounds

ReadsOK ==
  /\ reads = [r \in Rounds |-> reads[r]]
  /\ \A r \in Rounds : r > round => reads[r] = None
  /\ \A r \in Rounds : reads[r] # None =>
       /\ DOMAIN reads[r] \in SUBSET DBs
       /\ reads[r] \in [DOMAIN reads[r] -> Reading]
       /\ \A d \in DOMAIN reads[r] :
            reads[r][d].db.reset <= faults /\ Follows(reads[r][d], Now(d), up)
  /\ \A r, s \in Rounds : r < s /\ reads[r] # None /\ reads[s] # None =>
       \A d \in DOMAIN reads[r] \cap DOMAIN reads[s] : Follows(reads[r][d], reads[s][d], TRUE)

\* What the round has read of the databases.
RowsOK ==
  /\ srvStart \in Nat \cup {None}
  /\ pc = "read" /\ target = Maintenance /\ conn = "open" /\ srvStart # None =>
       srvStart = started
  /\ rows # None => todo \subseteq DOMAIN rows /\ DOMAIN rows \in SUBSET DBs
  /\ round \in Rounds /\ rows # None /\ srvStart # None =>
       /\ reads[round] # None /\ DOMAIN reads[round] = DOMAIN rows
       /\ \A d \in DOMAIN rows : rows[d] = reads[round][d].db /\ srvStart = reads[round][d].start
  /\ InRound /\ reads[round] # None => rows # None /\ srvStart # None
  /\ pc = "end" /\ reads[round] # None => todo = {}

\* The sample that reading r of database d leaves.
SampleOf(d, r) ==
  [stats |-> reads[r][d].db.stats, reset |-> reads[r][d].db.reset,
   started |-> reads[r][d].start, at |-> r]

Sampled(d, r) ==
  r \in Rounds /\ reads[r] # None /\ d \in DOMAIN reads[r] /\ reads[r][d].db.stats # None

\* The samples of reading r are the ones kept.
Kept(r) ==
  reads[r] # None =>
    \A d \in DOMAIN reads[r] : reads[r][d].db.stats # None => d \in DOMAIN prev /\ prev[d].at = r

PrevOK ==
  \A d \in DOMAIN prev :
    /\ prev[d] = SampleOf(d, prev[d].at) /\ Sampled(d, prev[d].at)
    /\ prev[d].at <= round /\ (InRound => prev[d].at < round)

NextOK ==
  /\ \A d \in DOMAIN next : next[d] = SampleOf(d, round) /\ Sampled(d, round)
  /\ rows # None /\ srvStart # None =>
       \A d \in DOMAIN rows \ todo : rows[d].stats # None => d \in DOMAIN next

KeptOK == IF InRound THEN round > 1 => Kept(round - 1) ELSE round > 0 => Kept(round)

SamplesOK == PrevOK /\ NextOK /\ KeptOK

\* No restart, reset or new creation lies between two readings.
Unbroken(o, n) ==
  /\ n.start = o.start /\ n.db.reset = o.db.reset /\ n.db.inc = o.db.inc
  /\ n.db.stats # None /\ o.db.stats # None

ExactOK ==
  \A d \in DOMAIN event.dbs : Activity(d) # None =>
    /\ Before(d) # None /\ d \in DOMAIN Before(d)
    /\ \A k \in Counters :
         LET happened == reads[round][d].total[k] - Before(d)[d].total[k]
         IN  /\ Activity(d).delta[k] \in 0..happened
             /\ reads[round][d].db.inc = Before(d)[d].db.inc => Activity(d).delta[k] = happened

DoneOK == round > 0 /\ reads[round] # None => DOMAIN event.dbs = DOMAIN reads[round] \ todo

PresentOK ==
  round > 1 /\ reads[round] # None /\ reads[round - 1] # None =>
    \A d \in DOMAIN event.dbs \cap DOMAIN reads[round - 1] :
      Unbroken(reads[round - 1][d], reads[round][d]) => Activity(d) # None

ActivityOK == ExactOK /\ DoneOK /\ PresentOK

(***************************************************************************)
(* The plan of a session.                                                  *)
(***************************************************************************)
\* The smallest name of a set of databases: the order of qDatabases.
LEMMA FirstDatabase ==
  ASSUME NEW T \in SUBSET DBs, T # {}
  PROVE  (CHOOSE x \in T : \A y \in T : x <= y) \in T
<1>1. T \subseteq Nat
  BY PostgresAssumption DEF DBs
<1>2. PICK x \in T : \A y \in T : ~(<<y, x>> \in OpToRel(<, Nat))
  BY <1>1, WFMin, NatLessThanWellFounded
<1>3. \A y \in T : ~(y < x)
  BY <1>1, <1>2 DEF OpToRel
<1>4. \A y \in T : x <= y
  BY <1>1, <1>3
<1> QED
  BY <1>4

LEMMA ServerPlan ==
  /\ Len(ServerParts) = Len(OtherParts) + 3
  /\ DOMAIN ServerParts = 1..(Len(OtherParts) + 3)
  /\ \A i \in 1..(Len(OtherParts) + 3) :
       ServerParts[i] = IF i = 1 THEN "server"
                        ELSE IF i <= Len(OtherParts) + 1 THEN OtherParts[i - 1]
                        ELSE IF i = Len(OtherParts) + 2 THEN "databases" ELSE "sizes"
<1> DEFINE Other == {"connections", "longRunning", "blocked", "replication"}
           Names == Other \cup {"server", "databases", "sizes"}
<1>1. OtherParts \in Seq(Other) /\ Other \subseteq Names
  BY PartsAssumption
<1>0. "server" \in Names /\ "databases" \in Names /\ "sizes" \in Names
  OBVIOUS
<1> HIDE DEF Other, Names
<1>2. OtherParts \in Seq(Names) /\ Len(OtherParts) \in Nat
  BY <1>1, SeqMonotonic
<1> DEFINE first == <<"server">>
           last == <<"databases", "sizes">>
<1>3. /\ first \in Seq(Names) /\ Len(first) = 1 /\ first[1] = "server"
      /\ last \in Seq(Names) /\ Len(last) = 2 /\ last[1] = "databases" /\ last[2] = "sizes"
  BY <1>0
<1>4. ServerParts = (first \o OtherParts) \o last
  BY DEF ServerParts
<1> HIDE DEF first, last
<1>5. /\ first \o OtherParts \in Seq(Names) /\ Len(first \o OtherParts) = Len(OtherParts) + 1
      /\ \A i \in 1..(Len(OtherParts) + 1) :
           (first \o OtherParts)[i] = IF i <= 1 THEN first[i] ELSE OtherParts[i - 1]
  <2>1. /\ first \o OtherParts \in Seq(Names)
        /\ Len(first \o OtherParts) = Len(first) + Len(OtherParts)
        /\ \A i \in 1..Len(first) + Len(OtherParts) : (first \o OtherParts)[i] =
             IF i <= Len(first) THEN first[i] ELSE OtherParts[i - Len(first)]
    BY <1>2, <1>3, ConcatProperties
  <2>2. Len(first) + Len(OtherParts) = Len(OtherParts) + 1 /\ Len(first) = 1
    BY <1>2, <1>3
  <2> QED
    BY <2>1, <2>2
<1> DEFINE front == first \o OtherParts
<1> HIDE DEF front
<1>6. /\ ServerParts \in Seq(Names) /\ Len(ServerParts) = Len(OtherParts) + 3
      /\ \A i \in 1..(Len(OtherParts) + 3) :
           ServerParts[i] = IF i <= Len(OtherParts) + 1 THEN front[i]
                            ELSE last[i - (Len(OtherParts) + 1)]
  <2>1. front \in Seq(Names) /\ Len(front) = Len(OtherParts) + 1
    BY <1>5 DEF front
  <2>2. ServerParts = front \o last
    BY <1>4 DEF front
  <2>3. /\ front \o last \in Seq(Names) /\ Len(front \o last) = Len(front) + Len(last)
        /\ \A i \in 1..Len(front) + Len(last) : (front \o last)[i] =
             IF i <= Len(front) THEN front[i] ELSE last[i - Len(front)]
    BY <1>3, <2>1, ConcatProperties
  <2>4. Len(front) + Len(last) = Len(OtherParts) + 3
    BY <1>2, <1>3, <2>1
  <2> QED
    BY <2>1, <2>2, <2>3, <2>4
<1>7. DOMAIN ServerParts = 1..(Len(OtherParts) + 3)
  BY <1>6
<1>8. ASSUME NEW i \in 1..(Len(OtherParts) + 3)
      PROVE  ServerParts[i] = IF i = 1 THEN "server"
                              ELSE IF i <= Len(OtherParts) + 1 THEN OtherParts[i - 1]
                              ELSE IF i = Len(OtherParts) + 2 THEN "databases" ELSE "sizes"
  <2>1. CASE i <= Len(OtherParts) + 1
    BY <1>2, <1>3, <1>5, <1>6, <2>1 DEF front
  <2>2. CASE ~(i <= Len(OtherParts) + 1)
    <3>1. i - (Len(OtherParts) + 1) \in {1, 2} /\ i # 1
      BY <1>2, <2>2
    <3> QED
      BY <1>2, <1>3, <1>6, <2>2, <3>1
  <2> QED
    BY <2>1, <2>2
<1> QED
  BY <1>6, <1>7, <1>8

\* Every part has a key of its own, and "server" is read first.
LEMMA PlanFacts ==
  /\ Len(Plan) \in Nat \ {0} /\ DOMAIN Plan = 1..Len(Plan)
  /\ \A i \in 1..Len(Plan) : Plan[i] # "connect"
  /\ \A i, j \in 1..Len(Plan) : Plan[i] = Plan[j] => i = j
  /\ \A i \in 1..Len(Plan) : Plan[i] = "server" => i = 1
  /\ target # Maintenance => \A i \in 1..Len(Plan) : Plan[i] # "databases"
<1>1. CASE target = Maintenance
  <2>1. Plan = ServerParts /\ Len(OtherParts) \in Nat
    BY <1>1, PartsAssumption DEF Plan
  <2>2. \A i \in 1..Len(OtherParts) :
          OtherParts[i] \in {"connections", "longRunning", "blocked", "replication"}
    BY PartsAssumption
  <2>3. ASSUME NEW i \in 1..Len(Plan)
        PROVE  Plan[i] # "connect" /\ (Plan[i] = "server" => i = 1)
    BY <2>1, <2>2, <2>3, ServerPlan
  <2>4. ASSUME NEW i \in 1..Len(Plan), NEW j \in 1..Len(Plan), Plan[i] = Plan[j]
        PROVE  i = j
    <3>1. DOMAIN OtherParts = 1..Len(OtherParts)
      BY PartsAssumption
    <3>2. \A m, n \in 1..Len(OtherParts) : OtherParts[m] = OtherParts[n] => m = n
      BY <3>1, PartsAssumption
    <3> DEFINE n == Len(OtherParts)
               Other == {"connections", "longRunning", "blocked", "replication"}
    <3>3. ASSUME NEW m \in 1..(n + 3)
          PROVE  \/ m = 1 /\ ServerParts[m] = "server"
                 \/ m \in 2..(n + 1) /\ m - 1 \in 1..n /\ ServerParts[m] = OtherParts[m - 1]
                    /\ ServerParts[m] \in Other
                 \/ m = n + 2 /\ ServerParts[m] = "databases"
                 \/ m = n + 3 /\ ServerParts[m] = "sizes"
      BY <2>1, <2>2, <3>3, ServerPlan
    <3>4. i \in 1..(n + 3) /\ j \in 1..(n + 3) /\ ServerParts[i] = ServerParts[j]
      BY <2>1, <2>4, ServerPlan
    <3>5. CASE i \in 2..(n + 1)
      <4>1. j \in 2..(n + 1)
        BY <2>1, <3>3, <3>4, <3>5
      <4> QED
        <5>1. i - 1 \in 1..n /\ j - 1 \in 1..n /\ i \in Int /\ j \in Int
          BY <2>1, <3>5, <4>1
        <5>2. ServerParts[i] = OtherParts[i - 1] /\ ServerParts[j] = OtherParts[j - 1]
          BY <2>1, <3>3, <3>4, <3>5, <4>1
        <5>3. i - 1 = j - 1
          BY <3>2, <3>4, <5>1, <5>2
        <5> QED
          BY <5>1, <5>3
    <3>6. CASE i \notin 2..(n + 1)
      BY <2>1, <3>3, <3>4, <3>6
    <3> QED
      BY <3>5, <3>6
  <2> QED
    BY <1>1, <2>1, <2>3, <2>4, ServerPlan
<1>2. CASE target # Maintenance
  <2>1. Plan = TableParts /\ Len(TableParts) = 2 /\ DOMAIN TableParts = 1..2
        /\ TableParts[1] = "largestTables" /\ TableParts[2] = "deadTuples"
    BY <1>2 DEF Plan, TableParts
  <2> QED
    BY <2>1
<1> QED
  BY <1>1, <1>2

(***************************************************************************)
(* The session, and the control of a round.                                *)
(***************************************************************************)
control == <<pc, round, target, step, todo, conn, backends, up, rows, srvStart, next>>

LEMMA InitCtl == Init => CtlOK
  BY PostgresAssumption DEF Init, CtlOK, PCs, ServerPhase, Maintenance

LEMMA CtlSame == ASSUME CtlOK, UNCHANGED control PROVE CtlOK'
  BY DEF CtlOK, ServerPhase, Plan, control

LEMMA ServerCtl == ASSUME CtlOK, Server PROVE CtlOK'
<1>1. CASE Stop
  <2>1. /\ UNCHANGED <<pc, round, target, step, todo, rows, srvStart, next>>
        /\ conn' = IF conn = "open" THEN "broken" ELSE conn
        /\ backends' = 0
        /\ pc \notin {"read", "close"} => conn = "none"
        /\ conn \in {"none", "open", "broken"}
    BY <1>1 DEF Stop, result, CtlOK
  <2>2. conn' \in {"none", "broken"} /\ (pc \notin {"read", "close"} => conn' = "none")
    BY <2>1
  <2> QED
    BY <2>1, <2>2 DEF CtlOK, ServerPhase, Plan
<1>2. CASE Boot
  <2>1. UNCHANGED <<pc, round, target, step, todo, conn, backends, rows, srvStart, next>>
        /\ up' = TRUE
    BY <1>2 DEF Boot, result, session
  <2> QED
    BY <2>1 DEF CtlOK, ServerPhase, Plan
<1>3. ASSUME NEW d \in DBs, Work(d) \/ Alter(d) PROVE CtlOK'
  BY <1>3, CtlSame DEF Work, Alter, result, session, control
<1>4. CASE BackendExits
  <2>1. /\ UNCHANGED <<pc, round, target, step, todo, conn, up, rows, srvStart, next>>
        /\ backends' = backends - 1 /\ backends > 0
    BY <1>4 DEF BackendExits, world, result, session
  <2>2. backends' \in Nat
    BY <2>1 DEF CtlOK
  <2> QED
    BY <2>1, <2>2 DEF CtlOK, ServerPhase, Plan
<1> QED
  BY <1>1, <1>2, <1>3, <1>4 DEF Server

LEMMA PlainCtl == ASSUME CtlOK, Cancel \/ UNCHANGED vars PROVE CtlOK'
  BY CtlSame DEF Cancel, vars, world, result, session, control

LEMMA BeginRoundCtl == ASSUME CtlOK, BeginRound PROVE CtlOK'
<1>1. /\ UNCHANGED <<target, step, todo, conn, backends, up, rows, srvStart, next>>
      /\ pc = "idle" /\ round < MaxRounds /\ pc' = "connect" /\ round' = round + 1
  BY DEF BeginRound, Between, At, Goto, world, session, result
<1>2. round' \in 0..MaxRounds /\ round' > 0
  BY <1>1, PostgresAssumption DEF CtlOK
<1> QED
  BY <1>1, <1>2 DEF CtlOK, PCs, ServerPhase, Plan

LEMMA ReturnCtl == ASSUME CtlOK, Return PROVE CtlOK'
<1>1. /\ UNCHANGED <<round, target, step, todo, conn, backends, up, rows, srvStart, next>>
      /\ pc = "idle" /\ pc' = "done" /\ round > 0
  BY DEF Return, At, Goto, world, session, result
<1> QED
  BY <1>1 DEF CtlOK, PCs, ServerPhase, Plan

\* What becomes of an attempt to connect.
LEMMA ConnectSteps ==
  ASSUME CtlOK, Connect \/ Retry
  PROVE  /\ UNCHANGED <<world, work, cancelled, backends, round, target, step, result, out, reads>>
         /\ pc \in {"connect", "retry"}
         /\ \/ Connected /\ up
            \/ /\ pc' \in {"connect", "retry"} /\ UNCHANGED <<conn, event, memory, log, cut>>
            \/ \E o \in {"noAnswer", "cannotConnectNow", "tooMany", "refused", "timedOut"} :
                 ConnectFailed(o)
<1>1. CASE Connect
  <2>1. UNCHANGED <<world, work, cancelled, backends, round, target, step, result, out, reads>>
        /\ pc = "connect"
    BY <1>1 DEF Connect, At
  <2>2. ASSUME NEW o \in Outcomes
        PROVE  /\ o = "ok" => up
               /\ o # "ok" => o \in {"noAnswer", "cannotConnectNow", "tooMany", "refused"}
    <3>1. InUse \in Nat /\ RoleLimit \in Nat
      BY PostgresAssumption DEF InUse, CtlOK
    <3>2. /\ up /\ InUse >= RoleLimit /\ InUse < RoleLimit => FALSE
          /\ ~(InUse >= RoleLimit) => InUse < RoleLimit
      BY <3>1
    <3> HIDE DEF InUse
    <3>3. CASE expired
      BY <2>2, <3>3 DEF Outcomes
    <3>4. CASE ~expired /\ ~up
      BY <2>2, <3>4 DEF Outcomes
    <3>5. CASE ~expired /\ up /\ InUse >= RoleLimit
      BY <2>2, <3>2, <3>5 DEF Outcomes
    <3>6. CASE ~expired /\ up /\ InUse < RoleLimit
      BY <2>2, <3>2, <3>6 DEF Outcomes
    <3> QED
      BY <3>2, <3>3, <3>4, <3>5, <3>6
  <2>3. CASE \E o \in Outcomes :
               \/ o = "ok" /\ Connected
               \/ /\ o = "tooMany" /\ ~LastAttempt
                  /\ Goto("retry")
                  /\ UNCHANGED <<conn, attempt, event, memory, log, cut>>
               \/ o # "ok" /\ (o # "tooMany" \/ LastAttempt) /\ ConnectFailed(o)
    <3>1. PICK o \in Outcomes :
               \/ o = "ok" /\ Connected
               \/ Goto("retry") /\ UNCHANGED <<conn, event, memory, log, cut>>
               \/ o # "ok" /\ ConnectFailed(o)
      BY <2>3
    <3> QED
      BY <2>1, <2>2, <3>1 DEF Goto
  <2>4. CASE ConnectFailed("timedOut")
    BY <2>1, <2>4
  <2> QED
    BY <1>1, <2>3, <2>4 DEF Connect
<1>2. CASE Retry
  BY <1>2 DEF Retry, At, Goto
<1> QED
  BY <1>1, <1>2

LEMMA ConnectCtl == ASSUME CtlOK, Connect \/ Retry PROVE CtlOK'
<1>0. /\ UNCHANGED <<up, backends, round, target, step, todo, rows, srvStart, next>>
      /\ pc \in {"connect", "retry"} /\ conn = "none" /\ step = 1
  BY ConnectSteps DEF CtlOK, world, result
<1>1. CASE Connected /\ up
  <2>1. pc' = "read" /\ conn' = "open"
    BY <1>1 DEF Connected, Goto
  <2>2. step' \in 1..Len(Plan)'
    BY <1>0, PlanFacts DEF Plan
  <2>3. target = Maintenance => rows = None /\ next = Nothing
    BY <1>0 DEF CtlOK, ServerPhase
  <2> QED
    BY <1>0, <1>1, <2>1, <2>2, <2>3 DEF CtlOK, PCs, ServerPhase
<1>2. CASE pc' \in {"connect", "retry"} /\ UNCHANGED <<conn, event, memory, log, cut>>
  BY <1>0, <1>2 DEF CtlOK, PCs, ServerPhase, Plan
<1>3. CASE \E o \in {"noAnswer", "cannotConnectNow", "tooMany", "refused", "timedOut"} :
             ConnectFailed(o)
  <2>1. conn' = conn /\ pc' = IF target = Maintenance THEN "end" ELSE "db"
    BY <1>3 DEF ConnectFailed, Goto
  <2> QED
    BY <1>0, <2>1 DEF CtlOK, PCs, ServerPhase, Plan
<1> QED
  BY <1>1, <1>2, <1>3, ConnectSteps

LEMMA ReadPartCtl == ASSUME CtlOK, ReadPart PROVE CtlOK'
<1>0. /\ UNCHANGED <<up, backends, round, target, conn, next>> /\ pc = "read"
      /\ step \in 1..Len(Plan) /\ Len(Plan) \in Nat
      /\ IF step < Len(Plan) THEN step' = step + 1 /\ pc' = "read"
                             ELSE step' = step /\ pc' = "close"
  BY PlanFacts DEF ReadPart, At, Goto, world, PartRead, PartFails, result, CtlOK
<1>1. /\ pc' \in {"read", "close"} /\ step' \in Nat \ {0}
      /\ pc' = "read" => step' \in 1..Len(Plan) /\ step' # 1
  BY <1>0
<1>2. UNCHANGED <<rows, todo>> \/ (target = Maintenance /\ todo' = Listed)
  <2>1. Part = "databases" => target = Maintenance
    BY <1>0, PlanFacts DEF Part
  <2> QED
    BY <2>1 DEF ReadPart, PartRead, PartFails, result
<1>3. /\ todo' \in SUBSET DBs /\ target' \notin todo'
      /\ target # Maintenance => rows' # None
  <2>1. Maintenance \notin DBs /\ Listed \in SUBSET DBs
    BY DEF Maintenance, DBs, Listed
  <2> QED
    BY <1>0, <1>2, <2>1 DEF CtlOK
<1> QED
  BY <1>0, <1>1, <1>3 DEF CtlOK, PCs, ServerPhase, Plan

LEMMA CloseCtl == ASSUME CtlOK, Close PROVE CtlOK'
<1>1. /\ UNCHANGED <<up, round, target, step, todo, rows, srvStart, next>>
      /\ pc = "close" /\ conn' = "none" /\ pc' = IF rows = None THEN "end" ELSE "db"
  BY DEF Close, Closed, At, Goto, world, result
<1>2. backends' \in Nat
  BY DEF Close, CtlOK
<1> QED
  BY <1>1, <1>2 DEF CtlOK, PCs, ServerPhase, Plan

Chosen == CHOOSE x \in todo : \A y \in todo : x <= y

LEMMA DatabaseSteps ==
  ASSUME CtlOK, Database
  PROVE  /\ Chosen \in todo /\ Chosen \in DBs /\ Chosen # Maintenance
         /\ pc = "db" /\ rows # None /\ conn = "none"
         /\ todo' = todo \ {Chosen} /\ next' = NextSamples(Chosen)
         /\ event' = [event EXCEPT !.dbs = [x \in DOMAIN @ \cup {Chosen} |->
                                              IF x = Chosen THEN Entry(Chosen) ELSE @[x]]]
         /\ target' = Chosen /\ step' = 1
         /\ pc' = IF rows[Chosen].allow THEN "connect" ELSE "db"
         /\ UNCHANGED <<world, backends, bounds, cancelled, round, expired, conn, srvStart, rows,
                        memory, out, cut, reads, log>>
<1>1. Chosen \in todo /\ Chosen \in DBs
  BY FirstDatabase DEF Chosen, CtlOK, Database
<1>2. Chosen # Maintenance
  BY <1>1 DEF DBs, Maintenance
<1> QED
  BY <1>1, <1>2 DEF Database, Chosen, At, Goto, CtlOK

LEMMA DatabaseCtl == ASSUME CtlOK, Database PROVE CtlOK'
<1>1. UNCHANGED up /\ pc' \in {"connect", "db"} /\ Chosen \in 0..NumDBs
  BY DatabaseSteps DEF world, DBs
<1> QED
  BY <1>1, DatabaseSteps DEF CtlOK, PCs, ServerPhase, Plan

LEMMA EndCtl == ASSUME CtlOK, DatabasesDone \/ EndRound \/ Publish PROVE CtlOK'
<1>1. CASE DatabasesDone
  BY <1>1 DEF DatabasesDone, At, Goto, world, session, result, CtlOK, PCs, ServerPhase, Plan
<1>2. CASE EndRound
  <2>1. /\ UNCHANGED <<up, backends, round, conn>> /\ pc = "end" /\ pc' \in {"idle", "publish"}
        /\ srvStart' = None /\ rows' = None /\ next' = Nothing /\ todo' = {}
        /\ target' = Maintenance /\ step' = 1
    BY <1>2 DEF EndRound, At, Goto, world
  <2>2. Maintenance \in 0..NumDBs
    BY PostgresAssumption DEF Maintenance
  <2>3. pc' = "publish" => round > 1
    BY <1>2, <2>1 DEF EndRound, Goto, CtlOK
  <2> QED
    BY <2>1, <2>2, <2>3 DEF CtlOK, PCs, ServerPhase
<1>3. CASE Publish
  BY <1>3 DEF Publish, At, Goto, world, session, result, CtlOK, PCs, ServerPhase, Plan
<1> QED
  BY <1>1, <1>2, <1>3

LEMMA NextCtl == CtlOK /\ [Next]_vars => CtlOK'
  BY ServerCtl, PlainCtl, BeginRoundCtl, ReturnCtl, ConnectCtl, ReadPartCtl, CloseCtl,
     DatabaseCtl, EndCtl DEF Next, Collect, Stopped

LEMMA SpecCtl == Spec => []CtlOK
  BY InitCtl, NextCtl, PTL DEF Spec

\* The engine holds a session only while it reads over it and until it has closed it:
\* engine.Collect and readTables open none while they hold one, and leave none behind.
THEOREM OneSessionAlways == Spec => []OneSession
<1>1. CtlOK => OneSession
  BY DEF CtlOK, OneSession
<1> QED
  BY <1>1, SpecCtl, PTL

(***************************************************************************)
(* The log.                                                                *)
(***************************************************************************)
LEMMA InitLog == Init => LogOK
  BY DEF Init, LogOK, LoggedOK, UntriedOK

\* round.ok, for a key that was not tried before in this round.
LEMMA TriedKey ==
  ASSUME Balance, LoggedOK, NEW key, key \notin seen, Readable(key) \/ Failed(key)
  PROVE  Balance' /\ LoggedOK' /\ seen' = seen \cup {key}
<1>1. CASE Readable(key)
  <2>1. Balance'
    BY <1>1 DEF Balance, Readable, LoggedOK
  <2>2. LoggedOK'
    BY <1>1 DEF Balance, Readable, LoggedOK
  <2> QED
    BY <1>1, <2>1, <2>2 DEF Readable
<1>2. CASE Failed(key)
  <2>1. Balance'
    BY <1>2 DEF Balance, Failed, LoggedOK
  <2>2. LoggedOK'
    BY <1>2 DEF Balance, Failed, LoggedOK
  <2> QED
    BY <1>2, <2>1, <2>2 DEF Failed
<1> QED
  BY <1>1, <1>2

LEMMA LogSame ==
  ASSUME LogOK, UNCHANGED <<pc, target, step, todo, failing, seen, log>>
  PROVE  LogOK'
  BY DEF LogOK, Balance, LoggedOK, UntriedOK, Plan, Key, log

LEMMA BalanceSame ==
  ASSUME UNCHANGED <<failing, seen, log>>
  PROVE  (LoggedOK => LoggedOK') /\ (Balance => Balance')
  BY DEF Balance, LoggedOK, log

LEMMA ConnectLog == ASSUME CtlOK, LogOK, Connect \/ Retry PROVE LogOK'
<1>0. /\ UNCHANGED <<target, step, todo>> /\ pc \in {"connect", "retry"} /\ step = 1
      /\ Balance /\ LoggedOK /\ target \notin todo
      /\ \A k \in seen : k[1] # target /\ k[1] \notin todo
      /\ target = Maintenance => \A k \in seen : k[1] = Maintenance
  BY ConnectSteps DEF result, LogOK, UntriedOK, CtlOK
<1>1. Key("connect") \notin seen /\ Key("connect")[1] = target
  BY <1>0 DEF Key
<1>2. CASE Connected
  <2>1. Balance' /\ LoggedOK' /\ seen' = seen \cup {Key("connect")} /\ pc' = "read"
    BY <1>0, <1>1, <1>2, TriedKey DEF Connected, Goto
  <2>2. ASSUME NEW i \in 1..Len(Plan) PROVE Key(Plan[i]) \notin seen'
    <3>1. Plan[i] # "connect"
      BY PlanFacts
    <3>2. Key(Plan[i]) # Key("connect") /\ Key(Plan[i])[1] = target
      BY <3>1 DEF Key
    <3> QED
      BY <1>0, <2>1, <3>2
  <2>3. UntriedOK'
    BY <1>0, <1>1, <2>1, <2>2 DEF UntriedOK, Plan, Key
  <2> QED
    BY <2>1, <2>3 DEF LogOK
<1>3. CASE pc' \in {"connect", "retry"} /\ UNCHANGED <<conn, event, memory, log, cut>>
  <2>1. UNCHANGED <<failing, seen, log>>
    BY <1>3 DEF memory
  <2>2. Balance' /\ LoggedOK'
    BY <1>0, <2>1, BalanceSame
  <2> QED
    BY <1>0, <1>3, <2>1, <2>2 DEF LogOK, UntriedOK, Plan, Key
<1>4. CASE \E o \in {"noAnswer", "cannotConnectNow", "tooMany", "refused", "timedOut"} :
             ConnectFailed(o)
  <2>1. Balance' /\ LoggedOK' /\ seen' = seen \cup {Key("connect")}
        /\ pc' = IF target = Maintenance THEN "end" ELSE "db"
    BY <1>0, <1>1, <1>4, TriedKey DEF ConnectFailed, Goto
  <2> QED
    BY <1>0, <1>1, <2>1 DEF LogOK, UntriedOK
<1> QED
  BY <1>2, <1>3, <1>4, ConnectSteps

LEMMA ReadPartLog == ASSUME CtlOK, LogOK, ReadPart PROVE LogOK'
<1>0. /\ UNCHANGED target /\ pc = "read"
      /\ step \in 1..Len(Plan) /\ Len(Plan) \in Nat
      /\ IF step < Len(Plan) THEN step' = step + 1 /\ pc' = "read"
                             ELSE step' = step /\ pc' = "close"
  BY PlanFacts DEF ReadPart, At, Goto, CtlOK
<1>1. /\ Balance /\ LoggedOK /\ target \notin todo
      /\ \A i \in step..Len(Plan) : Key(Plan[i]) \notin seen
      /\ \A k \in seen : k[1] \notin todo
      /\ target = Maintenance => \A k \in seen : k[1] = Maintenance
  BY <1>0 DEF LogOK, UntriedOK, CtlOK
<1>2. Key(Part) \notin seen /\ Key(Part)[1] = target
  BY <1>0, <1>1 DEF Part, Key
<1>3. Balance' /\ LoggedOK' /\ seen' = seen \cup {Key(Part)}
  BY <1>1, <1>2, TriedKey DEF ReadPart, PartRead, PartFails
<1>4. ASSUME NEW i \in (step + 1)..Len(Plan) PROVE Key(Plan[i]) \notin seen'
  <2>1. i \in 1..Len(Plan) /\ i # step /\ i \in step..Len(Plan)
    BY <1>0, <1>4
  <2>2. Plan[i] # Plan[step]
    BY <1>0, <2>1, PlanFacts
  <2> QED
    BY <1>1, <1>3, <2>1, <2>2 DEF Key, Part
<1>5. /\ \A k \in seen' : k[1] \notin todo'
      /\ target = Maintenance => \A k \in seen' : k[1] = Maintenance
  <2>1. UNCHANGED todo \/ (target = Maintenance /\ todo' \subseteq DBs)
    <3>1. Part = "databases" => target = Maintenance
      BY <1>0, PlanFacts DEF Part
    <3> QED
      BY <3>1 DEF ReadPart, PartRead, PartFails, result, Listed
  <2>2. Maintenance \notin DBs
    BY DEF Maintenance, DBs
  <2> QED
    BY <1>1, <1>2, <1>3, <2>1, <2>2
<1>6. UntriedOK'
  BY <1>0, <1>4, <1>5 DEF UntriedOK, Plan, Key
<1> QED
  BY <1>0, <1>3, <1>6 DEF LogOK

LEMMA RestLog ==
  ASSUME CtlOK, LogOK, Return \/ Close \/ Database \/ DatabasesDone \/ Publish
  PROVE  LogOK'
<1>1. CASE Return
  <2>1. UNCHANGED <<failing, seen, log>> /\ pc = "idle" /\ pc' = "done"
    BY <1>1 DEF Return, memory, At, Goto
  <2> QED
    BY <2>1, BalanceSame DEF LogOK, UntriedOK, log
<1>2. CASE Close
  <2>1. UNCHANGED <<target, todo, failing, seen, log>> /\ pc = "close" /\ pc' \in {"end", "db"}
    BY <1>2 DEF Close, memory, result, At, Goto
  <2> QED
    BY <2>1, BalanceSame DEF LogOK, UntriedOK
<1>3. CASE Database
  <2>1. /\ UNCHANGED <<failing, seen, log>> /\ pc = "db" /\ pc' \in {"connect", "db"}
        /\ Chosen \in todo /\ todo' = todo \ {Chosen} /\ target' = Chosen
        /\ Chosen # Maintenance
    BY <1>3, DatabaseSteps DEF memory
  <2>2. \A k \in seen : k[1] # Chosen /\ k[1] \notin todo'
    BY <2>1 DEF LogOK, UntriedOK
  <2>3. UntriedOK'
    BY <2>1, <2>2 DEF UntriedOK
  <2> QED
    BY <2>1, <2>3, BalanceSame DEF LogOK
<1>4. CASE DatabasesDone
  <2>1. UNCHANGED <<failing, seen, log>> /\ pc = "db" /\ pc' = "end"
    BY <1>4 DEF DatabasesDone, At, Goto
  <2> QED
    BY <2>1, BalanceSame DEF LogOK, UntriedOK
<1>5. CASE Publish
  <2>1. UNCHANGED <<failing, seen, log>> /\ pc = "publish" /\ pc' = "idle"
    BY <1>5 DEF Publish, memory, At, Goto
  <2> QED
    BY <2>1, BalanceSame DEF LogOK, UntriedOK, log
<1> QED
  BY <1>1, <1>2, <1>3, <1>4, <1>5

\* prune forgets the keys that were not tried, and so only what failed now is left.
LEMMA EndRoundLog == ASSUME LogOK, EndRound PROVE LogOK'
<1>1. /\ UNCHANGED <<seen, log>> /\ pc = "end" /\ pc' \in {"idle", "publish"}
      /\ failing' = failing \cap seen
  BY DEF EndRound, Prune, At, Goto
<1>2. Balance /\ LoggedOK
  BY <1>1 DEF LogOK
<1>3. failing' = failedNow /\ failedNow' = failedNow
  BY <1>1, <1>2 DEF Balance, LoggedOK, log
<1>4. LoggedOK'
  BY <1>1, <1>2 DEF LoggedOK, log
<1> QED
  BY <1>1, <1>3, <1>4 DEF LogOK, UntriedOK

LEMMA BeginRoundLog == ASSUME LogOK, BeginRound PROVE LogOK'
<1>1. /\ pc = "idle" /\ pc' = "connect" /\ seen' = {} /\ failing' = failing
      /\ warned' = {} /\ cleared' = {} /\ failedNow' = {} /\ failedBefore' = failedNow
  BY DEF BeginRound, Between, At, Goto
<1>2. failing = failedNow
  BY <1>1 DEF LogOK
<1>3. Balance' /\ LoggedOK'
  BY <1>1, <1>2 DEF Balance, LoggedOK
<1>4. UntriedOK'
  BY <1>1 DEF UntriedOK
<1> QED
  BY <1>1, <1>3, <1>4 DEF LogOK

LEMMA NextLog == CtlOK /\ LogOK /\ [Next]_vars => LogOK'
<1> SUFFICES ASSUME CtlOK, LogOK, [Next]_vars PROVE LogOK'
  OBVIOUS
<1>1. CASE Server \/ Cancel \/ UNCHANGED vars
  <2>1. UNCHANGED <<pc, target, step, todo, failing, seen, log>>
    BY <1>1 DEF Server, Stop, Boot, BackendExits, Work, Alter, Cancel, vars, session, result,
                memory
  <2> QED
    BY <2>1, LogSame
<1> QED
  BY <1>1, BeginRoundLog, ConnectLog, ReadPartLog, RestLog, EndRoundLog
  DEF Next, Collect, Stopped

LEMMA SpecLog == Spec => [](CtlOK /\ LogOK)
  BY InitCtl, InitLog, NextCtl, NextLog, PTL DEF Spec

\* A part's failure is logged when it starts and when it clears, and at no other time:
\* ok updates failing for what was tried, and prune drops what was not.
THEOREM LoggedOnChangeAlways == Spec => []LoggedOnChange
<1>1. LogOK => LoggedOnChange
  BY DEF LogOK, LoggedOK, LoggedOnChange
<1> QED
  BY <1>1, SpecLog, PTL

(***************************************************************************)
(* The parts of the event.                                                 *)
(***************************************************************************)
LEMMA NothingIsEmpty == DOMAIN Nothing = {} /\ Nothing = [d \in DOMAIN Nothing |-> Nothing[d]]
  BY DEF Nothing

LEMMA NoEventFields ==
  ASSUME event = NoEvent
  PROVE  ShapeOK /\ event.connected = FALSE /\ event.have = {} /\ event.errs = {}
         /\ event.dbs = Nothing
<1>1. event.connected = FALSE
  BY DEF NoEvent
<1>2. event.have = {} /\ event.errs = {} /\ event.dbs = Nothing
  BY DEF NoEvent
<1>3. event = [up |-> event.up, connected |-> event.connected, have |-> event.have,
               errs |-> event.errs, dbs |-> event.dbs]
  BY DEF NoEvent
<1>4. ShapeOK
  BY <1>2, <1>3, NothingIsEmpty DEF ShapeOK
<1> QED
  BY <1>1, <1>2, <1>4

\* What a change of one field leaves alone.
LEMMA SetUp ==
  ASSUME ShapeOK, NEW u, event' = [event EXCEPT !.up = u]
  PROVE  ShapeOK' /\ event'.connected = event.connected /\ event'.have = event.have
         /\ event'.errs = event.errs /\ event'.dbs = event.dbs
<1>1. event' = [up |-> u, connected |-> event.connected, have |-> event.have,
                errs |-> event.errs, dbs |-> event.dbs]
  BY DEF ShapeOK
<1> QED
  BY <1>1 DEF ShapeOK

LEMMA SetConnected ==
  ASSUME ShapeOK, event' = [event EXCEPT !.up = TRUE, !.connected = TRUE]
  PROVE  ShapeOK' /\ event'.connected = TRUE /\ event'.have = event.have
         /\ event'.errs = event.errs /\ event'.dbs = event.dbs
<1>1. event' = [up |-> TRUE, connected |-> TRUE, have |-> event.have,
                errs |-> event.errs, dbs |-> event.dbs]
  BY DEF ShapeOK
<1> QED
  BY <1>1 DEF ShapeOK

LEMMA SetServer ==
  ASSUME ShapeOK, NEW h, NEW e,
         \/ event' = [event EXCEPT !.have = h] /\ e = event.errs
         \/ event' = [event EXCEPT !.errs = e] /\ h = event.have
  PROVE  ShapeOK' /\ event'.connected = event.connected /\ event'.have = h
         /\ event'.errs = e /\ event'.dbs = event.dbs
<1>1. event' = [up |-> event.up, connected |-> event.connected, have |-> h,
                errs |-> e, dbs |-> event.dbs]
  BY DEF ShapeOK
<1> QED
  BY <1>1 DEF ShapeOK

LEMMA SetDatabases ==
  ASSUME ShapeOK, NEW t, event' = [event EXCEPT !.dbs = t],
         t = [d \in DOMAIN t |-> t[d]], DOMAIN t \subseteq DBs,
         \A d \in DOMAIN t :
           t[d] = [activity |-> t[d].activity, have |-> t[d].have, errs |-> t[d].errs]
  PROVE  ShapeOK' /\ event'.connected = event.connected /\ event'.have = event.have
         /\ event'.errs = event.errs /\ event'.dbs = t
<1>1. event' = [up |-> event.up, connected |-> event.connected, have |-> event.have,
                errs |-> event.errs, dbs |-> t]
  BY DEF ShapeOK
<1>2. event'.dbs = t
  BY <1>1
<1> QED
  BY <1>1, <1>2 DEF ShapeOK

LEMMA SetTables ==
  ASSUME ShapeOK, NEW d \in DOMAIN event.dbs, NEW h, NEW e,
         \/ event' = [event EXCEPT !.dbs[d].have = h] /\ e = event.dbs[d].errs
         \/ event' = [event EXCEPT !.dbs[d].errs = e] /\ h = event.dbs[d].have
  PROVE  /\ ShapeOK' /\ event'.connected = event.connected /\ event'.have = event.have
         /\ event'.errs = event.errs
         /\ event'.dbs = [event.dbs EXCEPT ![d] =
              [activity |-> event.dbs[d].activity, have |-> h, errs |-> e]]
<1> DEFINE new == [activity |-> event.dbs[d].activity, have |-> h, errs |-> e]
           t == [event.dbs EXCEPT ![d] = new]
<1>1. event.dbs[d] = [activity |-> event.dbs[d].activity, have |-> event.dbs[d].have,
                      errs |-> event.dbs[d].errs]
  BY DEF ShapeOK
<1>2. \/ e = event.dbs[d].errs /\ event' = [event EXCEPT !.dbs = [event.dbs EXCEPT ![d] =
             [event.dbs[d] EXCEPT !.have = h]]]
      \/ h = event.dbs[d].have /\ event' = [event EXCEPT !.dbs = [event.dbs EXCEPT ![d] =
             [event.dbs[d] EXCEPT !.errs = e]]]
  OBVIOUS
<1>3. /\ e = event.dbs[d].errs => [event.dbs[d] EXCEPT !.have = h] = new
      /\ h = event.dbs[d].have => [event.dbs[d] EXCEPT !.errs = e] = new
  BY <1>1
<1>4. event' = [event EXCEPT !.dbs = t]
  BY <1>2, <1>3
<1>5. /\ t = [x \in DOMAIN t |-> t[x]] /\ DOMAIN t = DOMAIN event.dbs
      /\ \A x \in DOMAIN t : t[x] = IF x = d THEN new ELSE event.dbs[x]
  BY DEF ShapeOK
<1>6. new = [activity |-> new.activity, have |-> new.have, errs |-> new.errs]
  OBVIOUS
<1> HIDE DEF new, t
<1>7. \A x \in DOMAIN t : t[x] = [activity |-> t[x].activity, have |-> t[x].have, errs |-> t[x].errs]
  BY <1>5, <1>6 DEF ShapeOK
<1>8. DOMAIN t \subseteq DBs
  BY <1>5 DEF ShapeOK
<1>9. ShapeOK' /\ event'.connected = event.connected /\ event'.have = event.have
      /\ event'.errs = event.errs /\ event'.dbs = t
  BY <1>4, <1>5, <1>7, <1>8, SetDatabases
<1> QED
  BY <1>9 DEF t, new

\* One more part is there, or is named as failed.
LEMMA NextPart ==
  ASSUME NEW h, NEW e, step \in 1..Len(Plan), Accounted(h, e, PartsBefore(Plan, step))
  PROVE  /\ Accounted(h \cup {Plan[step]}, e, PartsBefore(Plan, step + 1))
         /\ Accounted(h, e \cup {Plan[step]}, PartsBefore(Plan, step + 1))
         /\ step = Len(Plan) => PartsBefore(Plan, step + 1) = AllParts(Plan)
<1>0. Len(Plan) \in Nat /\ DOMAIN Plan = 1..Len(Plan)
      /\ \A i, j \in 1..Len(Plan) : Plan[i] = Plan[j] => i = j
  BY PlanFacts
<1> DEFINE P(n) == {Plan[i] : i \in 1..(n - 1)}
<1>1. P(step + 1) = P(step) \cup {Plan[step]}
  <2>1. 1..(step + 1 - 1) = (1..(step - 1)) \cup {step}
    BY <1>0
  <2> QED
    BY <2>1
<1>2. Plan[step] \notin P(step)
  <2>1. ASSUME NEW i \in 1..(step - 1) PROVE Plan[i] # Plan[step]
    <3>1. i \in 1..Len(Plan) /\ i # step
      BY <1>0
    <3> QED
      BY <1>0, <3>1
  <2> QED
    BY <2>1
<1>3. step = Len(Plan) => P(step + 1) = AllParts(Plan)
  <2>1. step = Len(Plan) => 1..(step + 1 - 1) = 1..Len(Plan)
    BY <1>0
  <2> QED
    BY <1>0, <2>1 DEF AllParts
<1>4. h \cup e = P(step) /\ h \cap e = {}
  BY DEF Accounted, PartsBefore
<1>5. PartsBefore(Plan, step + 1) = P(step + 1)
  BY DEF PartsBefore
<1> HIDE DEF P
<1>6. /\ (h \cup {Plan[step]}) \cup e = P(step + 1) /\ (h \cup {Plan[step]}) \cap e = {}
      /\ h \cup (e \cup {Plan[step]}) = P(step + 1) /\ h \cap (e \cup {Plan[step]}) = {}
  BY <1>1, <1>2, <1>4
<1> QED
  BY <1>3, <1>5, <1>6 DEF Accounted

LEMMA NoPartsYet == ASSUME NEW plan PROVE Accounted({}, {}, PartsBefore(plan, 1))
<1>1. PartsBefore(plan, 1) = {}
  BY DEF PartsBefore
<1> QED
  BY <1>1 DEF Accounted

LEMMA InitEvent == Init => EventOK
<1> SUFFICES ASSUME Init PROVE EventOK
  OBVIOUS
<1>1. pc = "idle" /\ target = Maintenance /\ event = NoEvent
  BY DEF Init
<1>2. cut = FALSE /\ out = FALSE
  BY DEF Init
<1>3. ReachOK /\ ServerOK /\ ShapeOK
  BY <1>1, NoEventFields DEF ReachOK, ServerOK, ServerPhase, InRound
<1>4. \A d \in DOMAIN event.dbs : TablesOK(d)
  BY <1>1, NoEventFields, NothingIsEmpty
<1> QED
  BY <1>2, <1>3, <1>4 DEF EventOK, OutOK

\* What a step that leaves the event alone preserves.
LEMMA EventSame ==
  ASSUME EventOK, UNCHANGED <<event, target, step>>,
         \/ pc' = pc
         \/ pc = "close" /\ pc' \in {"end", "db"}
         \/ pc = "db" /\ pc' = "end"
         \/ pc = "publish" /\ pc' = "idle" /\ target = Maintenance
         \/ pc = "idle" /\ pc' = "done" /\ target = Maintenance
         \/ pc \in {"connect", "retry"} /\ pc' \in {"connect", "retry"}
  PROVE  ShapeOK' /\ ReachOK' /\ ServerOK' /\ \A d \in DOMAIN event'.dbs : TablesOK(d)'
<1>1. ShapeOK'
  BY DEF EventOK, ShapeOK
<1>2. ReachOK'
  BY DEF EventOK, ReachOK, ServerPhase, InRound
<1>3. ServerOK'
  BY DEF EventOK, ServerOK
<1>4. ASSUME NEW d \in DOMAIN event.dbs PROVE TablesOK(d)'
  <2>1. TablesOK(d) /\ d \in DBs /\ d # Maintenance
    BY DEF EventOK, ShapeOK, DBs, Maintenance
  <2> QED
    BY <2>1 DEF TablesOK
<1> QED
  BY <1>1, <1>2, <1>3, <1>4

LEMMA ServerEvent == ASSUME CtlOK, EventOK, Server \/ UNCHANGED vars PROVE EventOK'
<1>1. UNCHANGED <<event, target, step, pc, cut, out, cancelled, round>>
  BY DEF Server, Stop, Boot, BackendExits, Work, Alter, vars, session
<1>2. OutOK'
  BY <1>1 DEF EventOK, OutOK
<1> QED
  BY <1>1, <1>2, EventSame DEF EventOK

LEMMA CancelEvent == ASSUME CtlOK, EventOK, Cancel PROVE EventOK'
<1>1. UNCHANGED <<event, target, step, pc, cut, out, round>> /\ pc # "idle"
  BY DEF Cancel, session
<1>2. cancelled' = TRUE
  BY DEF Cancel
<1>3. OutOK'
  BY <1>1, <1>2 DEF EventOK, OutOK
<1> QED
  BY <1>1, <1>3, EventSame DEF EventOK

LEMMA BeginRoundEvent == ASSUME CtlOK, EventOK, BeginRound PROVE EventOK'
<1>1. /\ pc = "idle" /\ pc' = "connect" /\ event' = NoEvent
      /\ UNCHANGED <<target, step>>
  BY DEF BeginRound, Between, At, Goto, session
<1>2. cut' = FALSE /\ out' = FALSE
  BY DEF BeginRound
<1>3. target = Maintenance
  BY <1>1 DEF CtlOK
<1>4. ShapeOK' /\ event'.connected = FALSE /\ event'.have = {} /\ event'.errs = {}
      /\ event'.dbs = Nothing
  <2>1. event'.connected = FALSE
    BY <1>1 DEF NoEvent
  <2>2. event'.have = {} /\ event'.errs = {} /\ event'.dbs = Nothing
    BY <1>1 DEF NoEvent
  <2>3. event' = [up |-> event'.up, connected |-> event'.connected, have |-> event'.have,
                  errs |-> event'.errs, dbs |-> event'.dbs]
    BY <1>1 DEF NoEvent
  <2>4. ShapeOK'
    BY <2>2, <2>3, NothingIsEmpty DEF ShapeOK
  <2> QED
    BY <2>1, <2>2, <2>4
<1>5. ReachOK' /\ ServerOK'
  BY <1>1, <1>3, <1>4 DEF ReachOK, ServerOK, ServerPhase, InRound
<1>6. \A d \in DOMAIN event'.dbs : TablesOK(d)'
  BY <1>4, NothingIsEmpty
<1> QED
  BY <1>2, <1>4, <1>5, <1>6 DEF EventOK, OutOK

LEMMA LeaveEvent ==
  ASSUME CtlOK, EventOK, Return \/ Close \/ DatabasesDone
  PROVE  EventOK'
<1>1. /\ UNCHANGED <<event, target, step, cut, out, cancelled, round>>
      /\ \/ pc = "close" /\ pc' \in {"end", "db"}
         \/ pc = "db" /\ pc' = "end"
         \/ pc = "idle" /\ pc' = "done" /\ cancelled
  BY DEF Return, Close, DatabasesDone, At, Goto, session
<1>2. OutOK'
  BY <1>1 DEF EventOK, OutOK
<1>3. pc = "idle" => target = Maintenance
  BY DEF CtlOK
<1> QED
  BY <1>1, <1>2, <1>3, EventSame DEF EventOK

LEMMA PublishEvent == ASSUME CtlOK, EventOK, Publish PROVE EventOK'
<1>1. /\ UNCHANGED <<event, target, step, cut, cancelled, round>>
      /\ pc = "publish" /\ pc' = "idle"
  BY DEF Publish, At, Goto, session
<1>2. out' = ~cancelled
  BY DEF Publish
<1>3. OutOK'
  BY <1>1, <1>2 DEF EventOK, OutOK, CtlOK
<1>4. target = Maintenance
  BY <1>1 DEF CtlOK
<1> QED
  BY <1>1, <1>3, <1>4, EventSame DEF EventOK

LEMMA EndRoundEvent == ASSUME CtlOK, EventOK, EndRound PROVE EventOK'
<1>1. /\ UNCHANGED <<event, cut, out, cancelled, round>> /\ target' = Maintenance
      /\ pc = "end" /\ pc' \in {"idle", "publish"}
  BY DEF EndRound, At, Goto
<1>2. OutOK'
  BY <1>1 DEF EventOK, OutOK
<1>3. ShapeOK' /\ ReachOK' /\ ServerOK'
  BY <1>1 DEF EventOK, ShapeOK, ReachOK, ServerOK, ServerPhase, InRound
<1>4. ASSUME NEW d \in DOMAIN event.dbs PROVE TablesOK(d)'
  <2>1. TablesOK(d) /\ d \in DBs /\ d # Maintenance
    BY DEF EventOK, ShapeOK, DBs, Maintenance
  <2> QED
    BY <1>1, <2>1 DEF TablesOK
<1> QED
  BY <1>1, <1>2, <1>3, <1>4 DEF EventOK

LEMMA ConnectEvent == ASSUME CtlOK, EventOK, Connect \/ Retry PROVE EventOK'
<1>0. /\ UNCHANGED <<cancelled, round, target, step, out>> /\ pc \in {"connect", "retry"}
      /\ step = 1
  BY ConnectSteps DEF CtlOK
<1>1. ASSUME cut' => cancelled PROVE OutOK'
  BY <1>0, <1>1 DEF EventOK, OutOK
<1>2. CASE Connected
  <2>1. pc' = "read" /\ cut' = cut
    BY <1>2 DEF Connected, Goto, Readable
  <2>2. OutOK'
    BY <1>1, <2>1 DEF EventOK, OutOK
  <2>3. CASE target = Maintenance
    <3>1. ShapeOK' /\ event'.connected = TRUE /\ event'.have = event.have
          /\ event'.errs = event.errs /\ event'.dbs = event.dbs
      BY <1>2, <2>3, SetConnected DEF Connected, EventOK
    <3>2. event.have = {} /\ event.errs = {} /\ event.dbs = Nothing
      BY <1>0, <2>3 DEF EventOK, ReachOK, ServerPhase
    <3>3. ReachOK'
      BY <1>0, <2>1, <2>3, <3>1, <3>2 DEF ReachOK, ServerPhase, InRound
    <3>4. ServerOK'
      BY <1>0, <2>1, <2>3, <3>1, <3>2, NoPartsYet DEF ServerOK
    <3>5. \A d \in DOMAIN event'.dbs : TablesOK(d)'
      BY <3>1, <3>2, NothingIsEmpty
    <3> QED
      BY <2>2, <3>1, <3>3, <3>4, <3>5 DEF EventOK
  <2>4. CASE target # Maintenance
    <3>1. event' = event
      BY <1>2, <2>4 DEF Connected
    <3>2. ShapeOK'
      BY <3>1 DEF EventOK, ShapeOK
    <3>3. ReachOK' /\ ServerOK'
      BY <1>0, <2>1, <2>4, <3>1 DEF EventOK, ReachOK, ServerOK, ServerPhase, InRound
    <3>4. ASSUME NEW d \in DOMAIN event.dbs PROVE TablesOK(d)'
      <4>1. TablesOK(d)
        BY DEF EventOK
      <4>2. CASE d = target
        <5>1. event.dbs[d].have = {} /\ event.dbs[d].errs = {}
          BY <1>0, <4>1, <4>2 DEF TablesOK
        <5> QED
          BY <1>0, <2>1, <3>1, <4>2, <5>1, NoPartsYet DEF TablesOK
      <4>3. CASE d # target
        BY <1>0, <2>1, <3>1, <4>1, <4>3 DEF TablesOK
      <4> QED
        BY <4>2, <4>3
    <3> QED
      BY <2>2, <3>1, <3>2, <3>3, <3>4 DEF EventOK
  <2> QED
    BY <2>3, <2>4
<1>3. CASE pc' \in {"connect", "retry"} /\ UNCHANGED <<conn, event, memory, log, cut>>
  <2>1. OutOK'
    BY <1>1, <1>3 DEF EventOK, OutOK
  <2> QED
    BY <1>0, <1>3, <2>1, EventSame DEF EventOK
<1>4. ASSUME NEW o, ConnectFailed(o) PROVE EventOK'
  <2>1. cut' => cancelled
    BY <1>4 DEF ConnectFailed, Failed, EventOK, OutOK
  <2>2. OutOK'
    BY <1>1, <2>1
  <2>3. CASE target = Maintenance
    <3>0. pc' = "end"
      BY <1>4, <2>3 DEF ConnectFailed, Goto
    <3>1. ShapeOK' /\ event'.connected = event.connected /\ event'.have = event.have
          /\ event'.errs = event.errs /\ event'.dbs = event.dbs
      BY <1>4, <2>3, SetUp DEF ConnectFailed, EventOK
    <3>2. ~event.connected /\ event.have = {} /\ event.errs = {} /\ event.dbs = Nothing
      BY <1>0, <2>3 DEF EventOK, ReachOK, ServerPhase
    <3>3. ReachOK' /\ ServerOK'
      BY <1>0, <2>3, <3>0, <3>1, <3>2 DEF ReachOK, ServerOK, ServerPhase, InRound
    <3>4. \A d \in DOMAIN event'.dbs : TablesOK(d)'
      BY <3>1, <3>2, NothingIsEmpty
    <3> QED
      BY <2>2, <3>1, <3>3, <3>4 DEF EventOK
  <2>4. CASE target # Maintenance
    <3>0. pc' = "db" /\ target \in DOMAIN event.dbs
          /\ event' = [event EXCEPT !.dbs[target].errs = {"connect"}]
      BY <1>4, <2>4 DEF ConnectFailed, Goto, EventOK, ReachOK
    <3>a. PICK h, e : /\ h = event.dbs[target].have /\ e = {"connect"}
                      /\ event' = [event EXCEPT !.dbs[target].errs = e]
      BY <3>0
    <3> DEFINE new == [activity |-> event.dbs[target].activity, have |-> h, errs |-> e]
    <3>1. /\ ShapeOK' /\ event'.connected = event.connected /\ event'.have = event.have
          /\ event'.errs = event.errs
          /\ event'.dbs = [event.dbs EXCEPT ![target] = new]
      <4>1. target \in DOMAIN event.dbs /\ ShapeOK
        BY <3>0 DEF EventOK
      <4>2. \/ event' = [event EXCEPT !.dbs[target].have = h] /\ e = event.dbs[target].errs
            \/ event' = [event EXCEPT !.dbs[target].errs = e] /\ h = event.dbs[target].have
        BY <3>a
      <4> QED
        BY <4>1, <4>2, SetTables
    <3>2. /\ DOMAIN event'.dbs = DOMAIN event.dbs /\ event'.dbs[target] = new
          /\ \A d \in DOMAIN event.dbs : d # target => event'.dbs[d] = event.dbs[d]
      BY <3>0, <3>1
    <3>3. event'.dbs[target].have = {} /\ event'.dbs[target].errs = {"connect"}
      <4>1. TablesOK(target)
        BY <3>0 DEF EventOK
      <4>2. event.dbs[target].have = {}
        BY <1>0, <4>1 DEF TablesOK
      <4> QED
        BY <3>a, <3>2, <4>2
    <3>4. event.connected
      BY <2>4 DEF EventOK, ReachOK
    <3>5. ReachOK' /\ ServerOK'
      BY <1>0, <2>4, <3>0, <3>1, <3>2, <3>4
      DEF EventOK, ReachOK, ServerOK, ServerPhase, InRound
    <3>6. ASSUME NEW d \in DOMAIN event.dbs PROVE TablesOK(d)'
      <4>1. TablesOK(d)
        BY DEF EventOK
      <4>2. CASE d = target
        BY <3>0, <3>3, <4>2 DEF TablesOK
      <4>3. CASE d # target
        BY <1>0, <3>0, <3>2, <4>1, <4>3 DEF TablesOK
      <4> QED
        BY <4>2, <4>3
    <3> QED
      BY <2>2, <3>1, <3>2, <3>5, <3>6 DEF EventOK
  <2> QED
    BY <2>3, <2>4
<1> QED
  BY <1>2, <1>3, <1>4, ConnectSteps

LEMMA DatabaseEvent == ASSUME CtlOK, EventOK, Database PROVE EventOK'
<1> DEFINE d == Chosen
           t == [x \in DOMAIN event.dbs \cup {d} |-> IF x = d THEN Entry(d) ELSE event.dbs[x]]
<1>0. /\ UNCHANGED <<cancelled, round, out, cut>> /\ d \in DBs /\ d # Maintenance
      /\ pc = "db" /\ target' = d /\ step' = 1
      /\ pc' = IF rows[d].allow THEN "connect" ELSE "db"
      /\ event' = [event EXCEPT !.dbs = t]
  BY DatabaseSteps
<1>1. OutOK'
  BY <1>0 DEF EventOK, OutOK
<1>2. /\ Entry(d) = [activity |-> Entry(d).activity, have |-> Entry(d).have,
                     errs |-> Entry(d).errs]
      /\ Entry(d).have = {} /\ Entry(d).errs = IF rows[d].allow THEN {} ELSE {"connect"}
  BY DEF Entry
<1>3. /\ t = [x \in DOMAIN t |-> t[x]] /\ DOMAIN t = DOMAIN event.dbs \cup {d}
      /\ t[d] = Entry(d) /\ \A x \in DOMAIN event.dbs : x # d => t[x] = event.dbs[x]
  OBVIOUS
<1> HIDE DEF t, d
<1>4. /\ DOMAIN t \subseteq DBs
      /\ \A x \in DOMAIN t :
           t[x] = [activity |-> t[x].activity, have |-> t[x].have, errs |-> t[x].errs]
  BY <1>0, <1>2, <1>3 DEF EventOK, ShapeOK
<1>5. ShapeOK' /\ event'.connected = event.connected /\ event'.have = event.have
      /\ event'.errs = event.errs /\ event'.dbs = t
  BY <1>0, <1>3, <1>4, SetDatabases DEF EventOK
<1>6. event.connected
  BY <1>0 DEF EventOK, ReachOK
<1>7. ReachOK' /\ ServerOK'
  BY <1>0, <1>3, <1>5, <1>6 DEF EventOK, ReachOK, ServerOK, ServerPhase, InRound
<1>8. ASSUME NEW x \in DOMAIN t PROVE TablesOK(x)'
  <2>1. CASE x = d
    BY <1>0, <1>2, <1>3, <1>5, <2>1 DEF TablesOK
  <2>2. CASE x # d
    <3>1. x \in DOMAIN event.dbs /\ TablesOK(x)
      BY <1>3, <2>2 DEF EventOK
    <3> QED
      BY <1>0, <1>3, <1>5, <2>2, <3>1 DEF TablesOK
  <2> QED
    BY <2>1, <2>2
<1> QED
  BY <1>1, <1>5, <1>7, <1>8 DEF EventOK

LEMMA ReadPartEvent == ASSUME CtlOK, EventOK, ReadPart PROVE EventOK'
<1>0. /\ UNCHANGED <<cancelled, round, out, target>> /\ pc = "read"
      /\ step \in 1..Len(Plan) /\ Len(Plan) \in Nat
      /\ IF step < Len(Plan) THEN step' = step + 1 /\ pc' = "read"
                             ELSE step' = step /\ pc' = "close"
      /\ pc' \in {"read", "close"}
      /\ event.connected
  BY PlanFacts DEF ReadPart, At, Goto, CtlOK, EventOK, ReachOK
<1>1. OutOK'
  <2>1. cut' => cancelled
    BY DEF ReadPart, PartRead, Readable, PartFails, Failed, EventOK, OutOK
  <2> QED
    BY <1>0, <2>1 DEF EventOK, OutOK
<1>2. ASSUME NEW h, NEW e, Accounted(h, e, PartsBefore(Plan, step)), NEW g, NEW f,
             \/ g = h \cup {Part} /\ f = e
             \/ g = h /\ f = e \cup {Part}
      PROVE  /\ pc' = "read" => Accounted(g, f, PartsBefore(Plan, step'))
             /\ pc' # "read" => Accounted(g, f, AllParts(Plan))
  <2>1. /\ Accounted(g, f, PartsBefore(Plan, step + 1))
        /\ step = Len(Plan) => PartsBefore(Plan, step + 1) = AllParts(Plan)
    BY <1>0, <1>2, NextPart DEF Part
  <2>2. CASE step < Len(Plan)
    BY <1>0, <2>1, <2>2
  <2>3. CASE ~(step < Len(Plan))
    <3>1. step = Len(Plan)
      BY <1>0, <2>3
    <3> QED
      BY <1>0, <2>1, <2>3, <3>1
  <2> QED
    BY <2>2, <2>3
<1>3. CASE target = Maintenance
  <2>0. Plan = ServerParts /\ event.dbs = Nothing
        /\ Accounted(event.have, event.errs, PartsBefore(Plan, step))
    BY <1>0, <1>3 DEF Plan, EventOK, ReachOK, ServerOK, InRound
  <2>1. \/ event' = [event EXCEPT !.have = event.have \cup {Part}]
        \/ event' = [event EXCEPT !.errs = event.errs \cup {Part}]
    BY <1>3 DEF ReadPart, PartRead, PartFails, Named
  <2>2. /\ ShapeOK' /\ event'.connected = event.connected /\ event'.dbs = event.dbs
        /\ \/ event'.have = event.have \cup {Part} /\ event'.errs = event.errs
           \/ event'.have = event.have /\ event'.errs = event.errs \cup {Part}
    BY <2>1, SetServer DEF EventOK
  <2>3. /\ pc' = "read" => Accounted(event'.have, event'.errs, PartsBefore(ServerParts, step'))
        /\ pc' # "read" => Accounted(event'.have, event'.errs, AllParts(ServerParts))
    BY <1>2, <2>0, <2>2
  <2>4. ReachOK'
    BY <1>0, <1>3, <2>0, <2>2 DEF ReachOK, ServerPhase, InRound
  <2>5. ServerOK'
    BY <1>0, <1>3, <2>3 DEF ServerOK
  <2>6. \A d \in DOMAIN event'.dbs : TablesOK(d)'
    BY <2>0, <2>2, NothingIsEmpty
  <2> QED
    BY <1>1, <2>2, <2>4, <2>5, <2>6 DEF EventOK
<1>4. CASE target # Maintenance
  <2>0. Plan = TableParts /\ target \in DOMAIN event.dbs
    BY <1>4 DEF Plan, EventOK, ReachOK
  <2> DEFINE old == event.dbs[target]
  <2>1. Accounted(old.have, old.errs, PartsBefore(Plan, step))
    BY <1>0, <2>0 DEF EventOK, TablesOK
  <2>2. \/ event' = [event EXCEPT !.dbs[target].have = old.have \cup {Part}]
        \/ event' = [event EXCEPT !.dbs[target].errs = old.errs \cup {Part}]
    BY <1>4 DEF ReadPart, PartRead, PartFails, Named
  <2>3. PICK g, f :
          /\ \/ g = old.have \cup {Part} /\ f = old.errs
             \/ g = old.have /\ f = old.errs \cup {Part}
          /\ \/ event' = [event EXCEPT !.dbs[target].have = g] /\ f = old.errs
             \/ event' = [event EXCEPT !.dbs[target].errs = f] /\ g = old.have
    BY <2>2
  <2> DEFINE new == [activity |-> old.activity, have |-> g, errs |-> f]
  <2>4. /\ ShapeOK' /\ event'.connected = event.connected /\ event'.have = event.have
        /\ event'.errs = event.errs
        /\ event'.dbs = [event.dbs EXCEPT ![target] = new]
    BY <2>0, <2>3, SetTables DEF EventOK
  <2>5. /\ DOMAIN event'.dbs = DOMAIN event.dbs /\ event'.dbs[target] = new
        /\ \A d \in DOMAIN event.dbs : d # target => event'.dbs[d] = event.dbs[d]
    BY <2>0, <2>4
  <2>6. event'.dbs[target].have = g /\ event'.dbs[target].errs = f
    BY <2>5
  <2>7. /\ pc' = "read" => Accounted(g, f, PartsBefore(TableParts, step'))
        /\ pc' # "read" => Accounted(g, f, AllParts(TableParts))
    BY <1>2, <2>0, <2>1, <2>3
  <2>8. ReachOK' /\ ServerOK'
    BY <1>0, <1>4, <2>4, <2>5 DEF EventOK, ReachOK, ServerOK, ServerPhase, InRound
  <2>9. ASSUME NEW d \in DOMAIN event.dbs PROVE TablesOK(d)'
    <3>1. TablesOK(d)
      BY DEF EventOK
    <3>2. CASE d = target
      BY <1>0, <2>6, <2>7, <3>2 DEF TablesOK
    <3>3. CASE d # target
      BY <1>0, <2>5, <3>1, <3>3 DEF TablesOK
    <3> QED
      BY <3>2, <3>3
  <2> QED
    BY <1>1, <2>4, <2>5, <2>8, <2>9 DEF EventOK
<1> QED
  BY <1>3, <1>4

LEMMA NextEvent == CtlOK /\ EventOK /\ [Next]_vars => EventOK'
  BY ServerEvent, CancelEvent, BeginRoundEvent, LeaveEvent, PublishEvent, EndRoundEvent,
     ConnectEvent, DatabaseEvent, ReadPartEvent DEF Next, Collect, Stopped

LEMMA SpecEvent == Spec => [](CtlOK /\ EventOK)
  BY InitCtl, InitEvent, NextCtl, NextEvent, PTL DEF Spec

\* In a published event every part is there or named as failed, and no failure in it is
\* one that the shutdown caused: collectAndPublish looks at ctx after the last read.
THEOREM EventAccountedAlways == Spec => []EventAccounted
<1>1. CtlOK /\ EventOK => EventAccounted
  <2> SUFFICES ASSUME CtlOK, EventOK, out PROVE EventAccounted
    BY DEF EventAccounted
  <2>1. pc = "idle" /\ target = Maintenance /\ ~cut
    BY DEF CtlOK, EventOK, OutOK
  <2>2. IF event.connected
        THEN Accounted(event.have, event.errs, {ServerParts[i] : i \in DOMAIN ServerParts})
        ELSE event.have = {} /\ event.errs = {} /\ event.dbs = Nothing
    BY <2>1 DEF EventOK, ReachOK, ServerOK, AllParts
  <2>3. \A d \in DOMAIN event.dbs :
         \/ event.dbs[d].have = {} /\ event.dbs[d].errs = {"connect"}
         \/ Accounted(event.dbs[d].have, event.dbs[d].errs,
                      {TableParts[i] : i \in DOMAIN TableParts})
    BY <2>1 DEF EventOK, TablesOK, AllParts
  <2> QED
    BY <2>1, <2>2, <2>3 DEF EventAccounted
<1> QED
  BY <1>1, SpecEvent, PTL

(***************************************************************************)
(* What a reading says of the later states of a database.                  *)
(***************************************************************************)
LEMMA ReadingFields ==
  ASSUME NEW o \in Reading
  PROVE  /\ o.db \in Row /\ o.start \in Nat /\ o.total \in [Counters -> Nat]
         /\ o.db.inc \in Nat /\ o.db.reset \in Nat
         /\ o.db.stats # None => o.db.stats \in [Counters -> Nat]
  BY DEF Reading, Row

LEMMA FollowsItself == ASSUME NEW o \in Reading, NEW l PROVE Follows(o, o, l)
<1>1. \A k \in Counters : o.total[k] \in Nat
  BY ReadingFields
<1>2. o.db.inc \in Nat /\ o.start \in Nat
      /\ (o.db.stats # None => o.db.stats \in [Counters -> Nat])
  BY ReadingFields
<1> QED
  BY <1>1, <1>2 DEF Follows

\* Something is counted.
LEMMA CountFollows ==
  ASSUME NEW o \in Reading, NEW n \in Reading, NEW m \in Reading, NEW l, Follows(o, n, l),
         NEW c \in Counters,
         m.db.inc = n.db.inc, m.db.reset = n.db.reset, m.start = n.start,
         m.total = [n.total EXCEPT ![c] = @ + 1],
         m.db.stats = [(IF n.db.stats = None THEN Zero ELSE n.db.stats) EXCEPT ![c] = @ + 1]
  PROVE  Follows(o, m, l)
<1> DEFINE base == IF n.db.stats = None THEN Zero ELSE n.db.stats
<1>1. base \in [Counters -> Nat] /\ n.total \in [Counters -> Nat] /\ o.total \in [Counters -> Nat]
      /\ (o.db.stats # None => o.db.stats \in [Counters -> Nat])
  BY ReadingFields DEF Zero
<1>2. \A k \in Counters :
        /\ base[k] \in Nat /\ n.total[k] \in Nat /\ o.total[k] \in Nat
        /\ m.total[k] = IF k = c THEN n.total[k] + 1 ELSE n.total[k]
        /\ m.db.stats[k] = IF k = c THEN base[k] + 1 ELSE base[k]
  BY <1>1
<1>3. o.db.inc <= m.db.inc /\ o.start <= m.start
  BY DEF Follows
<1>4. \A k \in Counters : o.total[k] <= m.total[k]
  BY <1>2 DEF Follows
<1>5. ASSUME l, o.db.stats # None, o.db.inc = m.db.inc, o.db.reset = m.db.reset,
             o.start = m.start
      PROVE  /\ m.db.stats # None
             /\ \A k \in Counters : m.db.stats[k] + o.total[k] = o.db.stats[k] + m.total[k]
  <2>1. n.db.stats # None /\ base = n.db.stats
        /\ \A k \in Counters : n.db.stats[k] + o.total[k] = o.db.stats[k] + n.total[k]
    BY <1>5 DEF Follows
  <2>2. m.db.stats \in [Counters -> Nat]
    BY <1>1
  <2>3. m.db.stats # None
    BY <2>2, NoneAssumption
  <2>4. \A k \in Counters : o.db.stats[k] \in Nat
    BY <1>1, <1>5
  <2> HIDE DEF base
  <2>5. \A k \in Counters : m.db.stats[k] + o.total[k] = o.db.stats[k] + m.total[k]
    BY <1>2, <2>1, <2>4
  <2> QED
    BY <2>3, <2>5
<1>6. ASSUME o.db.inc # m.db.inc
      PROVE  \A k \in Counters : m.db.stats[k] + o.total[k] <= m.total[k]
  <2>1. \A k \in Counters : base[k] + o.total[k] <= n.total[k]
    <3>1. CASE n.db.stats = None
      BY <1>2, <3>1 DEF Follows, Zero
    <3>2. CASE n.db.stats # None
      BY <1>6, <3>2 DEF Follows
    <3> QED
      BY <3>1, <3>2
  <2> HIDE DEF base
  <2> QED
    BY <1>2, <2>1
<1> QED
  BY <1>3, <1>4, <1>5, <1>6 DEF Follows

\* Dropped: its row is as it was.
LEMMA SameFollows ==
  ASSUME NEW o, NEW n, NEW m, NEW l, Follows(o, n, l),
         m.db.inc = n.db.inc, m.db.reset = n.db.reset, m.start = n.start,
         m.total = n.total, m.db.stats = n.db.stats
  PROVE  Follows(o, m, l)
  BY DEF Follows

\* Created again.
LEMMA CreateFollows ==
  ASSUME NEW o \in Reading, NEW n \in Reading, NEW m, NEW l, Follows(o, n, l),
         m.db.inc = n.db.inc + 1, m.start = n.start, m.total = n.total, m.db.stats = None
  PROVE  Follows(o, m, l)
<1>1. o.db.inc \in Nat /\ n.db.inc \in Nat /\ o.db.inc <= n.db.inc
  BY ReadingFields DEF Follows
<1>2. o.db.inc # m.db.inc /\ o.db.inc <= m.db.inc
  BY <1>1
<1> QED
  BY <1>2 DEF Follows

\* Its statistics are reset, or lost with the server: what is left shows nothing.
LEMMA ZeroFollows ==
  ASSUME NEW o \in Reading, NEW n \in Reading, NEW m, NEW l, NEW u, Follows(o, n, l),
         m.db.inc = n.db.inc, m.start = n.start, m.total = n.total, m.db.stats = Zero,
         u => o.db.reset # m.db.reset
  PROVE  Follows(o, m, u)
<1>1. \A k \in Counters : o.total[k] \in Nat /\ n.total[k] \in Nat /\ o.total[k] <= n.total[k]
  BY ReadingFields DEF Follows
<1>2. \A k \in Counters : m.db.stats[k] + o.total[k] <= m.total[k]
  BY <1>1 DEF Zero
<1> QED
  BY <1>2 DEF Follows

LEMMA LostFollows ==
  ASSUME NEW o, NEW n, NEW m, NEW l, Follows(o, n, l),
         m.db.inc = n.db.inc, m.start = n.start, m.total = n.total, m.db.stats = n.db.stats
  PROVE  Follows(o, m, FALSE)
  BY DEF Follows

\* The server starts again.
LEMMA BootFollows ==
  ASSUME NEW o \in Reading, NEW n \in Reading, NEW m, NEW l, NEW u, Follows(o, n, l),
         m.db = n.db, m.start = n.start + 1, m.total = n.total
  PROVE  Follows(o, m, u)
<1>1. o.start \in Nat /\ n.start \in Nat /\ o.start <= n.start
  BY ReadingFields DEF Follows
<1>2. o.start # m.start /\ o.start <= m.start
  BY <1>1
<1> QED
  BY <1>2 DEF Follows

(***************************************************************************)
(* The server, and all readings of its databases.                          *)
(***************************************************************************)
LEMMA MakeReading ==
  ASSUME NEW f \in [DBs -> Row], NEW n \in Nat, NEW t \in [DBs -> [Counters -> Nat]],
         NEW d \in DBs
  PROVE  LET m == [db |-> f[d], start |-> n, total |-> t[d]] IN
         m \in Reading /\ m.db = f[d] /\ m.start = n /\ m.total = t[d]
  BY DEF Reading

LEMMA NowReading ==
  ASSUME WorldOK, NEW d \in DBs
  PROVE  Now(d) \in Reading /\ Now(d).db = dbs[d] /\ Now(d).start = started
         /\ Now(d).total = total[d]
  BY MakeReading DEF WorldOK, Now

LEMMA NowReadingNext ==
  ASSUME WorldOK', NEW d \in DBs
  PROVE  Now(d)' \in Reading /\ Now(d)'.db = dbs'[d] /\ Now(d)'.start = started'
         /\ Now(d)'.total = total'[d]
  BY MakeReading DEF WorldOK, Now

\* A step takes no earlier reading back.
Lasts ==
  \A o \in Reading, d \in DBs :
    o.db.reset <= faults /\ Follows(o, Now(d), up) => Follows(o, Now(d)', up')

LEMMA RowFields ==
  ASSUME WorldOK, NEW d \in DBs
  PROVE  /\ dbs[d] = [exists |-> dbs[d].exists, allow |-> dbs[d].allow, stats |-> dbs[d].stats,
                      reset |-> dbs[d].reset, inc |-> dbs[d].inc]
         /\ dbs[d].exists \in BOOLEAN /\ dbs[d].allow \in BOOLEAN
         /\ dbs[d].stats \in [Counters -> Nat] \cup {None}
         /\ dbs[d].reset \in Nat /\ dbs[d].inc \in Nat
  BY DEF WorldOK, Row

LEMMA SetStats ==
  ASSUME NEW r \in Row, NEW s
  PROVE  [r EXCEPT !.stats = s] = [exists |-> r.exists, allow |-> r.allow, stats |-> s,
                                   reset |-> r.reset, inc |-> r.inc]
  BY DEF Row

LEMMA SetDropped ==
  ASSUME NEW r \in Row, NEW n, n = [r EXCEPT !.exists = FALSE]
  PROVE  n = [exists |-> FALSE, allow |-> r.allow, stats |-> r.stats, reset |-> r.reset,
              inc |-> r.inc]
  BY DEF Row

LEMMA SetCreated ==
  ASSUME NEW r \in Row, NEW n,
         n = [r EXCEPT !.exists = TRUE, !.stats = None, !.reset = 0, !.inc = @ + 1]
  PROVE  n = [exists |-> TRUE, allow |-> r.allow, stats |-> None, reset |-> 0,
              inc |-> r.inc + 1]
  BY DEF Row

LEMMA CreatedRow ==
  ASSUME NEW a \in BOOLEAN, NEW i \in Nat
  PROVE  [exists |-> TRUE, allow |-> a, stats |-> None, reset |-> 0, inc |-> i] \in Row
<1>1. None \in [Counters -> Nat] \cup {None}
  OBVIOUS
<1> QED
  BY <1>1 DEF Row

LEMMA SetReset ==
  ASSUME NEW r \in Row, NEW s, NEW t, NEW n, n = [r EXCEPT !.stats = s, !.reset = t]
  PROVE  n = [exists |-> r.exists, allow |-> r.allow, stats |-> s, reset |-> t, inc |-> r.inc]
  BY DEF Row

\* Only the row of d changes.
LEMMA RowChanges ==
  ASSUME WorldOK, NEW d \in DBs, NEW row \in Row, row.reset <= faults',
         dbs' = [dbs EXCEPT ![d] = row], UNCHANGED <<started, up>>, faults' \in Nat,
         faults <= faults', total' \in [DBs -> [Counters -> Nat]],
         \A e \in DBs : e # d => total'[e] = total[e],
         \A o \in Reading : o.db.reset <= faults /\ Follows(o, Now(d), up) =>
                            Follows(o, Now(d)', up)
  PROVE  WorldOK' /\ Lasts
<1>1. dbs' \in [DBs -> Row] /\ dbs'[d] = row /\ \A e \in DBs : e # d => dbs'[e] = dbs[e]
  BY DEF WorldOK
<1>2. \A e \in DBs : dbs'[e].reset <= faults'
  <2> TAKE e \in DBs
  <2>1. CASE e = d
    BY <1>1, <2>1
  <2>2. CASE e # d
    <3>1. dbs'[e] = dbs[e] /\ dbs[e].reset <= faults /\ dbs[e].reset \in Nat /\ faults \in Nat
      BY <1>1, <2>2, RowFields DEF WorldOK
    <3> QED
      BY <3>1
  <2> QED
    BY <2>1, <2>2
<1>3. started' \in Nat
  BY DEF WorldOK
<1>4. up' \in BOOLEAN
  BY DEF WorldOK
<1>5. WorldOK'
  BY <1>1, <1>2, <1>3, <1>4 DEF WorldOK
<1>6. \A e \in DBs : e # d => Now(e)' = Now(e)
  BY <1>1 DEF Now
<1>7. Lasts
  BY <1>6 DEF Lasts
<1> QED
  BY <1>5, <1>7

LEMMA WorkWorld == ASSUME WorldOK, NEW d \in DBs, Work(d) PROVE WorldOK' /\ Lasts
<1>0. UNCHANGED <<started, up, faults>>
  BY DEF Work
<1>1. PICK c \in Counters :
        /\ dbs' = [dbs EXCEPT ![d].stats = [CountedIn(d) EXCEPT ![c] = @ + 1]]
        /\ total' = [total EXCEPT ![d][c] = @ + 1]
  BY DEF Work
<1> DEFINE stats == [CountedIn(d) EXCEPT ![c] = @ + 1]
           row == [exists |-> dbs[d].exists, allow |-> dbs[d].allow, stats |-> stats,
                   reset |-> dbs[d].reset, inc |-> dbs[d].inc]
<1>2. dbs' = [dbs EXCEPT ![d] = row]
  <2>1. dbs' = [dbs EXCEPT ![d] = [dbs[d] EXCEPT !.stats = stats]]
    BY <1>1
  <2>2. [dbs[d] EXCEPT !.stats = stats] = row
    <3>1. dbs[d] \in Row
      BY DEF WorldOK
    <3> HIDE DEF stats
    <3> QED
      BY <3>1, SetStats
  <2> QED
    BY <2>1, <2>2
<1>3. stats \in [Counters -> Nat]
  <2>1. CountedIn(d) \in [Counters -> Nat]
    BY RowFields DEF CountedIn, Zero
  <2> QED
    BY <2>1
<1>4. row.stats = stats /\ row.reset = dbs[d].reset /\ row.inc = dbs[d].inc
  OBVIOUS
<1>5. row \in Row
  <2> HIDE DEF stats
  <2> QED
    BY <1>3, RowFields DEF Row
<1>6. /\ total' \in [DBs -> [Counters -> Nat]]
      /\ total'[d] = [total[d] EXCEPT ![c] = @ + 1]
      /\ \A e \in DBs : e # d => total'[e] = total[e]
  BY <1>1 DEF WorldOK
<1> HIDE DEF stats, row
<1>7. row.reset <= faults' /\ faults' \in Nat /\ faults <= faults'
  BY <1>0, <1>4 DEF WorldOK
<1>8. /\ Now(d) \in Reading /\ Now(d).db = dbs[d] /\ Now(d).start = started
      /\ Now(d).total = total[d]
  BY NowReading
<1>9. /\ Now(d)' \in Reading /\ Now(d)'.db = row /\ Now(d)'.start = started
      /\ Now(d)'.total = [total[d] EXCEPT ![c] = @ + 1]
  <2>1. dbs' \in [DBs -> Row] /\ dbs'[d] = row
    BY <1>2, <1>5 DEF WorldOK
  <2>2. started' = started /\ started' \in Nat
    BY <1>0 DEF WorldOK
  <2> QED
    BY <1>6, <2>1, <2>2, MakeReading DEF Now
<1>10. ASSUME NEW o \in Reading, Follows(o, Now(d), up) PROVE Follows(o, Now(d)', up)
  BY <1>4, <1>8, <1>9, <1>10, CountFollows DEF stats, CountedIn
<1> QED
  BY <1>0, <1>2, <1>5, <1>6, <1>7, <1>10, RowChanges

\* A database is dropped, created again, or its statistics are reset.
LEMMA AlterWorld == ASSUME WorldOK, NEW d \in DBs, Alter(d) PROVE WorldOK' /\ Lasts
<1>0. /\ UNCHANGED <<started, up, total>> /\ faults' = faults + 1
      /\ faults' \in Nat /\ faults <= faults' /\ total' \in [DBs -> [Counters -> Nat]]
      /\ dbs[d] \in Row /\ started \in Nat
  BY DEF Alter, Change, Fault, WorldOK
<1>1. /\ Now(d) \in Reading /\ Now(d).db = dbs[d] /\ Now(d).start = started
      /\ Now(d).total = total[d]
  BY NowReading
<1>2. ASSUME NEW row \in Row, dbs' = [dbs EXCEPT ![d] = row]
      PROVE  /\ Now(d)' \in Reading /\ Now(d)'.db = row /\ Now(d)'.start = started
             /\ Now(d)'.total = total[d]
  <2>1. dbs' \in [DBs -> Row] /\ dbs'[d] = row
    BY <1>2 DEF WorldOK
  <2> QED
    BY <1>0, <2>1, MakeReading DEF Now
<1>3. CASE dbs' = [dbs EXCEPT ![d].exists = FALSE]
  <2> DEFINE row == [exists |-> FALSE, allow |-> dbs[d].allow, stats |-> dbs[d].stats,
                     reset |-> dbs[d].reset, inc |-> dbs[d].inc]
  <2>1. dbs' = [dbs EXCEPT ![d] = row]
    <3>1. dbs' = [dbs EXCEPT ![d] = [dbs[d] EXCEPT !.exists = FALSE]]
      BY <1>3
    <3>2. [dbs[d] EXCEPT !.exists = FALSE] = row
      BY <1>0, SetDropped
    <3> QED
      BY <3>1, <3>2
  <2>2. row.stats = dbs[d].stats /\ row.reset = dbs[d].reset /\ row.inc = dbs[d].inc
    OBVIOUS
  <2>3. row \in Row
    BY RowFields DEF Row
  <2> HIDE DEF row
  <2>4. row.reset <= faults'
    BY <1>0, <2>2, RowFields DEF WorldOK
  <2>5. ASSUME NEW o \in Reading, Follows(o, Now(d), up) PROVE Follows(o, Now(d)', up)
    BY <1>1, <1>2, <2>1, <2>2, <2>3, <2>5, SameFollows
  <2> QED
    BY <1>0, <2>1, <2>3, <2>4, <2>5, RowChanges
<1>4. CASE dbs' = [dbs EXCEPT ![d] = [dbs[d] EXCEPT !.exists = TRUE, !.stats = None,
                                                    !.reset = 0, !.inc = @ + 1]]
  <2> DEFINE row == [exists |-> TRUE, allow |-> dbs[d].allow, stats |-> None, reset |-> 0,
                     inc |-> dbs[d].inc + 1]
  <2>1. dbs' = [dbs EXCEPT ![d] = row]
    <3>1. [dbs[d] EXCEPT !.exists = TRUE, !.stats = None, !.reset = 0, !.inc = @ + 1] = row
      BY <1>0, SetCreated
    <3> QED
      BY <1>4, <3>1
  <2>2. row.stats = None /\ row.reset = 0 /\ row.inc = dbs[d].inc + 1
    OBVIOUS
  <2>3. row \in Row
    <3>0. dbs[d].inc \in Nat
      BY RowFields
    <3>1. dbs[d].inc + 1 \in Nat
      BY <3>0
    <3>a. dbs[d].allow \in BOOLEAN
      BY RowFields
    <3>2. PICK a \in BOOLEAN, i \in Nat : a = dbs[d].allow /\ i = dbs[d].inc + 1
      BY <3>1, <3>a
    <3>3. row = [exists |-> TRUE, allow |-> a, stats |-> None, reset |-> 0, inc |-> i]
      BY <3>2
    <3> QED
      BY <3>3, CreatedRow
  <2> HIDE DEF row
  <2>4. row.reset <= faults'
    BY <1>0, <2>2
  <2>5. ASSUME NEW o \in Reading, Follows(o, Now(d), up) PROVE Follows(o, Now(d)', up)
    BY <1>1, <1>2, <2>1, <2>2, <2>3, <2>5, CreateFollows
  <2> QED
    BY <1>0, <2>1, <2>3, <2>4, <2>5, RowChanges
<1>5. CASE dbs' = [dbs EXCEPT ![d] = [dbs[d] EXCEPT !.stats = Zero, !.reset = faults + 1]]
  <2> DEFINE row == [exists |-> dbs[d].exists, allow |-> dbs[d].allow, stats |-> Zero,
                     reset |-> faults + 1, inc |-> dbs[d].inc]
  <2>1. dbs' = [dbs EXCEPT ![d] = row]
    <3>1. [dbs[d] EXCEPT !.stats = Zero, !.reset = faults + 1] = row
      BY <1>0, SetReset
    <3> QED
      BY <1>5, <3>1
  <2>2. row.stats = Zero /\ row.reset = faults + 1 /\ row.inc = dbs[d].inc
    OBVIOUS
  <2>3. row \in Row
    <3>1. faults + 1 \in Nat
      BY <1>0
    <3> QED
      BY <3>1, RowFields DEF Row, Zero
  <2> HIDE DEF row
  <2>4. row.reset <= faults'
    BY <1>0, <2>2
  <2>5. ASSUME NEW o \in Reading, o.db.reset <= faults, Follows(o, Now(d), up)
        PROVE  Follows(o, Now(d)', up)
    <3>1. o.db.reset # row.reset
      <4>1. o.db.reset \in Nat /\ faults \in Nat
        BY ReadingFields DEF WorldOK
      <4> QED
        BY <2>2, <2>5, <4>1
    <3>2. /\ Now(d)' \in Reading /\ Now(d)'.db = row /\ Now(d)'.start = started
          /\ Now(d)'.total = total[d]
      BY <1>2, <2>1, <2>3
    <3> QED
      BY <1>1, <2>2, <2>5, <3>1, <3>2, ZeroFollows
  <2> QED
    BY <1>0, <2>1, <2>3, <2>4, <2>5, RowChanges
<1> QED
  BY <1>3, <1>4, <1>5 DEF Alter

LEMMA StopWorld == ASSUME WorldOK, Stop PROVE WorldOK' /\ Lasts
<1>0. UNCHANGED <<started, total>> /\ faults' = faults + 1
      /\ faults' \in Nat /\ faults <= faults' /\ started \in Nat
      /\ total \in [DBs -> [Counters -> Nat]] /\ dbs \in [DBs -> Row]
  BY DEF Stop, Change, Fault, WorldOK
<1>1. up' = FALSE
  BY DEF Stop
<1>2. ASSUME NEW d \in DBs
      PROVE  /\ dbs'[d] \in Row /\ dbs'[d].reset = dbs[d].reset /\ dbs'[d].inc = dbs[d].inc
             /\ dbs'[d].stats \in {dbs[d].stats, Zero}
  <2>1. dbs'[d] = dbs[d] \/ dbs'[d] = [dbs[d] EXCEPT !.stats = Zero]
    BY DEF Stop
  <2>2. CASE dbs'[d] = dbs[d]
    BY <1>0, <2>2
  <2>3. CASE dbs'[d] = [dbs[d] EXCEPT !.stats = Zero]
    <3> DEFINE row == [exists |-> dbs[d].exists, allow |-> dbs[d].allow, stats |-> Zero,
                       reset |-> dbs[d].reset, inc |-> dbs[d].inc]
    <3>1. dbs'[d] = row
      BY <1>0, <2>3, SetStats
    <3>2. row.stats = Zero /\ row.reset = dbs[d].reset /\ row.inc = dbs[d].inc
      OBVIOUS
    <3>3. row \in Row
      BY RowFields DEF Row, Zero
    <3> HIDE DEF row
    <3> QED
      BY <3>1, <3>2, <3>3
  <2> QED
    BY <2>1, <2>2, <2>3
<1>3. dbs' = [d \in DBs |-> dbs'[d]]
  BY <1>0 DEF Stop
<1>4. \A d \in DBs : dbs'[d].reset <= faults'
  <2> TAKE d \in DBs
  <2>1. dbs[d].reset <= faults /\ dbs[d].reset \in Nat /\ faults \in Nat
    BY RowFields DEF WorldOK
  <2>2. dbs'[d].reset = dbs[d].reset
    BY <1>2
  <2> QED
    BY <1>0, <2>1, <2>2
<1>5. dbs' \in [DBs -> Row]
  BY <1>2, <1>3
<1>6. WorldOK'
  BY <1>0, <1>1, <1>4, <1>5 DEF WorldOK
<1>7. ASSUME NEW o \in Reading, NEW d \in DBs, Follows(o, Now(d), up)
      PROVE  Follows(o, Now(d)', FALSE)
  <2>1. /\ Now(d) \in Reading /\ Now(d).db = dbs[d] /\ Now(d).start = started
        /\ Now(d).total = total[d]
    BY NowReading
  <2>2. /\ Now(d)' \in Reading /\ Now(d)'.db = dbs'[d] /\ Now(d)'.start = started
        /\ Now(d)'.total = total[d]
    BY <1>0, <1>6, NowReadingNext
  <2>3. dbs'[d].inc = dbs[d].inc /\ dbs'[d].stats \in {dbs[d].stats, Zero}
    BY <1>2
  <2>4. CASE dbs'[d].stats = Zero
    BY <1>7, <2>1, <2>2, <2>3, <2>4, ZeroFollows
  <2>5. CASE dbs'[d].stats = dbs[d].stats
    BY <1>7, <2>1, <2>2, <2>3, <2>5, LostFollows
  <2> QED
    BY <2>3, <2>4, <2>5
<1> QED
  BY <1>1, <1>6, <1>7 DEF Lasts

LEMMA BootWorld == ASSUME WorldOK, Boot PROVE WorldOK' /\ Lasts
<1>0. UNCHANGED <<dbs, total, faults>> /\ started' = started + 1
  BY DEF Boot, bounds
<1>1. up' = TRUE
  BY DEF Boot
<1>2. started' \in Nat
  BY <1>0 DEF WorldOK
<1>3. WorldOK'
  BY <1>0, <1>1, <1>2 DEF WorldOK
<1>4. ASSUME NEW o \in Reading, NEW d \in DBs, Follows(o, Now(d), up)
      PROVE  Follows(o, Now(d)', up')
  <2>1. /\ Now(d) \in Reading /\ Now(d).db = dbs[d] /\ Now(d).start = started
        /\ Now(d).total = total[d]
    BY NowReading
  <2>2. /\ Now(d)'.db = dbs[d] /\ Now(d)'.start = started + 1 /\ Now(d)'.total = total[d]
    BY <1>0, <1>3, NowReadingNext
  <2> QED
    BY <1>4, <2>1, <2>2, BootFollows
<1> QED
  BY <1>3, <1>4 DEF Lasts

\* Nothing happens to the server, though something may fail.
LEMMA SameWorld ==
  ASSUME WorldOK, UNCHANGED world, faults' \in {faults, faults + 1}
  PROVE  WorldOK' /\ Lasts
<1>0. UNCHANGED <<up, started, dbs, total>>
  BY DEF world
<1>1. faults \in Nat /\ faults' \in Nat /\ faults <= faults'
  BY DEF WorldOK
<1>2. \A d \in DBs : dbs[d].reset <= faults'
  <2> TAKE d \in DBs
  <2>1. dbs[d].reset <= faults /\ dbs[d].reset \in Nat
    BY RowFields DEF WorldOK
  <2> QED
    BY <1>1, <2>1
<1>3. WorldOK'
  BY <1>0, <1>1, <1>2 DEF WorldOK
<1>4. \A d \in DBs : Now(d)' = Now(d)
  BY <1>0 DEF Now
<1> QED
  BY <1>0, <1>3, <1>4 DEF Lasts

\* Of the steps of the agent only a failure moves the world, by its count.
LEMMA FaultSteps ==
  ASSUME Connect \/ Retry \/ ReadPart
  PROVE  UNCHANGED world /\ faults' \in {faults, faults + 1}
<1>1. CASE Connect
  BY <1>1 DEF Connect, Expires, Fault
<1>2. CASE Retry
  BY <1>2 DEF Retry, Expires, Fault
<1>3. CASE ReadPart
  BY <1>3 DEF ReadPart, PartRead, PartFails, QueryFails, Expires, Fault
<1> QED
  BY <1>1, <1>2, <1>3

LEMMA NextWorld == ASSUME WorldOK, [Next]_vars PROVE WorldOK' /\ Lasts
<1>1. CASE Stop
  BY <1>1, StopWorld
<1>2. CASE Boot
  BY <1>2, BootWorld
<1>3. ASSUME NEW d \in DBs, Work(d) PROVE WorldOK' /\ Lasts
  BY <1>3, WorkWorld
<1>4. ASSUME NEW d \in DBs, Alter(d) PROVE WorldOK' /\ Lasts
  BY <1>4, AlterWorld
<1>5. CASE Connect \/ Retry \/ ReadPart
  BY <1>5, FaultSteps, SameWorld
<1>6. CASE BackendExits \/ Cancel \/ BeginRound \/ Return \/ Close \/ Database
           \/ DatabasesDone \/ EndRound \/ Publish \/ UNCHANGED vars
  <2>1. UNCHANGED world /\ faults' = faults
    BY <1>6 DEF BackendExits, Cancel, BeginRound, Return, Close, Database, DatabasesDone,
                EndRound, Publish, vars, bounds
  <2> QED
    BY <2>1, SameWorld
<1> QED
  BY <1>1, <1>2, <1>3, <1>4, <1>5, <1>6 DEF Next, Server, Collect, Stopped

LEMMA InitWorld == ASSUME Init PROVE WorldOK /\ ReadsOK
<1>1. PICK allow \in [DBs -> BOOLEAN] :
        dbs = [d \in DBs |-> [exists |-> TRUE, allow |-> allow[d], stats |-> Zero,
                              reset |-> 0, inc |-> 0]]
  BY DEF Init
<1>2. Zero \in [Counters -> Nat] \cup {None}
  BY DEF Zero
<1>3. dbs \in [DBs -> Row]
  BY <1>1, <1>2 DEF Row
<1>4. total \in [DBs -> [Counters -> Nat]]
  BY DEF Init, Zero
<1>5. started \in Nat /\ faults \in Nat
  BY DEF Init
<1>6. up \in BOOLEAN
  BY DEF Init
<1>7. \A d \in DBs : dbs[d].reset <= faults
  BY <1>1 DEF Init
<1>8. \A r \in Rounds : reads[r] = None
  BY DEF Init, Rounds
<1>9. reads = [r \in Rounds |-> reads[r]]
  BY DEF Init, Rounds
<1> QED
  BY <1>3, <1>4, <1>5, <1>6, <1>7, <1>8, <1>9 DEF WorldOK, ReadsOK

\* No step takes a reading back.
LEMMA ReadsLast ==
  ASSUME WorldOK, ReadsOK, WorldOK', Lasts, faults <= faults',
         round \in Nat, round' \in Nat, round <= round',
         NEW r \in Rounds, reads[r] # None, NEW d \in DOMAIN reads[r]
  PROVE  /\ reads[r][d] \in Reading /\ d \in DBs
         /\ reads[r][d].db.reset <= faults' /\ Follows(reads[r][d], Now(d)', up')
<1>1. d \in DBs /\ reads[r] \in [DOMAIN reads[r] -> Reading]
      /\ reads[r][d].db.reset <= faults /\ Follows(reads[r][d], Now(d), up)
  BY DEF ReadsOK
<1>2. reads[r][d] \in Reading
  BY <1>1
<1>3. Follows(reads[r][d], Now(d)', up')
  BY <1>1, <1>2 DEF Lasts
<1>4. reads[r][d].db.reset \in Nat /\ faults \in Nat /\ faults' \in Nat
  BY <1>2, ReadingFields DEF WorldOK
<1>5. reads[r][d].db.reset <= faults'
  BY <1>1, <1>4
<1> QED
  BY <1>1, <1>2, <1>3, <1>5

LEMMA ReadsSame ==
  ASSUME WorldOK, ReadsOK, WorldOK', Lasts, faults <= faults',
         round \in Nat, round' \in Nat, round <= round', reads' = reads
  PROVE  ReadsOK'
<1>1. \A r \in Rounds : r > round' => reads[r] = None
  BY DEF ReadsOK, Rounds
<1>2. \A r \in Rounds : reads[r] # None =>
        /\ DOMAIN reads[r] \in SUBSET DBs
        /\ reads[r] \in [DOMAIN reads[r] -> Reading]
        /\ \A d \in DOMAIN reads[r] :
             reads[r][d].db.reset <= faults' /\ Follows(reads[r][d], Now(d)', up')
  BY ReadsLast DEF ReadsOK
<1>3. \A r, s \in Rounds : r < s /\ reads[r] # None /\ reads[s] # None =>
        \A d \in DOMAIN reads[r] \cap DOMAIN reads[s] : Follows(reads[r][d], reads[s][d], TRUE)
  BY DEF ReadsOK
<1>4. reads = [r \in Rounds |-> reads[r]]
  BY DEF ReadsOK
<1>5. reads' = [r \in Rounds |-> reads'[r]]
  BY <1>4
<1>6. \A r \in Rounds : reads'[r] # None =>
        /\ DOMAIN reads'[r] \in SUBSET DBs
        /\ reads'[r] \in [DOMAIN reads'[r] -> Reading]
        /\ \A d \in DOMAIN reads'[r] :
             reads'[r][d].db.reset <= faults' /\ Follows(reads'[r][d], Now(d)', up')
  BY <1>2
<1>7. \A r, s \in Rounds : r < s /\ reads'[r] # None /\ reads'[s] # None =>
        \A d \in DOMAIN reads'[r] \cap DOMAIN reads'[s] :
          Follows(reads'[r][d], reads'[s][d], TRUE)
  BY <1>3
<1> QED
  BY <1>1, <1>5, <1>6, <1>7 DEF ReadsOK

\* The step that reads the databases.
Lists == ReadPart /\ PartRead /\ Part = "databases"

\* The counters as they are in this round, if the start time of the server is known.
NewReading ==
  IF srvStart = None THEN None ELSE [d \in Listed |-> Now(d)]

LEMMA ListsReads ==
  ASSUME CtlOK, ReadsOK, Lists
  PROVE  /\ round \in Rounds /\ conn = "open" /\ round' = round /\ UNCHANGED world
         /\ faults' = faults /\ target' = target
         /\ reads' = [reads EXCEPT ![round] = NewReading] /\ reads'[round] = NewReading
         /\ \A r \in Rounds : r # round => reads'[r] = reads[r]
<1>1. pc = "read" /\ conn = "open" /\ round' = round /\ UNCHANGED world /\ faults' = faults
      /\ target' = target
  BY DEF Lists, ReadPart, PartRead, At
<1>2. round \in Rounds
  BY <1>1 DEF CtlOK, Rounds
<1>3. reads' = [reads EXCEPT ![round] = NewReading]
  BY DEF Lists, PartRead, NewReading, Now
<1>4. reads = [r \in Rounds |-> reads[r]]
  BY DEF ReadsOK
<1> QED
  BY <1>1, <1>2, <1>3, <1>4

LEMMA ListsReadsOK == ASSUME CtlOK, WorldOK, ReadsOK, Lists PROVE ReadsOK'
<1>0. /\ round \in Rounds /\ conn = "open" /\ round' = round /\ UNCHANGED world
      /\ faults' = faults /\ reads' = [reads EXCEPT ![round] = NewReading]
      /\ reads'[round] = NewReading /\ \A r \in Rounds : r # round => reads'[r] = reads[r]
  BY ListsReads
<1>1. up /\ round \in Nat
  BY <1>0 DEF CtlOK, Rounds
<1>2. WorldOK' /\ Lasts
  BY <1>0, SameWorld
<1>3. \A d \in DBs : Now(d)' = Now(d)
  BY <1>0 DEF world, Now
<1>4. up' = up
  BY <1>0 DEF world
<1>5. faults <= faults' /\ round <= round' /\ round' \in Nat
  BY <1>0, <1>1 DEF WorldOK
<1>6. CASE srvStart = None
  <2>1. reads'[round] = None
    BY <1>0, <1>6 DEF NewReading
  <2>2. \A r \in Rounds : reads'[r] = reads[r] \/ reads'[r] = None
    BY <1>0, <2>1
  <2>3. reads' = [r \in Rounds |-> reads'[r]]
    BY <1>0 DEF ReadsOK
  <2>4. \A r \in Rounds : r > round' => reads'[r] = None
    BY <1>0, <2>2 DEF ReadsOK
  <2>5. ASSUME NEW r \in Rounds, reads'[r] # None
        PROVE  /\ DOMAIN reads'[r] \in SUBSET DBs
               /\ reads'[r] \in [DOMAIN reads'[r] -> Reading]
               /\ \A d \in DOMAIN reads'[r] :
                    reads'[r][d].db.reset <= faults' /\ Follows(reads'[r][d], Now(d)', up')
    <3>1. reads'[r] = reads[r]
      BY <2>2, <2>5
    <3> QED
      BY <1>1, <1>2, <1>5, <2>5, <3>1, ReadsLast DEF ReadsOK
  <2>6. ASSUME NEW r \in Rounds, NEW s \in Rounds, r < s, reads'[r] # None, reads'[s] # None
        PROVE  \A d \in DOMAIN reads'[r] \cap DOMAIN reads'[s] :
                 Follows(reads'[r][d], reads'[s][d], TRUE)
    <3>1. reads'[r] = reads[r] /\ reads'[s] = reads[s]
      BY <2>2, <2>6
    <3> QED
      BY <2>6, <3>1 DEF ReadsOK
  <2> QED
    BY <2>3, <2>4, <2>5, <2>6 DEF ReadsOK
<1>7. CASE srvStart # None
  <2>1. reads'[round] = [d \in Listed |-> Now(d)]
    BY <1>0, <1>7 DEF NewReading
  <2>2. Listed \in SUBSET DBs
    BY DEF Listed
  <2>3. reads' = [r \in Rounds |-> reads'[r]]
    BY <1>0 DEF ReadsOK
  <2>4. \A r \in Rounds : r > round' => reads'[r] = None
    BY <1>0, <1>1 DEF ReadsOK, Rounds
  <2>5. ASSUME NEW r \in Rounds, reads'[r] # None
        PROVE  /\ DOMAIN reads'[r] \in SUBSET DBs
               /\ reads'[r] \in [DOMAIN reads'[r] -> Reading]
               /\ \A d \in DOMAIN reads'[r] :
                    reads'[r][d].db.reset <= faults' /\ Follows(reads'[r][d], Now(d)', up')
    <3>1. CASE r = round
      <4>1. DOMAIN reads'[r] = Listed /\ reads'[r] \in [Listed -> Reading]
        BY <2>1, <2>2, <3>1, NowReading
      <4>2. ASSUME NEW d \in Listed
            PROVE  reads'[r][d].db.reset <= faults' /\ Follows(reads'[r][d], Now(d)', up')
        <5>1. d \in DBs /\ reads'[r][d] = Now(d)
          BY <2>1, <2>2, <3>1
        <5>2. Now(d) \in Reading /\ Now(d).db = dbs[d]
          BY <5>1, NowReading
        <5>3. Now(d).db.reset <= faults'
          BY <1>0, <5>1, <5>2 DEF WorldOK
        <5>4. Follows(Now(d), Now(d)', up')
          BY <1>3, <5>1, <5>2, FollowsItself
        <5> QED
          BY <5>1, <5>3, <5>4
      <4> QED
        BY <2>2, <4>1, <4>2
    <3>2. CASE r # round
      <4>1. reads'[r] = reads[r]
        BY <1>0, <3>2
      <4> QED
        BY <1>1, <1>2, <1>5, <2>5, <4>1, ReadsLast DEF ReadsOK
    <3> QED
      BY <3>1, <3>2
  <2>6. ASSUME NEW r \in Rounds, NEW s \in Rounds, r < s, reads'[r] # None, reads'[s] # None
        PROVE  \A d \in DOMAIN reads'[r] \cap DOMAIN reads'[s] :
                 Follows(reads'[r][d], reads'[s][d], TRUE)
    <3>1. r # round
      BY <1>0, <2>4, <2>6
    <3>2. reads'[r] = reads[r]
      BY <1>0, <3>1
    <3>3. CASE s = round
      <4> TAKE d \in DOMAIN reads'[r] \cap DOMAIN reads'[s]
      <4>1. d \in DBs /\ reads'[s][d] = Now(d)
        BY <2>1, <2>2, <3>3
      <4>2. Follows(reads[r][d], Now(d), up)
        BY <2>6, <3>2 DEF ReadsOK
      <4>3. up = TRUE
        BY <1>1 DEF WorldOK
      <4> QED
        BY <3>2, <4>1, <4>2, <4>3
    <3>4. CASE s # round
      <4>1. reads'[s] = reads[s]
        BY <1>0, <3>4
      <4> QED
        BY <2>6, <3>2, <4>1 DEF ReadsOK
    <3> QED
      BY <3>3, <3>4
  <2> QED
    BY <2>3, <2>4, <2>5, <2>6 DEF ReadsOK
<1> QED
  BY <1>6, <1>7

\* No other step changes what was read.
LEMMA ReadsKept ==
  ASSUME [Next]_vars
  PROVE  \/ Lists
         \/ reads' = reads
<1>1. CASE ReadPart
  <2>1. CASE PartRead
    BY <1>1, <2>1 DEF PartRead, Lists
  <2>2. CASE PartFails
    BY <2>2 DEF PartFails
  <2> QED
    BY <1>1, <2>1, <2>2 DEF ReadPart
<1>2. CASE Server
  BY <1>2 DEF Server, Stop, Boot, BackendExits, Work, Alter
<1>3. CASE Connect \/ Retry \/ Close \/ Database \/ DatabasesDone \/ EndRound \/ Publish
  BY <1>3 DEF Connect, Retry, Close, Database, DatabasesDone, EndRound, Publish
<1>4. CASE Cancel \/ BeginRound \/ Return \/ UNCHANGED vars
  BY <1>4 DEF Cancel, BeginRound, Return, vars
<1> QED
  BY <1>1, <1>2, <1>3, <1>4 DEF Next, Collect, Stopped

\* Rounds and failures only add up.
LEMMA TimePasses ==
  ASSUME CtlOK, WorldOK, [Next]_vars
  PROVE  /\ round \in Nat /\ round' \in Nat /\ round <= round' /\ faults <= faults'
         /\ BeginRound \/ round' = round
<1>0. round \in Nat /\ faults \in Nat
  BY DEF CtlOK, WorldOK
<1>1. CASE Server
  <2>1. round' = round
    BY <1>1 DEF Server, Stop, Boot, BackendExits, Work, Alter
  <2>2. faults' \in {faults, faults + 1}
    BY <1>1 DEF Server, Stop, Boot, BackendExits, Work, Alter, Change, Fault, bounds
  <2> QED
    BY <1>0, <2>1, <2>2
<1>2. CASE Connect \/ Retry \/ ReadPart
  <2>1. round' = round
    BY <1>2 DEF Connect, Retry, ReadPart
  <2>2. faults' \in {faults, faults + 1}
    BY <1>2, FaultSteps
  <2> QED
    BY <1>0, <2>1, <2>2
<1>3. CASE Close \/ Database \/ DatabasesDone \/ EndRound \/ Publish \/ Cancel \/ Return
           \/ UNCHANGED vars
  <2>1. round' = round /\ faults' = faults
    BY <1>3 DEF Close, Database, DatabasesDone, EndRound, Publish, Cancel, Return, vars, bounds
  <2> QED
    BY <1>0, <2>1
<1>4. CASE BeginRound
  <2>1. round' = round + 1 /\ faults' = faults
    BY <1>4 DEF BeginRound, bounds
  <2> QED
    BY <1>0, <1>4, <2>1
<1> QED
  BY <1>1, <1>2, <1>3, <1>4 DEF Next, Collect, Stopped

LEMMA NextReads ==
  CtlOK /\ WorldOK /\ ReadsOK /\ [Next]_vars => WorldOK' /\ ReadsOK'
<1> SUFFICES ASSUME CtlOK, WorldOK, ReadsOK, [Next]_vars PROVE WorldOK' /\ ReadsOK'
  OBVIOUS
<1>1. WorldOK' /\ Lasts
  BY NextWorld
<1>2. CASE Lists
  BY <1>1, <1>2, ListsReadsOK
<1>3. CASE reads' = reads
  BY <1>1, <1>3, TimePasses, ReadsSame
<1> QED
  BY <1>1, <1>2, <1>3, ReadsKept

LEMMA SpecReads == Spec => [](CtlOK /\ WorldOK /\ ReadsOK)
<1>1. Init => WorldOK /\ ReadsOK
  BY InitWorld
<1> QED
  BY <1>1, InitCtl, NextCtl, NextReads, PTL DEF Spec

(***************************************************************************)
(* What the round has read.                                                *)
(***************************************************************************)
\* A step that reads nothing of the databases and stays within the round.
LEMMA RowsSame ==
  ASSUME RowsOK, UNCHANGED <<srvStart, rows, todo, reads, round>>,
         pc' = "read" /\ target' = Maintenance /\ conn' = "open" /\ srvStart # None =>
           srvStart = started',
         InRound' => InRound,
         pc' = "end" /\ reads[round] # None => todo = {}
  PROVE  RowsOK'
  BY DEF RowsOK

LEMMA ServerRows == ASSUME CtlOK, RowsOK, Server \/ Cancel \/ UNCHANGED vars PROVE RowsOK'
<1>1. UNCHANGED <<srvStart, rows, todo, reads, round, pc, target>>
  BY DEF Server, Stop, Boot, BackendExits, Work, Alter, Cancel, vars, session, result
<1>2. conn' = "open" => conn = "open"
  BY DEF Server, Stop, Boot, BackendExits, Work, Alter, Cancel, vars, session
<1>3. conn' = "open" => started' = started
  <2>1. CASE Boot
    <3>1. ~up /\ conn' = conn
      BY <2>1 DEF Boot, session
    <3> QED
      BY <3>1 DEF CtlOK
  <2>2. CASE ~Boot
    BY <2>2 DEF Server, Stop, BackendExits, Work, Alter, Cancel, vars, world
  <2> QED
    BY <2>1, <2>2
<1>4. InRound' => InRound
  BY <1>1 DEF InRound
<1>5. pc' = "end" /\ reads[round] # None => todo = {}
  BY <1>1 DEF RowsOK
<1>6. pc' = "read" /\ target' = Maintenance /\ conn' = "open" /\ srvStart # None =>
        srvStart = started'
  BY <1>1, <1>2, <1>3 DEF RowsOK
<1> QED
  BY <1>1, <1>4, <1>5, <1>6, RowsSame

LEMMA BeginRoundRows == ASSUME CtlOK, ReadsOK, RowsOK, BeginRound PROVE RowsOK'
<1>1. /\ pc' = "connect" /\ round' = round + 1 /\ UNCHANGED <<srvStart, rows, todo, reads>>
      /\ srvStart = None /\ rows = None /\ round < MaxRounds
  BY DEF BeginRound, Between, At, Goto, result, CtlOK
<1>2. round' \in Rounds /\ round' > round
  BY <1>1, PostgresAssumption DEF CtlOK, Rounds
<1>3. reads'[round'] = None
  BY <1>1, <1>2 DEF ReadsOK
<1> QED
  BY <1>1, <1>3 DEF RowsOK

LEMMA IdleRows == ASSUME CtlOK, RowsOK, Return \/ Publish PROVE RowsOK'
<1>1. UNCHANGED <<srvStart, rows, todo, reads, round>> /\ pc' \in {"idle", "done"}
  BY DEF Return, Publish, Goto, result
<1> QED
  BY <1>1, RowsSame DEF InRound

LEMMA ConnectRows == ASSUME CtlOK, RowsOK, Connect \/ Retry PROVE RowsOK'
<1>1. UNCHANGED <<srvStart, rows, todo, reads, round, target>> /\ pc \in {"connect", "retry"}
  BY ConnectSteps DEF result
<1>2. target = Maintenance => srvStart = None /\ rows = None
  BY <1>1 DEF CtlOK, ServerPhase
<1>3. InRound
  BY <1>1 DEF InRound
<1>4. target = Maintenance => reads[round] = None
  BY <1>2, <1>3 DEF RowsOK
<1>5. pc' = "end" => target = Maintenance
  BY ConnectSteps DEF Connected, ConnectFailed, Goto
<1> QED
  BY <1>1, <1>2, <1>3, <1>4, <1>5, RowsSame

LEMMA CloseRows == ASSUME CtlOK, RowsOK, Close PROVE RowsOK'
<1>1. /\ UNCHANGED <<srvStart, rows, todo, reads, round, target>> /\ pc = "close"
      /\ pc' = IF rows = None THEN "end" ELSE "db"
  BY DEF Close, At, Goto, result
<1>2. InRound
  BY <1>1 DEF InRound
<1>3. pc' = "end" => reads[round] = None
  BY <1>1, <1>2 DEF RowsOK
<1> QED
  BY <1>1, <1>2, <1>3, RowsSame

LEMMA DatabaseRows == ASSUME CtlOK, RowsOK, Database PROVE RowsOK'
<1>1. /\ UNCHANGED <<srvStart, rows, reads, round>> /\ pc = "db" /\ pc' \in {"connect", "db"}
      /\ todo' \subseteq todo
  BY DatabaseSteps
<1> QED
  BY <1>1 DEF RowsOK, InRound

LEMMA EndRows == ASSUME CtlOK, RowsOK, DatabasesDone \/ EndRound PROVE RowsOK'
<1>1. CASE DatabasesDone
  <2>1. UNCHANGED <<srvStart, rows, todo, reads, round>> /\ pc' = "end" /\ todo = {}
    BY <1>1 DEF DatabasesDone, Goto, result
  <2> QED
    BY <2>1, RowsSame DEF InRound
<1>2. CASE EndRound
  <2>1. srvStart' = None /\ rows' = None /\ pc' \in {"idle", "publish"}
    BY <1>2 DEF EndRound, Goto
  <2> QED
    BY <2>1 DEF RowsOK, InRound
<1> QED
  BY <1>1, <1>2

\* The start time of the server is read before anything else.
LEMMA ServerPart ==
  ASSUME CtlOK, ReadPart, Part = "server"
  PROVE  step = 1 /\ target = Maintenance /\ rows = None
<1>1. pc = "read" /\ step \in 1..Len(Plan)
  BY DEF ReadPart, At, CtlOK
<1>2. step = 1
  BY <1>1, PlanFacts DEF Part
<1>3. target = Maintenance
  BY <1>2 DEF Part, Plan, TableParts
<1> QED
  BY <1>1, <1>2, <1>3 DEF CtlOK

LEMMA DatabasesPart == ASSUME CtlOK, Lists PROVE target = Maintenance
<1>1. pc = "read" /\ step \in 1..Len(Plan) /\ Part = "databases"
  BY DEF Lists, ReadPart, At, CtlOK
<1> QED
  BY <1>1, PlanFacts DEF Part

LEMMA ListsRows == ASSUME CtlOK, WorldOK, ReadsOK, RowsOK, Lists PROVE RowsOK'
<1>0. /\ round \in Rounds /\ conn = "open" /\ round' = round /\ UNCHANGED world
      /\ reads'[round] = NewReading /\ target' = target
  BY ListsReads
<1>1. /\ pc = "read" /\ pc' \in {"read", "close"} /\ srvStart' = srvStart /\ target = Maintenance
      /\ rows' = [d \in Listed |-> dbs[d]] /\ todo' = Listed
  BY DatabasesPart DEF Lists, ReadPart, PartRead, At, Goto
<1>2. started' = started
  BY <1>0 DEF world
<1>3. Listed \in SUBSET DBs
  BY DEF Listed
<1>4. rows' # None /\ DOMAIN rows' = Listed
  <2>1. rows' \in [Listed -> Row]
    BY <1>1, <1>3 DEF WorldOK
  <2> QED
    BY <1>1, <1>3, <2>1, NoneAssumption
<1>5. CASE srvStart = None
  <2>1. reads'[round'] = None
    BY <1>0, <1>5 DEF NewReading
  <2> QED
    BY <1>1, <1>3, <1>4, <1>5, <2>1 DEF RowsOK
<1>6. CASE srvStart # None
  <2>1. srvStart = started
    BY <1>0, <1>1, <1>6 DEF RowsOK
  <2>2. reads'[round'] = [d \in Listed |-> Now(d)]
    BY <1>0, <1>6 DEF NewReading
  <2>3. reads'[round'] # None /\ DOMAIN reads'[round'] = Listed
    <3>1. reads'[round'] \in [Listed -> Reading]
      BY <1>3, <2>2, NowReading
    <3> QED
      BY <1>3, <2>2, <3>1, NoneAssumption
  <2>4. \A d \in DOMAIN rows' : rows'[d] = reads'[round'][d].db
                                /\ srvStart' = reads'[round'][d].start
    <3> TAKE d \in DOMAIN rows'
    <3>1. d \in Listed /\ d \in DBs
      BY <1>3, <1>4
    <3>2. reads'[round'][d] = Now(d) /\ Now(d).db = dbs[d] /\ Now(d).start = started
      BY <2>2, <3>1, NowReading
    <3> QED
      BY <1>1, <2>1, <3>1, <3>2
  <2>5. srvStart' \in Nat \cup {None}
    BY <1>1 DEF RowsOK
  <2> QED
    BY <1>1, <1>2, <1>3, <1>4, <1>6, <2>1, <2>3, <2>4, <2>5 DEF RowsOK
<1> QED
  BY <1>5, <1>6

LEMMA ReadPartRows == ASSUME CtlOK, WorldOK, ReadsOK, RowsOK, ReadPart PROVE RowsOK'
<1>0. /\ pc = "read" /\ pc' \in {"read", "close"} /\ UNCHANGED <<round, target, conn, started>>
      /\ round \in Rounds
  BY DEF ReadPart, At, Goto, world, CtlOK, Rounds
<1>1. InRound
  BY <1>0 DEF InRound
<1>2. CASE Lists
  BY <1>2, ListsRows
<1>3. CASE UNCHANGED <<srvStart, rows, todo, reads>>
  <2>1. pc' = "read" /\ target' = Maintenance /\ conn' = "open" /\ srvStart # None =>
          srvStart = started'
    BY <1>0 DEF RowsOK
  <2> QED
    BY <1>0, <1>1, <1>3, <2>1, RowsSame
<1>4. CASE PartRead /\ Part = "server"
  <2>1. rows = None /\ srvStart' = started /\ UNCHANGED <<rows, reads, todo>>
    BY <1>4, ServerPart DEF PartRead
  <2>2. reads[round] = None
    BY <1>1, <2>1 DEF RowsOK
  <2>3. srvStart' \in Nat
    BY <2>1 DEF WorldOK
  <2> QED
    BY <1>0, <2>1, <2>2, <2>3 DEF RowsOK
<1> QED
  BY <1>2, <1>3, <1>4 DEF ReadPart, Lists, PartRead, PartFails, result

LEMMA InitRows == Init => RowsOK
<1> SUFFICES ASSUME Init PROVE RowsOK
  OBVIOUS
<1>1. srvStart = None /\ rows = None /\ pc = "idle"
  BY DEF Init
<1> QED
  BY <1>1 DEF RowsOK, InRound

LEMMA NextRows == CtlOK /\ WorldOK /\ ReadsOK /\ RowsOK /\ [Next]_vars => RowsOK'
  BY ServerRows, BeginRoundRows, IdleRows, ConnectRows, CloseRows, DatabaseRows, EndRows,
     ReadPartRows DEF Next, Collect, Stopped

(***************************************************************************)
(* The samples the engine keeps.                                           *)
(***************************************************************************)
LEMMA SamplesSame ==
  ASSUME SamplesOK, UNCHANGED <<prev, next, round, reads, rows, srvStart, todo>>,
         InRound' => InRound, InRound /\ ~InRound' => reads[round] = None
  PROVE  SamplesOK'
<1>1. PrevOK'
  BY DEF SamplesOK, PrevOK, SampleOf, Sampled
<1>2. NextOK'
  BY DEF SamplesOK, NextOK, SampleOf, Sampled
<1>3. \A r \in Rounds \cup {0} : Kept(r)' <=> Kept(r)
  BY DEF Kept
<1>4. KeptOK'
  <2>1. CASE InRound /\ ~InRound'
    BY <2>1 DEF KeptOK, Kept
  <2>2. CASE InRound' <=> InRound
    BY <2>2 DEF SamplesOK, KeptOK, Kept
  <2> QED
    BY <2>1, <2>2
<1> QED
  BY <1>1, <1>2, <1>4 DEF SamplesOK

LEMMA ServerSamples ==
  ASSUME SamplesOK, Server \/ Cancel \/ UNCHANGED vars PROVE SamplesOK'
<1>1. UNCHANGED <<prev, next, round, reads, rows, srvStart, todo, pc>>
  BY DEF Server, Stop, Boot, BackendExits, Work, Alter, Cancel, vars, result, memory
<1> QED
  BY <1>1, SamplesSame DEF InRound

LEMMA ConnectSamples == ASSUME CtlOK, RowsOK, SamplesOK, Connect \/ Retry PROVE SamplesOK'
<1>1. UNCHANGED <<next, round, reads, rows, srvStart, todo>> /\ pc \in {"connect", "retry"}
  BY ConnectSteps DEF result
<1>2. prev' = prev
  BY ConnectSteps DEF Connected, Readable, ConnectFailed, Failed, memory
<1>3. InRound
  BY <1>1 DEF InRound
<1>4. ~InRound' => target = Maintenance
  BY <1>1, ConnectSteps DEF Connected, ConnectFailed, Goto, InRound
<1>5. target = Maintenance => reads[round] = None
  BY <1>1, <1>3 DEF CtlOK, ServerPhase, RowsOK
<1> QED
  BY <1>1, <1>2, <1>3, <1>4, <1>5, SamplesSame

LEMMA CloseSamples == ASSUME RowsOK, SamplesOK, Close PROVE SamplesOK'
<1>1. /\ UNCHANGED <<prev, next, round, reads, rows, srvStart, todo>> /\ pc = "close"
      /\ pc' = IF rows = None THEN "end" ELSE "db"
  BY DEF Close, At, Goto, result, memory
<1>2. InRound
  BY <1>1 DEF InRound
<1>3. ~InRound' => reads[round] = None
  BY <1>1, <1>2 DEF RowsOK, InRound
<1> QED
  BY <1>1, <1>2, <1>3, SamplesSame

LEMMA IdleSamples == ASSUME SamplesOK, Return \/ Publish PROVE SamplesOK'
<1>1. UNCHANGED <<prev, next, round, reads, rows, srvStart, todo>>
      /\ pc \in {"idle", "publish"} /\ pc' \in {"idle", "done"}
  BY DEF Return, Publish, At, Goto, result, memory
<1> QED
  BY <1>1, SamplesSame DEF InRound

LEMMA EndRoundSamples == ASSUME SamplesOK, EndRound PROVE SamplesOK'
<1>1. /\ UNCHANGED <<prev, round, reads>> /\ pc = "end" /\ pc' \in {"idle", "publish"}
      /\ rows' = None /\ next' = Nothing
  BY DEF EndRound, At, Goto
<1>2. PrevOK'
  BY <1>1 DEF SamplesOK, PrevOK, SampleOf, Sampled, InRound
<1>3. NextOK'
  BY <1>1, NothingIsEmpty DEF NextOK
<1>4. KeptOK'
  BY <1>1 DEF SamplesOK, KeptOK, Kept, InRound
<1> QED
  BY <1>2, <1>3, <1>4 DEF SamplesOK

LEMMA BeginRoundSamples == ASSUME CtlOK, SamplesOK, BeginRound PROVE SamplesOK'
<1>1. /\ UNCHANGED <<prev, reads, next, rows>> /\ pc = "idle" /\ pc' = "connect"
      /\ rows = None /\ next = Nothing /\ round' = round + 1 /\ round \in Nat
  BY DEF BeginRound, Between, At, Goto, result, CtlOK
<1>2. PrevOK'
  <2> SUFFICES ASSUME NEW d \in DOMAIN prev
               PROVE  /\ prev[d] = SampleOf(d, prev[d].at) /\ Sampled(d, prev[d].at)
                      /\ prev[d].at <= round' /\ prev[d].at < round'
    BY <1>1 DEF PrevOK, SampleOf, Sampled
  <2>1. prev[d] = SampleOf(d, prev[d].at) /\ Sampled(d, prev[d].at) /\ prev[d].at <= round
    BY DEF SamplesOK, PrevOK
  <2>2. prev[d].at \in Nat
    BY <2>1 DEF Sampled, Rounds
  <2> QED
    BY <1>1, <2>1, <2>2
<1>3. NextOK'
  BY <1>1, NothingIsEmpty DEF NextOK
<1>4. KeptOK'
  <2>1. round > 0 => Kept(round)
    BY <1>1 DEF SamplesOK, KeptOK, InRound
  <2>2. round' - 1 = round /\ (round' > 1 => round > 0)
    BY <1>1
  <2>3. InRound'
    BY <1>1 DEF InRound
  <2> SUFFICES ASSUME round > 0, reads[round] # None, NEW d \in DOMAIN reads[round],
                      reads[round][d].db.stats # None
               PROVE  d \in DOMAIN prev /\ prev[d].at = round
    BY <1>1, <2>2, <2>3 DEF KeptOK, Kept
  <2> QED
    BY <2>1 DEF Kept
<1> QED
  BY <1>2, <1>3, <1>4 DEF SamplesOK

LEMMA DatabasesDoneSamples ==
  ASSUME CtlOK, RowsOK, SamplesOK, DatabasesDone PROVE SamplesOK'
<1>1. /\ UNCHANGED <<next, round, reads, rows, srvStart, todo>> /\ pc = "db" /\ pc' = "end"
      /\ todo = {} /\ prev' = IF srvStart = None THEN prev ELSE next
  BY DEF DatabasesDone, At, Goto, result
<1>2. InRound /\ ~InRound' /\ round \in Nat
  BY <1>1 DEF InRound, CtlOK
<1>3. NextOK'
  BY <1>1 DEF SamplesOK, NextOK, SampleOf, Sampled
<1>4. CASE srvStart = None
  <2>1. reads[round] = None
    BY <1>2, <1>4 DEF RowsOK
  <2> QED
    BY <1>1, <1>2, <1>4, <2>1, SamplesSame
<1>5. CASE srvStart # None
  <2>1. prev' = next
    BY <1>1, <1>5
  <2>2. \A d \in DOMAIN next : next[d].at = round
    BY DEF SamplesOK, NextOK, SampleOf
  <2>3. PrevOK'
    <3> SUFFICES ASSUME NEW d \in DOMAIN next
                 PROVE  /\ next[d] = SampleOf(d, next[d].at) /\ Sampled(d, next[d].at)
                        /\ next[d].at <= round
      BY <1>1, <1>2, <2>1 DEF PrevOK, SampleOf, Sampled
    <3> QED
      BY <1>2, <2>2 DEF SamplesOK, NextOK
  <2>4. KeptOK'
    <3> SUFFICES ASSUME reads[round] # None, NEW d \in DOMAIN reads[round],
                        reads[round][d].db.stats # None
                 PROVE  d \in DOMAIN next /\ next[d].at = round
      BY <1>1, <1>2, <2>1 DEF KeptOK, Kept
    <3>1. rows # None /\ round \in Rounds
      BY <1>1, <1>2 DEF RowsOK, CtlOK, Rounds
    <3>2. d \in DOMAIN rows /\ rows[d] = reads[round][d].db
      BY <1>5, <3>1 DEF RowsOK
    <3>3. d \in DOMAIN next
      BY <1>1, <1>5, <3>1, <3>2 DEF SamplesOK, NextOK
    <3> QED
      BY <2>2, <3>3
  <2> QED
    BY <1>3, <2>3, <2>4 DEF SamplesOK
<1> QED
  BY <1>4, <1>5

\* The row of database d in this round, as a sample of it.
LEMMA SampleNow ==
  ASSUME RowsOK, round \in Rounds, rows # None, NEW d \in DOMAIN rows, Measured(d)
  PROVE  Sample(d) = SampleOf(d, round) /\ Sampled(d, round)
<1>1. srvStart # None /\ rows[d].stats # None
  BY DEF Measured
<1>2. /\ reads[round] # None /\ d \in DOMAIN reads[round]
      /\ rows[d] = reads[round][d].db /\ srvStart = reads[round][d].start
  BY <1>1 DEF RowsOK
<1>3. Sampled(d, round)
  BY <1>1, <1>2 DEF Sampled
<1>4. Sample(d) = SampleOf(d, round)
  BY <1>2 DEF Sample, SampleOf
<1> QED
  BY <1>3, <1>4

LEMMA DatabaseSamples == ASSUME CtlOK, RowsOK, SamplesOK, Database PROVE SamplesOK'
<1> DEFINE d == Chosen
<1>0. /\ d \in todo /\ pc = "db" /\ rows # None /\ pc' \in {"connect", "db"}
      /\ todo' = todo \ {d} /\ next' = NextSamples(d)
      /\ UNCHANGED <<round, reads, srvStart, rows, prev>>
  BY DatabaseSteps DEF memory
<1> HIDE DEF d
<1>1. InRound /\ InRound' /\ round \in Rounds /\ d \in DOMAIN rows
  BY <1>0 DEF InRound, CtlOK, Rounds, RowsOK
<1>2. PrevOK'
  BY <1>0, <1>1 DEF SamplesOK, PrevOK, SampleOf, Sampled
<1>3. KeptOK'
  BY <1>0, <1>1 DEF SamplesOK, KeptOK, Kept
<1>4. CASE Measured(d)
  <2>1. Sample(d) = SampleOf(d, round) /\ Sampled(d, round)
    BY <1>0, <1>1, <1>4, SampleNow
  <2>2. /\ DOMAIN next' = DOMAIN next \cup {d} /\ next'[d] = Sample(d)
        /\ \A x \in DOMAIN next : x # d => next'[x] = next[x]
    BY <1>0, <1>4 DEF NextSamples
  <2>3. \A x \in DOMAIN next' : next'[x] = SampleOf(x, round) /\ Sampled(x, round)
    BY <2>1, <2>2 DEF SamplesOK, NextOK
  <2>4. rows # None /\ srvStart # None =>
          \A x \in DOMAIN rows \ todo' : rows[x].stats # None => x \in DOMAIN next'
    BY <1>0, <2>2 DEF SamplesOK, NextOK
  <2>5. NextOK'
    BY <1>0, <2>3, <2>4 DEF NextOK, SampleOf, Sampled
  <2> QED
    BY <1>2, <1>3, <2>5 DEF SamplesOK
<1>5. CASE ~Measured(d)
  <2>1. next' = next
    BY <1>0, <1>5 DEF NextSamples
  <2>2. rows # None /\ srvStart # None =>
          \A x \in DOMAIN rows \ todo' : rows[x].stats # None => x \in DOMAIN next
    BY <1>0, <1>5 DEF SamplesOK, NextOK, Measured
  <2>3. NextOK'
    BY <1>0, <2>1, <2>2 DEF SamplesOK, NextOK, SampleOf, Sampled
  <2> QED
    BY <1>2, <1>3, <2>3 DEF SamplesOK
<1> QED
  BY <1>4, <1>5

LEMMA ReadPartSamples ==
  ASSUME CtlOK, WorldOK, ReadsOK, RowsOK, SamplesOK, ReadPart PROVE SamplesOK'
<1>0. /\ pc = "read" /\ pc' \in {"read", "close"} /\ round' = round /\ UNCHANGED <<prev, next>>
      /\ round \in Rounds /\ InRound /\ InRound'
  BY DEF ReadPart, PartRead, PartFails, Readable, Failed, At, Goto, result, CtlOK, Rounds, InRound
<1>1. CASE UNCHANGED <<srvStart, rows, todo, reads>>
  BY <1>0, <1>1, SamplesSame
<1>2. CASE PartRead /\ Part = "server"
  <2>1. rows = None /\ UNCHANGED <<rows, reads>>
    BY <1>2, ServerPart DEF PartRead
  <2>2. PrevOK' /\ KeptOK'
    BY <1>0, <2>1 DEF SamplesOK, PrevOK, KeptOK, Kept, SampleOf, Sampled
  <2>3. NextOK'
    BY <1>0, <2>1 DEF SamplesOK, NextOK, SampleOf, Sampled
  <2> QED
    BY <2>2, <2>3 DEF SamplesOK
<1>3. CASE Lists
  <2>1. target = Maintenance /\ \A r \in Rounds : r # round => reads'[r] = reads[r]
    BY <1>3, ListsReads, DatabasesPart
  <2>2. next = Nothing
    BY <1>0, <2>1 DEF CtlOK
  <2>3. rows' = [d \in Listed |-> dbs[d]] /\ todo' = Listed
    BY <1>3 DEF Lists, PartRead
  <2>4. NextOK'
    BY <1>0, <2>2, <2>3, NothingIsEmpty DEF NextOK
  <2>5. PrevOK'
    <3>1. ASSUME NEW d \in DOMAIN prev
          PROVE  /\ (prev[d] = SampleOf(d, prev[d].at))' /\ Sampled(d, prev[d].at)'
                 /\ prev[d].at <= round /\ prev[d].at < round
      <4>1. /\ prev[d] = SampleOf(d, prev[d].at) /\ Sampled(d, prev[d].at)
            /\ prev[d].at <= round /\ prev[d].at < round
        BY <1>0 DEF SamplesOK, PrevOK
      <4>2. reads'[prev[d].at] = reads[prev[d].at] /\ prev' = prev
        BY <1>0, <2>1, <4>1 DEF Sampled, Rounds
      <4> QED
        BY <4>1, <4>2 DEF SampleOf, Sampled
    <3> QED
      BY <1>0, <3>1 DEF PrevOK
  <2>6. KeptOK'
    <3>1. round > 1 => reads'[round - 1] = reads[round - 1]
      BY <1>0, <2>1, PostgresAssumption DEF Rounds
    <3> QED
      BY <1>0, <3>1 DEF SamplesOK, KeptOK, Kept
  <2> QED
    BY <2>4, <2>5, <2>6 DEF SamplesOK
<1> QED
  BY <1>1, <1>2, <1>3 DEF ReadPart, Lists, PartRead, PartFails, result

LEMMA InitSamples == Init => SamplesOK
<1> SUFFICES ASSUME Init PROVE SamplesOK
  OBVIOUS
<1>1. prev = Nothing /\ next = Nothing /\ rows = None /\ pc = "idle" /\ round = 0
  BY DEF Init
<1> QED
  BY <1>1, NothingIsEmpty DEF SamplesOK, PrevOK, NextOK, KeptOK, InRound

LEMMA NextSamplesOK ==
  CtlOK /\ WorldOK /\ ReadsOK /\ RowsOK /\ SamplesOK /\ [Next]_vars => SamplesOK'
  BY ServerSamples, BeginRoundSamples, IdleSamples, ConnectSamples, CloseSamples,
     DatabaseSamples, DatabasesDoneSamples, EndRoundSamples, ReadPartSamples
  DEF Next, Collect, Stopped

(***************************************************************************)
(* The activity that is published.                                         *)
(***************************************************************************)
\* The difference of two samples is what happened between the readings, or no more than
\* that if the database was created again.
LEMMA DiffExact ==
  ASSUME NEW o \in Reading, NEW n \in Reading, Follows(o, n, TRUE), NEW k \in Counters,
         o.db.stats # None, n.db.stats # None, o.db.reset = n.db.reset, o.start = n.start,
         n.db.stats[k] >= o.db.stats[k]
  PROVE  LET delta == n.db.stats[k] - o.db.stats[k]
             happened == n.total[k] - o.total[k]
         IN  delta \in 0..happened /\ (n.db.inc = o.db.inc => delta = happened)
<1>1. /\ n.db.stats[k] \in Nat /\ o.db.stats[k] \in Nat /\ n.total[k] \in Nat
      /\ o.total[k] \in Nat
  BY ReadingFields
<1>2. o.total[k] <= n.total[k]
  BY DEF Follows
<1>3. CASE n.db.inc = o.db.inc
  <2>1. n.db.stats[k] + o.total[k] = o.db.stats[k] + n.total[k]
    BY <1>3 DEF Follows
  <2> QED
    BY <1>1, <1>2, <2>1
<1>4. CASE n.db.inc # o.db.inc
  <2>1. n.db.stats[k] + o.total[k] <= n.total[k]
    BY <1>4 DEF Follows
  <2> QED
    BY <1>1, <1>4, <2>1
<1> QED
  BY <1>3, <1>4

\* Where nothing lies between two readings the counters have not gone back.
LEMMA CountersGrow ==
  ASSUME NEW o \in Reading, NEW n \in Reading, Follows(o, n, TRUE), Unbroken(o, n)
  PROVE  \A k \in Counters : n.db.stats[k] >= o.db.stats[k]
<1> TAKE k \in Counters
<1>1. /\ n.db.stats[k] \in Nat /\ o.db.stats[k] \in Nat /\ n.total[k] \in Nat
      /\ o.total[k] \in Nat
  BY ReadingFields DEF Unbroken
<1>2. o.total[k] <= n.total[k] /\ n.db.stats[k] + o.total[k] = o.db.stats[k] + n.total[k]
  BY DEF Follows, Unbroken
<1> QED
  BY <1>1, <1>2

\* A step that leaves the activities and the readings alone.
LEMMA ActivitySame ==
  ASSUME ActivityOK, UNCHANGED <<round, reads>>, DOMAIN event'.dbs = DOMAIN event.dbs,
         \A d \in DOMAIN event.dbs : event'.dbs[d].activity = event.dbs[d].activity,
         reads[round] # None => todo' = todo
  PROVE  ActivityOK'
<1>1. ExactOK'
  BY DEF ActivityOK, ExactOK, Activity, Before
<1>2. DoneOK'
  BY DEF ActivityOK, DoneOK
<1>3. PresentOK'
  BY DEF ActivityOK, PresentOK, Activity, Unbroken
<1> QED
  BY <1>1, <1>2, <1>3 DEF ActivityOK

LEMMA PlainActivity ==
  ASSUME ActivityOK,
         Server \/ Cancel \/ UNCHANGED vars \/ Return \/ Publish \/ Close \/ DatabasesDone
  PROVE  ActivityOK'
<1>1. CASE Server \/ Cancel \/ UNCHANGED vars
  <2>1. UNCHANGED <<round, reads, event, todo>>
    BY <1>1 DEF Server, Stop, Boot, BackendExits, Work, Alter, Cancel, vars, result
  <2> QED
    BY <2>1, ActivitySame
<1>2. CASE Return \/ Publish \/ Close \/ DatabasesDone
  <2>1. UNCHANGED <<round, reads, event, todo>>
    BY <1>2 DEF Return, Publish, Close, DatabasesDone, result
  <2> QED
    BY <2>1, ActivitySame
<1> QED
  BY <1>1, <1>2

LEMMA EndRoundActivity == ASSUME RowsOK, ActivityOK, EndRound PROVE ActivityOK'
<1>1. UNCHANGED <<round, reads, event>> /\ pc = "end" /\ todo' = {}
  BY DEF EndRound, At
<1>2. reads[round] # None => todo = {}
  BY <1>1 DEF RowsOK
<1> QED
  BY <1>1, <1>2, ActivitySame

LEMMA BeginRoundActivity == ASSUME CtlOK, ReadsOK, BeginRound PROVE ActivityOK'
<1>1. event' = NoEvent /\ round' = round + 1 /\ round < MaxRounds /\ reads' = reads
  BY DEF BeginRound, Between
<1>2. round' \in Rounds /\ round' > round
  BY <1>1, PostgresAssumption DEF CtlOK, Rounds
<1>3. reads'[round'] = None
  BY <1>1, <1>2 DEF ReadsOK
<1>4. DOMAIN event'.dbs = {}
  BY <1>1, NothingIsEmpty DEF NoEvent
<1> QED
  BY <1>3, <1>4 DEF ActivityOK, ExactOK, DoneOK, PresentOK

\* Connecting to a database and reading its tables leave its activity alone.
LEMMA TablesActivity ==
  ASSUME ShapeOK, NEW t \in DOMAIN event.dbs, NEW h, NEW e,
         \/ event' = [event EXCEPT !.dbs[t].have = h] /\ e = event.dbs[t].errs
         \/ event' = [event EXCEPT !.dbs[t].errs = e] /\ h = event.dbs[t].have
  PROVE  /\ DOMAIN event'.dbs = DOMAIN event.dbs
         /\ \A d \in DOMAIN event.dbs : event'.dbs[d].activity = event.dbs[d].activity
<1>1. event'.dbs = [event.dbs EXCEPT ![t] =
                      [activity |-> event.dbs[t].activity, have |-> h, errs |-> e]]
  BY SetTables
<1> QED
  BY <1>1

LEMMA ConnectActivity == ASSUME CtlOK, EventOK, ActivityOK, Connect \/ Retry PROVE ActivityOK'
<1>0. UNCHANGED <<round, reads, todo>>
  BY ConnectSteps DEF result
<1>1. CASE event'.dbs = event.dbs
  BY <1>0, <1>1, ActivitySame
<1>2. ASSUME NEW o, ConnectFailed(o), target # Maintenance PROVE ActivityOK'
  <2>1. PICK h, e : /\ h = event.dbs[target].have /\ e = {"connect"}
                    /\ event' = [event EXCEPT !.dbs[target].errs = e]
    BY <1>2 DEF ConnectFailed
  <2>2. \/ event' = [event EXCEPT !.dbs[target].have = h] /\ e = event.dbs[target].errs
        \/ event' = [event EXCEPT !.dbs[target].errs = e] /\ h = event.dbs[target].have
    BY <2>1
  <2>3. target \in DOMAIN event.dbs /\ ShapeOK
    BY <1>2 DEF EventOK, ReachOK
  <2>4. /\ DOMAIN event'.dbs = DOMAIN event.dbs
        /\ \A d \in DOMAIN event.dbs : event'.dbs[d].activity = event.dbs[d].activity
    BY <2>2, <2>3, TablesActivity
  <2> QED
    BY <1>0, <2>4, ActivitySame
<1>3. ASSUME NEW o, ConnectFailed(o), target = Maintenance PROVE event'.dbs = event.dbs
  BY <1>3, SetUp DEF ConnectFailed, EventOK
<1>4. ASSUME Connected PROVE event'.dbs = event.dbs
  BY <1>4, SetConnected DEF Connected, EventOK
<1>5. pc' \in {"connect", "retry"} /\ UNCHANGED <<conn, event, memory, log, cut>> =>
        event'.dbs = event.dbs
  OBVIOUS
<1> QED
  BY <1>1, <1>2, <1>3, <1>4, <1>5, ConnectSteps

LEMMA ReadPartActivity ==
  ASSUME CtlOK, WorldOK, ReadsOK, RowsOK, EventOK, ActivityOK, ReadPart PROVE ActivityOK'
<1>0. /\ pc = "read" /\ UNCHANGED <<round, target>> /\ round \in Rounds
      /\ PartRead \/ PartFails
  BY DEF ReadPart, At, CtlOK, Rounds
<1>1. /\ DOMAIN event'.dbs = DOMAIN event.dbs
      /\ \A d \in DOMAIN event.dbs : event'.dbs[d].activity = event.dbs[d].activity
  <2>1. CASE target = Maintenance
    <3>1. event'.dbs = event.dbs
      <4>1. CASE PartRead
        <5>1. PICK h, e : /\ h = event.have \cup {Part} /\ e = event.errs
                          /\ event' = [event EXCEPT !.have = h]
          BY <2>1, <4>1 DEF PartRead
        <5>2. \/ event' = [event EXCEPT !.have = h] /\ e = event.errs
              \/ event' = [event EXCEPT !.errs = e] /\ h = event.have
          BY <5>1
        <5> QED
          BY <5>2, SetServer DEF EventOK
      <4>2. CASE PartFails
        <5>1. PICK h, e : /\ h = event.have /\ e = event.errs \cup Named(Part)
                          /\ event' = [event EXCEPT !.errs = e]
          BY <2>1, <4>2 DEF PartFails
        <5>2. \/ event' = [event EXCEPT !.have = h] /\ e = event.errs
              \/ event' = [event EXCEPT !.errs = e] /\ h = event.have
          BY <5>1
        <5> QED
          BY <5>2, SetServer DEF EventOK
      <4> QED
        BY <1>0, <4>1, <4>2
    <3> QED
      BY <3>1
  <2>2. CASE target # Maintenance
    <3>1. target \in DOMAIN event.dbs /\ ShapeOK
      BY <2>2 DEF EventOK, ReachOK
    <3>2. CASE PartRead
      <4>1. PICK h, e : /\ h = event.dbs[target].have \cup {Part} /\ e = event.dbs[target].errs
                        /\ event' = [event EXCEPT !.dbs[target].have = h]
        BY <2>2, <3>2 DEF PartRead
      <4>2. \/ event' = [event EXCEPT !.dbs[target].have = h] /\ e = event.dbs[target].errs
            \/ event' = [event EXCEPT !.dbs[target].errs = e] /\ h = event.dbs[target].have
        BY <4>1
      <4> QED
        BY <3>1, <4>2, TablesActivity
    <3>3. CASE PartFails
      <4>1. PICK h, e : /\ h = event.dbs[target].have
                        /\ e = event.dbs[target].errs \cup Named(Part)
                        /\ event' = [event EXCEPT !.dbs[target].errs = e]
        BY <2>2, <3>3 DEF PartFails
      <4>2. \/ event' = [event EXCEPT !.dbs[target].have = h] /\ e = event.dbs[target].errs
            \/ event' = [event EXCEPT !.dbs[target].errs = e] /\ h = event.dbs[target].have
        BY <4>1
      <4> QED
        BY <3>1, <4>2, TablesActivity
    <3> QED
      BY <1>0, <3>2, <3>3
  <2> QED
    BY <2>1, <2>2
<1>2. CASE UNCHANGED <<reads, todo>>
  BY <1>0, <1>1, <1>2, ActivitySame
<1>3. CASE Lists
  <2>1. target = Maintenance /\ reads'[round] = NewReading /\ round' = round
    BY <1>3, ListsReads, DatabasesPart
  <2>2. event.dbs = Nothing
    BY <1>0, <2>1 DEF EventOK, ReachOK, InRound
  <2>3. DOMAIN event'.dbs = {}
    BY <1>1, <2>2, NothingIsEmpty
  <2>4. todo' = Listed
    BY <1>3 DEF Lists, PartRead
  <2>5. reads'[round] # None => DOMAIN reads'[round] = Listed
    BY <2>1 DEF NewReading
  <2> QED
    BY <2>1, <2>3, <2>4, <2>5 DEF ActivityOK, ExactOK, DoneOK, PresentOK
<1> QED
  BY <1>0, <1>2, <1>3 DEF Lists, PartRead, PartFails, result

\* What is published of database d: the window from its last sample, if there is one to
\* compare with.
LEMMA EntryExact ==
  ASSUME CtlOK, ReadsOK, RowsOK, SamplesOK, InRound, rows # None, NEW d \in DOMAIN rows,
         Entry(d).activity # None
  PROVE  \E r \in Rounds :
           /\ r < round /\ reads[r] # None /\ d \in DOMAIN reads[r]
           /\ Entry(d).activity.seconds = round - r
           /\ \A k \in Counters :
                LET delta == Entry(d).activity.delta[k]
                    happened == reads[round][d].total[k] - reads[r][d].total[k]
                IN  /\ delta \in 0..happened
                    /\ reads[round][d].db.inc = reads[r][d].db.inc => delta = happened
<1> DEFINE r == prev[d].at
           o == reads[r][d]
           n == reads[round][d]
<1>0. Measured(d) /\ d \in DOMAIN prev /\ Entry(d).activity = Diff(prev[d], Sample(d))
  BY DEF Entry
<1>1. round \in Rounds
  BY DEF CtlOK, InRound, Rounds
<1>2. Sample(d) = SampleOf(d, round) /\ Sampled(d, round)
  BY <1>0, <1>1, SampleNow
<1>3. prev[d] = SampleOf(d, r) /\ Sampled(d, r) /\ r < round
  BY <1>0 DEF SamplesOK, PrevOK
<1>4. r \in Rounds /\ reads[r] # None /\ d \in DOMAIN reads[r] /\ o.db.stats # None
  BY <1>3 DEF Sampled
<1>5. reads[round] # None /\ d \in DOMAIN reads[round] /\ n.db.stats # None
  BY <1>2 DEF Sampled
<1>6. o \in Reading /\ n \in Reading
  BY <1>1, <1>4, <1>5 DEF ReadsOK
<1>7. Follows(o, n, TRUE)
  BY <1>1, <1>3, <1>4, <1>5 DEF ReadsOK
<1>8. /\ Comparable(prev[d], Sample(d))
      /\ Entry(d).activity =
           [seconds |-> Sample(d).at - prev[d].at,
            delta |-> [k \in Counters |-> Sample(d).stats[k] - prev[d].stats[k]]]
  BY <1>0 DEF Diff
<1>9. /\ Sample(d).at = round /\ Sample(d).stats = n.db.stats /\ Sample(d).reset = n.db.reset
      /\ Sample(d).started = n.start
  BY <1>2 DEF SampleOf
<1>10. prev[d].stats = o.db.stats /\ prev[d].reset = o.db.reset /\ prev[d].started = o.start
  BY <1>3 DEF SampleOf
<1>11. /\ o.db.reset = n.db.reset /\ o.start = n.start
       /\ \A k \in Counters : n.db.stats[k] >= o.db.stats[k]
  BY <1>8, <1>9, <1>10 DEF Comparable
<1>12. /\ Entry(d).activity.seconds = round - r
       /\ \A k \in Counters : Entry(d).activity.delta[k] = n.db.stats[k] - o.db.stats[k]
  <2>1. PICK s, f : /\ Entry(d).activity = [seconds |-> s, delta |-> f]
                    /\ s = Sample(d).at - prev[d].at
                    /\ f = [k \in Counters |-> Sample(d).stats[k] - prev[d].stats[k]]
    BY <1>8
  <2>2. Entry(d).activity.seconds = s /\ Entry(d).activity.delta = f
    BY <2>1
  <2>3. \A k \in Counters : f[k] = n.db.stats[k] - o.db.stats[k]
    BY <1>9, <1>10, <2>1
  <2> QED
    BY <1>9, <2>1, <2>2, <2>3
<1> HIDE DEF r, o, n
<1>13. \A k \in Counters :
         LET delta == Entry(d).activity.delta[k]
             happened == n.total[k] - o.total[k]
         IN  delta \in 0..happened /\ (n.db.inc = o.db.inc => delta = happened)
  <2> TAKE k \in Counters
  <2>1. LET delta == n.db.stats[k] - o.db.stats[k]
            happened == n.total[k] - o.total[k]
        IN  delta \in 0..happened /\ (n.db.inc = o.db.inc => delta = happened)
    BY <1>4, <1>5, <1>6, <1>7, <1>11, DiffExact
  <2>2. Entry(d).activity.delta[k] = n.db.stats[k] - o.db.stats[k]
    BY <1>12
  <2> QED
    BY <2>1, <2>2
<1> QED
  BY <1>3, <1>4, <1>12, <1>13 DEF o, n

\* There is one if the database was read in the round before and nothing lies between.
LEMMA EntryPresent ==
  ASSUME CtlOK, ReadsOK, RowsOK, SamplesOK, InRound, rows # None, NEW d \in DOMAIN rows,
         round > 1, reads[round] # None, reads[round - 1] # None,
         d \in DOMAIN reads[round - 1], d \in DOMAIN reads[round],
         Unbroken(reads[round - 1][d], reads[round][d])
  PROVE  Entry(d).activity # None
<1> DEFINE r == round - 1
           o == reads[r][d]
           n == reads[round][d]
<1>1. round \in Rounds /\ r \in Rounds /\ r < round
  BY PostgresAssumption DEF CtlOK, Rounds
<1>2. srvStart # None /\ rows[d] = n.db
  BY <1>1 DEF RowsOK
<1>3. Measured(d)
  BY <1>2 DEF Measured, Unbroken
<1>4. Sample(d) = SampleOf(d, round)
  BY <1>1, <1>3, SampleNow
<1>5. d \in DOMAIN prev /\ prev[d].at = r
  BY DEF SamplesOK, KeptOK, Kept, Unbroken
<1>6. prev[d] = SampleOf(d, r)
  BY <1>5 DEF SamplesOK, PrevOK
<1>7. o \in Reading /\ n \in Reading
  BY <1>1 DEF ReadsOK
<1>8. Follows(o, n, TRUE)
  BY <1>1 DEF ReadsOK
<1>9. \A k \in Counters : n.db.stats[k] >= o.db.stats[k]
  BY <1>7, <1>8, CountersGrow
<1>10. Comparable(prev[d], Sample(d))
  <2>1. Sample(d).at = round /\ prev[d].at = r /\ round > r
    BY <1>1, <1>4, <1>6 DEF SampleOf, Rounds
  <2>2. prev[d].started = Sample(d).started /\ prev[d].reset = Sample(d).reset
    BY <1>4, <1>6 DEF SampleOf, Unbroken
  <2>3. \A k \in Counters : Sample(d).stats[k] >= prev[d].stats[k]
    BY <1>4, <1>6, <1>9 DEF SampleOf
  <2> QED
    BY <2>1, <2>2, <2>3 DEF Comparable
<1>11. Entry(d).activity = [seconds |-> Sample(d).at - prev[d].at,
                            delta |-> [k \in Counters |-> Sample(d).stats[k] - prev[d].stats[k]]]
  BY <1>3, <1>5, <1>10 DEF Entry, Diff
<1>12. Sample(d).at - prev[d].at \in Nat
  BY <1>1, <1>4, <1>5 DEF SampleOf, Rounds
<1>13. \A k \in Counters : Sample(d).stats[k] - prev[d].stats[k] \in Nat
  <2> TAKE k \in Counters
  <2>1. n.db.stats[k] \in Nat /\ o.db.stats[k] \in Nat
    BY <1>7, ReadingFields DEF Unbroken
  <2>2. Sample(d).stats = n.db.stats /\ prev[d].stats = o.db.stats
    BY <1>4, <1>6 DEF SampleOf
  <2> QED
    BY <1>9, <2>1, <2>2
<1>14. Entry(d).activity \in Window
  BY <1>11, <1>12, <1>13 DEF Window
<1> QED
  BY <1>14, NoneAssumption

LEMMA DatabaseActivity ==
  ASSUME CtlOK, ReadsOK, RowsOK, SamplesOK, EventOK, EventOK', ActivityOK, Database
  PROVE  ActivityOK'
<1> DEFINE d == Chosen
           t == [x \in DOMAIN event.dbs \cup {d} |-> IF x = d THEN Entry(d) ELSE event.dbs[x]]
<1>0. /\ d \in todo /\ pc = "db" /\ rows # None /\ todo' = todo \ {d}
      /\ UNCHANGED <<round, reads, rows>> /\ event' = [event EXCEPT !.dbs = t]
  BY DatabaseSteps
<1>1. /\ DOMAIN t = DOMAIN event.dbs \cup {d}
      /\ t[d] = Entry(d) /\ \A x \in DOMAIN event.dbs : x # d => t[x] = event.dbs[x]
  OBVIOUS
<1> HIDE DEF t, d
<1>2. event'.dbs = t
  BY <1>0 DEF EventOK, ShapeOK
<1>3. InRound /\ round \in Rounds /\ d \in DOMAIN rows
  BY <1>0 DEF InRound, CtlOK, Rounds, RowsOK
<1>4. ExactOK'
  <2> SUFFICES ASSUME NEW x \in DOMAIN t, t[x].activity # None
               PROVE  LET b == reads[round - t[x].activity.seconds] IN
                      /\ b # None /\ x \in DOMAIN b
                      /\ \A k \in Counters :
                           LET happened == reads[round][x].total[k] - b[x].total[k]
                           IN  /\ t[x].activity.delta[k] \in 0..happened
                               /\ reads[round][x].db.inc = b[x].db.inc =>
                                    t[x].activity.delta[k] = happened
    BY <1>0, <1>2 DEF ExactOK, Activity, Before
  <2>1. CASE x = d
    <3>1. PICK r \in Rounds :
            /\ r < round /\ reads[r] # None /\ d \in DOMAIN reads[r]
            /\ Entry(d).activity.seconds = round - r
            /\ \A k \in Counters :
                 LET delta == Entry(d).activity.delta[k]
                     happened == reads[round][d].total[k] - reads[r][d].total[k]
                 IN  /\ delta \in 0..happened
                     /\ reads[round][d].db.inc = reads[r][d].db.inc => delta = happened
      BY <1>0, <1>1, <1>3, <2>1, EntryExact
    <3>2. round - (round - r) = r
      BY <1>3 DEF Rounds
    <3> QED
      BY <1>1, <2>1, <3>1, <3>2
  <2>2. CASE x # d
    <3>1. x \in DOMAIN event.dbs /\ t[x] = event.dbs[x]
      BY <1>1, <2>2
    <3> QED
      BY <3>1 DEF ActivityOK, ExactOK, Activity, Before
  <2> QED
    BY <2>1, <2>2
<1>5. reads[round] # None => d \in DOMAIN reads[round]
  BY <1>3 DEF RowsOK
<1>6. DoneOK'
  BY <1>0, <1>1, <1>2, <1>5 DEF ActivityOK, DoneOK
<1>7. PresentOK'
  <2> SUFFICES ASSUME round > 1, reads[round] # None, reads[round - 1] # None,
                      NEW x \in DOMAIN t \cap DOMAIN reads[round - 1],
                      Unbroken(reads[round - 1][x], reads[round][x])
               PROVE  t[x].activity # None
    BY <1>0, <1>2 DEF PresentOK, Activity, Unbroken
  <2>1. CASE x = d
    BY <1>0, <1>1, <1>3, <1>5, <2>1, EntryPresent
  <2>2. CASE x # d
    BY <1>1, <2>2 DEF ActivityOK, PresentOK, Activity
  <2> QED
    BY <2>1, <2>2
<1> QED
  BY <1>4, <1>6, <1>7 DEF ActivityOK

LEMMA InitActivity == Init => ActivityOK
<1> SUFFICES ASSUME Init PROVE ActivityOK
  OBVIOUS
<1>1. event = NoEvent /\ round = 0
  BY DEF Init
<1>2. DOMAIN event.dbs = {}
  BY <1>1, NothingIsEmpty DEF NoEvent
<1> QED
  BY <1>1, <1>2 DEF ActivityOK, ExactOK, DoneOK, PresentOK

\* The invariant of the rounds.
IInv == CtlOK /\ EventOK /\ WorldOK /\ ReadsOK /\ RowsOK /\ SamplesOK /\ ActivityOK

LEMMA NextActivity == IInv /\ [Next]_vars => ActivityOK'
<1> SUFFICES ASSUME IInv, [Next]_vars PROVE ActivityOK'
  OBVIOUS
<1>0. CtlOK /\ EventOK /\ EventOK' /\ WorldOK /\ ReadsOK /\ RowsOK /\ SamplesOK /\ ActivityOK
  BY NextEvent DEF IInv
<1>1. CASE Server \/ Cancel \/ UNCHANGED vars \/ Return \/ Publish \/ Close \/ DatabasesDone
  BY <1>0, <1>1, PlainActivity
<1>2. CASE BeginRound
  BY <1>0, <1>2, BeginRoundActivity
<1>3. CASE Connect \/ Retry
  BY <1>0, <1>3, ConnectActivity
<1>4. CASE ReadPart
  BY <1>0, <1>4, ReadPartActivity
<1>5. CASE Database
  BY <1>0, <1>5, DatabaseActivity
<1>6. CASE EndRound
  BY <1>0, <1>6, EndRoundActivity
<1> QED
  BY <1>1, <1>2, <1>3, <1>4, <1>5, <1>6 DEF Next, Collect, Stopped

LEMMA Inductive == Spec => []IInv
<1>1. Init => IInv
  BY InitCtl, InitEvent, InitWorld, InitRows, InitSamples, InitActivity DEF IInv
<1>2. IInv /\ [Next]_vars => IInv'
  BY NextCtl, NextEvent, NextReads, NextRows, NextSamplesOK, NextActivity DEF IInv
<1> QED
  BY <1>1, <1>2, PTL DEF Spec

\* The activity published for a database is what happened in it between the two readings,
\* and no more than that for a database created again between them (ActivityExact), over
\* any number of failed rounds, restarts, crashes and resets in any order.
THEOREM ActivityExactAlways == Spec => []ActivityExact
<1>1. IInv => ActivityExact
  BY DEF ActivityOK, IInv, ActivityExact, ExactOK
<1> QED
  BY <1>1, Inductive, PTL

\* A database read in two rounds with nothing between has its activity published
\* (ActivityPresent): the engine keeps the samples of every round that read them.
THEOREM ActivityPresentAlways == Spec => []ActivityPresent
<1>1. IInv => ActivityPresent
  <2> SUFFICES ASSUME IInv, out, reads[round - 1] # None, reads[round] # None,
                      NEW d \in DOMAIN reads[round] \cap DOMAIN reads[round - 1],
                      Unbroken(reads[round - 1][d], reads[round][d])
               PROVE  Activity(d) # None
    BY DEF ActivityPresent, Unbroken
  <2>1. pc = "idle" /\ round > 1 /\ todo = {}
    BY DEF IInv, EventOK, OutOK, CtlOK
  <2>2. d \in DOMAIN event.dbs
    BY <2>1 DEF ActivityOK, IInv, DoneOK, CtlOK
  <2> QED
    BY <2>1, <2>2 DEF ActivityOK, IInv, PresentOK
<1> QED
  BY <1>1, Inductive, PTL
=============================================================================
