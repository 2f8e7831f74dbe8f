---------------------------- MODULE DockerProofs ----------------------------
(***************************************************************************)
(* The samples of module Docker, for any number of containers, slots and   *)
(* rounds: which pair of readings a published CPU % is differenced from,   *)
(* and what an entry says, however containers start, stop and vanish       *)
(* between the requests of a round.                                        *)
(***************************************************************************)
EXTENDS Docker, TLAPS

PCs == {"start", "select", "list", "info", "details", "publish", "done"}

Container == [exists : BOOLEAN, up : BOOLEAN, run : Nat, cpu : Nat]

WorldOK ==
  /\ world \in [Ids -> Container]
  /\ \A i \in Ids : world[i].up => world[i].run > 0

\* pc, the round and its kind.  Results and the event are kept no longer than they are used.
RoundOK ==
  /\ pc \in PCs /\ round \in Nat /\ lastDetails \in Nat /\ lastDetails <= round
  /\ cancelled \in BOOLEAN /\ expired \in BOOLEAN
  /\ pc \in {"list", "info", "details"} => kind \in {"prime", "tick", "pre"}
  /\ pc \notin {"info", "details"} => res = Empty /\ list = Empty
  /\ pc # "publish" => event = Empty

\* A reading of container i in this round: the counter of a run only grows.
FreshReading(i) ==
  /\ res[i] \in Sample
  /\ res[i].round = round /\ res[i].kind = kind
  /\ res[i].up => res[i].run > 0
  /\ res[i].run <= world[i].run
  /\ res[i].run = world[i].run => res[i].cpu <= world[i].cpu
  /\ pre[i] # 0 /\ pre[i] = res[i].run => prevStats[i].cpu <= res[i].cpu

\* A request that failed: as cancelled only after the shutdown began.
FailedReading(i) ==
  /\ res[i] \in [err : Errors, up : {FALSE}]
  /\ res[i].err = "cancelled" => cancelled

ResultsOK ==
  /\ DOMAIN res \subseteq Ids /\ DOMAIN res \subseteq DOMAIN list
  /\ res = [i \in DOMAIN res |-> res[i]]
  /\ \A i \in DOMAIN list : list[i] \in BOOLEAN
  /\ \A i \in DOMAIN res : res[i] \in {None, Asked} \/ FailedReading(i) \/ FreshReading(i)

\* A stored sample is of the last round that read details, and then it is its base, or
\* of a pre-read since; that one replaced a base only when its counter had gone back.
StoredOK(i) ==
  /\ prevStats[i] \in Sample
  /\ lastDetails <= prevStats[i].round /\ prevStats[i].round <= round
  /\ pc \in {"list", "info", "details"} => prevStats[i].round < round
  /\ prevStats[i].kind = "pre" => base[i] = None \/ base[i].cpu > prevStats[i].cpu
  /\ prevStats[i].kind # "pre" => base[i] = prevStats[i]

SamplesOK ==
  /\ DOMAIN prevStats \subseteq Ids
  /\ base \in [Ids -> Sample \cup {None}]
  /\ \A i \in DOMAIN prevStats : StoredOK(i)
  /\ \A i \in Ids : base[i] # None => i \in DOMAIN prevStats

\* The sample of a container that a pre-read has sampled will do for a later reading of
\* the same run.
PreOK ==
  /\ pre \in [Ids -> Nat]
  /\ \A i \in Ids : pre[i] # 0 =>
       /\ i \in DOMAIN prevStats
       /\ pre[i] <= world[i].run
       /\ pre[i] = world[i].run => prevStats[i].cpu <= world[i].cpu

EventOK == NoGap /\ CpuAfterPreRead /\ WholeInterval /\ EntryTrue

IInv == WorldOK /\ RoundOK /\ ResultsOK /\ SamplesOK /\ PreOK /\ EventOK

LEMMA EmptyIsEmpty == DOMAIN Empty = {}
  BY DEF Empty

\* What becomes of a container: a new run has a new number, and within a run the counter
\* only grows.
LEMMA FutureOK ==
  ASSUME NEW c \in Container, c.up => c.run > 0, NEW d \in Futures(c)
  PROVE  /\ d \in Container /\ (d.up => d.run > 0)
         /\ d.run >= c.run /\ (d.run = c.run => d.cpu >= c.cpu)
<1>0. c.run \in Nat /\ c.cpu \in Nat /\ c.exists \in BOOLEAN /\ c.up \in BOOLEAN
  BY DEF Container
<1>1. CASE d = [c EXCEPT !.exists = TRUE, !.up = TRUE, !.run = @ + 1, !.cpu = 0]
  <2>1. d = [exists |-> TRUE, up |-> TRUE, run |-> c.run + 1, cpu |-> 0]
    BY <1>1 DEF Container
  <2> QED
    BY <1>0, <2>1 DEF Container
<1>2. CASE \E b \in BOOLEAN : d = [c EXCEPT !.exists = b, !.up = FALSE]
  <2>0. PICK b \in BOOLEAN : d = [c EXCEPT !.exists = b, !.up = FALSE]
    BY <1>2
  <2>1. d = [exists |-> b, up |-> FALSE, run |-> c.run, cpu |-> c.cpu]
    BY <2>0 DEF Container
  <2> QED
    BY <1>0, <2>1 DEF Container
<1>3. CASE d = [c EXCEPT !.cpu = @ + 1]
  <2>1. d = [exists |-> c.exists, up |-> c.up, run |-> c.run, cpu |-> c.cpu + 1]
    BY <1>3 DEF Container
  <2> QED
    BY <1>0, <2>1 DEF Container
<1>4. \/ d = [c EXCEPT !.exists = TRUE, !.up = TRUE, !.run = @ + 1, !.cpu = 0]
      \/ \E b \in BOOLEAN : d = [c EXCEPT !.exists = b, !.up = FALSE]
      \/ d = [c EXCEPT !.cpu = @ + 1]
  BY DEF Futures
<1> QED
  BY <1>1, <1>2, <1>3, <1>4

LEMMA InitIInv == Init => IInv
<1> SUFFICES ASSUME Init PROVE IInv
  OBVIOUS
<1>1. WorldOK
  <2> DEFINE Start == {[exists |-> FALSE, up |-> FALSE, run |-> 0, cpu |-> 0],
                       [exists |-> TRUE, up |-> FALSE, run |-> 0, cpu |-> 0],
                       [exists |-> TRUE, up |-> TRUE, run |-> 1, cpu |-> 1]}
  <2>1. ASSUME NEW c \in Start PROVE c \in Container /\ (c.up => c.run > 0)
    <3>1. CASE c = [exists |-> FALSE, up |-> FALSE, run |-> 0, cpu |-> 0]
      BY <3>1 DEF Container
    <3>2. CASE c = [exists |-> TRUE, up |-> FALSE, run |-> 0, cpu |-> 0]
      BY <3>2 DEF Container
    <3>3. CASE c = [exists |-> TRUE, up |-> TRUE, run |-> 1, cpu |-> 1]
      BY <3>3 DEF Container
    <3> QED
      BY <3>1, <3>2, <3>3
  <2>2. world \in [Ids -> Start]
    BY DEF Init
  <2> HIDE DEF Start
  <2> QED
    BY <2>1, <2>2 DEF WorldOK
<1>2. RoundOK
  <2>1. cancelled \in BOOLEAN /\ expired \in BOOLEAN
    BY DEF Init
  <2>2. pc = "start" /\ res = Empty /\ list = Empty /\ event = Empty
        /\ round = 0 /\ lastDetails = 0
    BY DEF Init
  <2> QED
    BY <2>1, <2>2 DEF RoundOK, PCs
<1>3. ResultsOK
  BY EmptyIsEmpty DEF Init, ResultsOK, Empty
<1>4. SamplesOK
  BY EmptyIsEmpty DEF Init, SamplesOK
<1>5. PreOK
  BY DEF Init, PreOK
<1>6. EventOK
  BY EmptyIsEmpty DEF Init, EventOK, NoGap, CpuAfterPreRead, WholeInterval, EntryTrue
<1> QED
  BY <1>1, <1>2, <1>3, <1>4, <1>5, <1>6 DEF IInv
(***************************************************************************)
(* What a step that leaves a part of the state alone preserves.            *)
(***************************************************************************)
InRound(l) == l \in {"list", "info", "details"}

LEMMA EventSame == ASSUME EventOK, event' = event PROVE EventOK'
  BY DEF EventOK, NoGap, CpuAfterPreRead, WholeInterval, EntryTrue

LEMMA EventEmpty == ASSUME event' = Empty PROVE EventOK'
  BY EmptyIsEmpty DEF EventOK, NoGap, CpuAfterPreRead, WholeInterval, EntryTrue

LEMMA WorldSame == ASSUME WorldOK, world' = world PROVE WorldOK'
  BY DEF WorldOK

LEMMA PreSame == ASSUME PreOK, UNCHANGED <<world, prevStats, pre>> PROVE PreOK'
  BY DEF PreOK

LEMMA SamplesSame ==
  ASSUME SamplesOK, UNCHANGED <<prevStats, base, lastDetails, round>>,
         InRound(pc') => InRound(pc)
  PROVE  SamplesOK'
<1>1. \A i \in DOMAIN prevStats : StoredOK(i)'
  BY DEF SamplesOK, StoredOK, InRound
<1> QED
  BY <1>1 DEF SamplesOK

LEMMA ResultsEmpty == ASSUME res' = Empty, list' = Empty PROVE ResultsOK'
  BY EmptyIsEmpty DEF ResultsOK, Empty

LEMMA ResultsSame ==
  ASSUME ResultsOK, UNCHANGED <<list, res, world, prevStats, pre, round, kind>>,
         cancelled => cancelled'
  PROVE  ResultsOK'
<1>1. ASSUME NEW i \in DOMAIN res PROVE FailedReading(i) => FailedReading(i)'
  BY DEF FailedReading
<1>2. ASSUME NEW i \in DOMAIN res PROVE FreshReading(i) => FreshReading(i)'
  BY DEF FreshReading
<1>3. \A i \in DOMAIN res : res[i] \in {None, Asked} \/ FailedReading(i)' \/ FreshReading(i)'
  BY <1>1, <1>2 DEF ResultsOK
<1> QED
  BY <1>3 DEF ResultsOK

(***************************************************************************)
(* The surroundings.                                                       *)
(***************************************************************************)
\* Readings stay true of a container that moves on: counters grow, runs are counted.
LEMMA HappensIInv == ASSUME IInv, NEW i \in Ids, Happens(i) PROVE IInv'
<1> USE DEF IInv
<1>0. UNCHANGED <<cancelled, pc, kind, round, expired, list, res, prevStats, event,
                  lastDetails, base, pre>>
  BY DEF Happens, kept, history
<1>1. PICK d \in Futures(world[i]) : world' = [world EXCEPT ![i] = d]
  BY DEF Happens
<1>2. world[i] \in Container /\ (world[i].up => world[i].run > 0)
  BY DEF WorldOK
<1>3. /\ d \in Container /\ (d.up => d.run > 0)
      /\ d.run >= world[i].run /\ (d.run = world[i].run => d.cpu >= world[i].cpu)
  BY <1>2, FutureOK
<1>4. WorldOK'
  BY <1>1, <1>3 DEF WorldOK
<1>5. ASSUME NEW j \in Ids
      PROVE  /\ world[j].run \in Nat /\ world[j].cpu \in Nat
             /\ world'[j].run \in Nat /\ world'[j].cpu \in Nat
             /\ world'[j].run >= world[j].run
             /\ world'[j].run = world[j].run => world'[j].cpu >= world[j].cpu
  <2>1. world[j].run \in Nat /\ world[j].cpu \in Nat
    BY DEF WorldOK, Container
  <2>2. world'[j] = IF j = i THEN d ELSE world[j]
    BY <1>1 DEF WorldOK
  <2>3. d.run \in Nat /\ d.cpu \in Nat
    BY <1>3 DEF Container
  <2> QED
    BY <1>3, <2>1, <2>2, <2>3
<1>6. RoundOK'
  BY <1>0 DEF RoundOK
<1>7. SamplesOK'
  BY <1>0, SamplesSame
<1>8. ResultsOK'
  <2>1. ASSUME NEW j \in DOMAIN res, FreshReading(j) PROVE FreshReading(j)'
    <3>1. j \in Ids /\ res[j].run \in Nat /\ res[j].cpu \in Nat
      BY <2>1 DEF ResultsOK, FreshReading, Sample
    <3>2. /\ world[j].run \in Nat /\ world[j].cpu \in Nat
          /\ world'[j].run \in Nat /\ world'[j].cpu \in Nat
          /\ world'[j].run >= world[j].run
          /\ world'[j].run = world[j].run => world'[j].cpu >= world[j].cpu
      BY <1>5, <3>1
    <3>3. /\ res[j].run <= world'[j].run
          /\ res[j].run = world'[j].run => res[j].cpu <= world'[j].cpu
      BY <2>1, <3>1, <3>2 DEF FreshReading
    <3> QED
      BY <1>0, <2>1, <3>3 DEF FreshReading
  <2>2. ASSUME NEW j \in DOMAIN res, FailedReading(j) PROVE FailedReading(j)'
    BY <1>0, <2>2 DEF FailedReading
  <2>3. \A j \in DOMAIN res : res[j] \in {None, Asked} \/ FailedReading(j)' \/ FreshReading(j)'
    BY <2>1, <2>2 DEF ResultsOK
  <2> QED
    BY <1>0, <2>3 DEF ResultsOK
<1>9. PreOK'
  <2> SUFFICES ASSUME NEW j \in Ids, pre[j] # 0
               PROVE  /\ j \in DOMAIN prevStats
                      /\ pre[j] <= world'[j].run
                      /\ pre[j] = world'[j].run => prevStats[j].cpu <= world'[j].cpu
    BY <1>0 DEF PreOK
  <2>1. /\ j \in DOMAIN prevStats /\ pre[j] \in Nat /\ pre[j] <= world[j].run
        /\ pre[j] = world[j].run => prevStats[j].cpu <= world[j].cpu
    BY DEF PreOK
  <2>2. prevStats[j].cpu \in Nat
    BY <2>1 DEF SamplesOK, StoredOK, Sample
  <2>3. /\ world[j].run \in Nat /\ world[j].cpu \in Nat
        /\ world'[j].run \in Nat /\ world'[j].cpu \in Nat
        /\ world'[j].run >= world[j].run
        /\ world'[j].run = world[j].run => world'[j].cpu >= world[j].cpu
    BY <1>5
  <2> QED
    BY <2>1, <2>2, <2>3
<1>10. EventOK'
  BY <1>0, EventSame
<1> QED
  BY <1>4, <1>6, <1>7, <1>8, <1>9, <1>10

LEMMA CancelIInv == ASSUME IInv, Cancel PROVE IInv'
<1> USE DEF IInv
<1>0. UNCHANGED <<world, pc, kind, round, expired, list, res, prevStats, event, lastDetails,
                  base, pre>>
  BY DEF Cancel, kept, history
<1>1. cancelled' = TRUE
  BY DEF Cancel
<1>2. RoundOK'
  BY <1>0, <1>1 DEF RoundOK
<1>3. ResultsOK'
  BY <1>0, <1>1, ResultsSame
<1> QED
  BY <1>0, <1>2, <1>3, WorldSame, SamplesSame, PreSame, EventSame

LEMMA ExpireIInv == ASSUME IInv, Expire PROVE IInv'
<1> USE DEF IInv
<1>0. UNCHANGED <<world, cancelled, pc, kind, round, list, res, prevStats, event, lastDetails,
                  base, pre>>
  BY DEF Expire, kept, history
<1>1. RoundOK'
  <2>1. expired' \in BOOLEAN
    BY DEF Expire
  <2> QED
    BY <1>0, <2>1 DEF RoundOK
<1> QED
  BY <1>0, <1>1, WorldSame, ResultsSame, SamplesSame, PreSame, EventSame

(***************************************************************************)
(* The rounds.                                                             *)
(***************************************************************************)
\* The samples at hand are older than the round that begins.
LEMMA BeginRoundIInv ==
  ASSUME IInv, pc \in {"start", "select"}, NEW k \in {"prime", "tick", "pre"}, BeginRound(k),
         UNCHANGED <<world, cancelled, list, res, prevStats, lastDetails, base, pre>>
  PROVE  IInv'
<1> USE DEF IInv
<1>0. /\ kind' = k /\ round' = round + 1 /\ pc' = "list"
      /\ UNCHANGED <<expired, event>>
  BY DEF BeginRound, Goto
<1>1. res = Empty /\ list = Empty /\ event = Empty /\ round \in Nat /\ lastDetails \in Nat
      /\ lastDetails <= round
  BY DEF RoundOK
<1>2. RoundOK'
  <2>1. cancelled' \in BOOLEAN /\ expired' \in BOOLEAN
    BY <1>0 DEF RoundOK
  <2>2. round' \in Nat /\ lastDetails' \in Nat /\ lastDetails' <= round'
    BY <1>0, <1>1
  <2> QED
    BY <1>0, <1>1, <2>1, <2>2 DEF RoundOK, PCs
<1>3. SamplesOK'
  <2>1. ASSUME NEW i \in DOMAIN prevStats PROVE StoredOK(i)'
    <3>1. prevStats[i].round \in Nat /\ prevStats[i].round <= round
          /\ lastDetails <= prevStats[i].round
      BY DEF SamplesOK, StoredOK, Sample
    <3>2. prevStats[i].round < round' /\ prevStats[i].round <= round'
      BY <1>0, <1>1, <3>1
    <3> QED
      BY <3>1, <3>2 DEF SamplesOK, StoredOK
  <2> QED
    BY <2>1 DEF SamplesOK
<1> QED
  BY <1>0, <1>1, <1>2, <1>3, WorldSame, ResultsEmpty, PreSame, EventSame

LEMMA PrimeIInv == ASSUME IInv, Prime PROVE IInv'
  BY BeginRoundIInv DEF Prime, At, env, kept, history

LEMMA TickIInv == ASSUME IInv, Tick PROVE IInv'
  BY BeginRoundIInv DEF Tick, At, env, kept, history

LEMMA PreReadIInv == ASSUME IInv, PreRead PROVE IInv'
  BY BeginRoundIInv DEF PreRead, At, env, kept, history

LEMMA ReturnIInv == ASSUME IInv, Return PROVE IInv'
<1> USE DEF IInv
<1>0. /\ UNCHANGED <<world, cancelled, kind, round, expired, list, res, prevStats, event,
                     lastDetails, base, pre>>
      /\ pc = "select" /\ pc' = "done"
  BY DEF Return, At, Goto, env, kept, history
<1>1. RoundOK'
  BY <1>0 DEF RoundOK, PCs
<1> QED
  BY <1>0, <1>1, WorldSame, ResultsSame, SamplesSame, PreSame, EventSame DEF InRound

LEMMA ReadListIInv == ASSUME IInv, ReadList PROVE IInv'
<1> USE DEF IInv
<1>0. /\ UNCHANGED <<world, cancelled, round, prevStats, event, lastDetails, base, pre>>
      /\ pc = "list"
  BY DEF ReadList, At, history
<1>1. event = Empty /\ res = Empty /\ list = Empty /\ kind \in {"prime", "tick", "pre"}
  BY <1>0 DEF RoundOK
<1>2. CASE /\ list' = [i \in Existing |-> world[i].up]
           /\ res' = [i \in IF kind = "pre" THEN {j \in Existing : world[j].up} ELSE Existing
                        |-> None]
           /\ pc' \in {"info", "details"} /\ UNCHANGED <<kind, expired>>
  <2>1. RoundOK'
    BY <1>0, <1>1, <1>2 DEF RoundOK, PCs
  <2>2. ResultsOK'
    <3>1. /\ DOMAIN list' = Existing /\ Existing \subseteq Ids /\ DOMAIN res' \subseteq Existing
          /\ \A i \in DOMAIN res' : res'[i] = None
      BY <1>2 DEF Existing
    <3>2. \A i \in DOMAIN list' : list'[i] \in BOOLEAN
      BY <1>2, <3>1 DEF WorldOK, Container
    <3>3. res' = [i \in DOMAIN res' |-> res'[i]]
      BY <1>2
    <3> QED
      BY <3>1, <3>2, <3>3 DEF ResultsOK
  <2> QED
    BY <1>0, <1>2, <2>1, <2>2, WorldSame, SamplesSame, PreSame, EventSame DEF InRound
<1>3. CASE pc' \in {"publish", "select"} /\ expired' = FALSE /\ UNCHANGED <<list, res>>
  <2>1. RoundOK'
    BY <1>0, <1>1, <1>3 DEF RoundOK, PCs
  <2> QED
    BY <1>0, <1>1, <1>3, <2>1, WorldSame, ResultsEmpty, SamplesSame, PreSame, EventSame
    DEF InRound
<1> QED
  BY <1>2, <1>3 DEF ReadList, EndRound, Goto

LEMMA ReadInfoIInv == ASSUME IInv, ReadInfo PROVE IInv'
<1> USE DEF IInv
<1>0. /\ UNCHANGED <<world, cancelled, kind, round, expired, list, res, prevStats, event,
                     lastDetails, base, pre>>
      /\ pc = "info" /\ pc' = "details"
  BY DEF ReadInfo, At, Goto, history
<1>1. RoundOK'
  BY <1>0 DEF RoundOK, PCs
<1> QED
  BY <1>0, <1>1, WorldSame, ResultsSame, SamplesSame, PreSame, EventSame DEF InRound

(***************************************************************************)
(* The requests of a round.                                                *)
(***************************************************************************)
LEMMA ResultIInv ==
  ASSUME IInv, pc = "details", NEW i \in DOMAIN res, NEW r, Result(i, r),
         r \in {None, Asked} \/ FailedReading(i)' \/ FreshReading(i)'
  PROVE  IInv'
<1> USE DEF IInv
<1>0. UNCHANGED <<world, cancelled, pc, kind, round, expired, list, prevStats, event,
                  lastDetails, base, pre>>
  BY DEF Result, kept, history
<1>1. res' = [res EXCEPT ![i] = r]
  BY DEF Result
<1>2. ResultsOK'
  <2>1. DOMAIN res' = DOMAIN res /\ res'[i] = r
        /\ \A j \in DOMAIN res : j # i => res'[j] = res[j]
    BY <1>1 DEF ResultsOK
  <2>2. ASSUME NEW j \in DOMAIN res, j # i
        PROVE  res'[j] \in {None, Asked} \/ FailedReading(j)' \/ FreshReading(j)'
    <3>1. res[j] \in {None, Asked} \/ FailedReading(j) \/ FreshReading(j)
      BY DEF ResultsOK
    <3>2. FailedReading(j) => FailedReading(j)'
      BY <1>0, <2>1, <2>2 DEF FailedReading
    <3>3. FreshReading(j) => FreshReading(j)'
      BY <1>0, <2>1, <2>2 DEF FreshReading
    <3> QED
      BY <2>1, <2>2, <3>1, <3>2, <3>3
  <2>3. res' = [j \in DOMAIN res' |-> res'[j]]
    BY <1>1
  <2>4. \A j \in DOMAIN res' : res'[j] \in {None, Asked} \/ FailedReading(j)' \/ FreshReading(j)'
    BY <2>1, <2>2
  <2> QED
    BY <1>0, <2>1, <2>3, <2>4 DEF ResultsOK
<1>3. RoundOK'
  BY <1>0 DEF RoundOK
<1> QED
  BY <1>0, <1>2, <1>3, WorldSame, SamplesSame, PreSame, EventSame

\* A request fails as cancelled only after the shutdown began.
LEMMA FailureIInv ==
  ASSUME IInv, pc = "details", NEW i \in DOMAIN res, NEW e \in Errors,
         e = "cancelled" => cancelled, Result(i, Failure(e))
  PROVE  IInv'
<1>1. res'[i] = Failure(e) /\ cancelled' = cancelled
  BY DEF Result, IInv, ResultsOK
<1>2. Failure(e) \in [err : Errors, up : {FALSE}] /\ Failure(e).err = e
  BY DEF Failure
<1>3. FailedReading(i)'
  BY <1>1, <1>2 DEF FailedReading
<1> QED
  BY <1>3, ResultIInv

LEMMA FailsCancelled == ASSUME NEW e \in Errors, Fails(e) PROVE e = "cancelled" => cancelled
  BY DEF Fails, Errors

LEMMA AcquireIInv == ASSUME IInv, NEW i \in Ids, Acquire(i) PROVE IInv'
<1>0. pc = "details" /\ i \in DOMAIN res
  BY DEF Acquire, At
<1>1. CASE Result(i, Asked)
  BY <1>0, <1>1, ResultIInv
<1>2. CASE \E e \in Errors : Fails(e) /\ Result(i, Failure(e))
  BY <1>0, <1>2, FailsCancelled, FailureIInv
<1> QED
  BY <1>1, <1>2 DEF Acquire

LEMMA ReadDetailsIInv == ASSUME IInv, NEW i \in Ids, ReadDetails(i) PROVE IInv'
<1>0. pc = "details" /\ i \in DOMAIN res
  BY DEF ReadDetails, At
<1>1. CASE Result(i, [err |-> "", up |-> world[i].up, run |-> world[i].run,
                      cpu |-> world[i].cpu, round |-> round, kind |-> kind])
  <2> DEFINE r == [err |-> "", up |-> world[i].up, run |-> world[i].run,
                   cpu |-> world[i].cpu, round |-> round, kind |-> kind]
  <2>1. res'[i] = r /\ UNCHANGED <<world, round, kind, pre, prevStats>>
    BY <1>0, <1>1 DEF Result, kept, history, IInv, ResultsOK
  <2>2. /\ world[i].run \in Nat /\ world[i].cpu \in Nat /\ round \in Nat
        /\ kind \in {"prime", "tick", "pre"}
        /\ world[i].up => world[i].run > 0
    BY <1>0 DEF IInv, WorldOK, Container, RoundOK
  <2>3. world[i].up \in BOOLEAN
    BY DEF IInv, WorldOK, Container
  <2>4. r \in Sample
    BY <2>2, <2>3 DEF Sample
  <2>5. pre[i] # 0 /\ pre[i] = world[i].run => prevStats[i].cpu <= world[i].cpu
    BY DEF IInv, PreOK
  <2>6. /\ res'[i].round = round' /\ res'[i].kind = kind'
        /\ res'[i].run = world[i].run /\ res'[i].cpu = world[i].cpu
        /\ res'[i].up => world[i].up
    <3>1. r.round = round /\ r.kind = kind /\ r.run = world[i].run /\ r.cpu = world[i].cpu
      OBVIOUS
    <3>2. r.up => world[i].up
      OBVIOUS
    <3> HIDE DEF r
    <3> QED
      BY <2>1, <3>1, <3>2
  <2>7. FreshReading(i)'
    <3>1. res'[i] \in Sample
      BY <2>1, <2>4
    <3>2. res'[i].up => res'[i].run > 0
      BY <2>2, <2>6
    <3>3. world'[i] = world[i]
      BY <2>1
    <3>4. res'[i].run <= world'[i].run /\ res'[i].cpu <= world'[i].cpu
      BY <2>2, <2>6, <3>3
    <3>5. pre'[i] # 0 /\ pre'[i] = res'[i].run => prevStats'[i].cpu <= res'[i].cpu
      BY <2>1, <2>5, <2>6
    <3> QED
      BY <2>1, <2>6, <3>1, <3>2, <3>4, <3>5 DEF FreshReading
  <2> QED
    BY <1>0, <1>1, <2>7, ResultIInv
<1>2. CASE Result(i, Failure("error"))
  BY <1>0, <1>2, FailureIInv DEF Errors
<1>3. CASE \E e \in Errors : Fails(e) /\ Result(i, Failure(e))
  BY <1>0, <1>3, FailsCancelled, FailureIInv
<1> QED
  BY <1>1, <1>2, <1>3 DEF ReadDetails

(***************************************************************************)
(* What a round makes of them.                                             *)
(***************************************************************************)
\* A container that was sampled has a reading of this round.
LEMMA SampledFresh ==
  ASSUME IInv, AllRead, NEW i \in Sampled
  PROVE  i \in Ids /\ i \in DOMAIN res /\ FreshReading(i) /\ res[i].up
<1>1. i \in DOMAIN res /\ res[i].err = "" /\ res[i].up /\ i \in Ids
  BY DEF Sampled, IInv, ResultsOK
<1>2. FailedReading(i) \/ FreshReading(i)
  BY <1>1 DEF AllRead, IInv, ResultsOK
<1>3. ~FailedReading(i)
  BY <1>1 DEF FailedReading, Errors
<1> QED
  BY <1>1, <1>2, <1>3

\* What follows from the invariants for a container that was sampled: its stored sample,
\* if any, is of an earlier round, and Usable depends on the counters alone.
LEMMA SampledFacts ==
  ASSUME IInv, pc = "details", AllRead, NEW i \in Sampled
  PROVE  /\ res[i] \in Sample /\ res[i].cpu \in Nat /\ res[i].run \in Nat /\ res[i].run > 0
         /\ res[i].round = round /\ res[i].kind = kind
         /\ i \in DOMAIN prevStats =>
              /\ prevStats[i] \in Sample /\ prevStats[i].cpu \in Nat
              /\ prevStats[i].round \in Nat
              /\ lastDetails <= prevStats[i].round
              /\ Usable(prevStats[i], res[i]) <=> prevStats[i].cpu <= res[i].cpu
<1>1. /\ res[i] \in Sample /\ res[i].cpu \in Nat /\ res[i].run \in Nat /\ res[i].run > 0
      /\ res[i].round = round /\ res[i].kind = kind
  BY SampledFresh DEF FreshReading, Sample
<1>2. ASSUME i \in DOMAIN prevStats
      PROVE  /\ prevStats[i] \in Sample /\ prevStats[i].cpu \in Nat
             /\ prevStats[i].round \in Nat
             /\ lastDetails <= prevStats[i].round
             /\ Usable(prevStats[i], res[i]) <=> prevStats[i].cpu <= res[i].cpu
  <2>1. StoredOK(i)
    BY <1>2 DEF IInv, SamplesOK
  <2>2. /\ prevStats[i] \in Sample /\ prevStats[i].cpu \in Nat /\ prevStats[i].round \in Nat
        /\ lastDetails <= prevStats[i].round /\ prevStats[i].round < round
    BY <2>1 DEF StoredOK, Sample
  <2>3. round \in Nat
    BY DEF IInv, RoundOK
  <2>4. Usable(prevStats[i], res[i]) <=> prevStats[i].cpu <= res[i].cpu
    BY <1>1, <2>2, <2>3 DEF Usable
  <2> QED
    BY <2>2, <2>4
<1> QED
  BY <1>1, <1>2

\* An entry of a tick, from the readings of the round and the stored samples.
LEMMA EntryOK ==
  ASSUME IInv, pc = "details", AllRead, NEW i \in DOMAIN res
  PROVE  /\ Entry(i).cpu # None => Entry(i).cpu.prev.round >= Entry(i).since
         /\ Entry(i).sampled /\ Entry(i).run = Entry(i).pre => Entry(i).cpu # None
         /\ Entry(i).cpu # None /\ Entry(i).cpu.prev.kind = "pre" =>
              Entry(i).base = None \/ Entry(i).base.cpu > Entry(i).cpu.prev.cpu
         /\ Entry(i).exit \in {0, Entry(i).run}
         /\ ~cancelled => Entry(i).error # "cancelled"
<1>0. /\ Entry(i).error = res[i].err /\ Entry(i).cpu = Cpu(i) /\ Entry(i).exit = Exit(i)
      /\ Entry(i).run = (IF res[i].err = "" THEN res[i].run ELSE 0)
      /\ Entry(i).sampled = (i \in Sampled)
      /\ Entry(i).since = lastDetails /\ Entry(i).base = base[i] /\ Entry(i).pre = pre[i]
  BY DEF Entry
<1>1. /\ i \in Sampled /\ i \in DOMAIN prevStats /\ Usable(prevStats[i], res[i])
           => Cpu(i) # None /\ Cpu(i).prev = prevStats[i]
      /\ Cpu(i) # None => i \in Sampled /\ i \in DOMAIN prevStats
  <2>1. ASSUME i \in Sampled, i \in DOMAIN prevStats, Usable(prevStats[i], res[i])
        PROVE  Cpu(i) # None /\ Cpu(i).prev = prevStats[i]
    <3>1. Cpu(i) = [prev |-> prevStats[i], now |-> res[i]]
      BY <2>1 DEF Cpu
    <3>2. prevStats[i] \in Sample /\ res[i] \in Sample
      BY <2>1, SampledFacts
    <3> QED
      BY <3>1, <3>2, NoneAssumption
  <2>2. Cpu(i) # None => i \in Sampled /\ i \in DOMAIN prevStats
    BY DEF Cpu
  <2> QED
    BY <2>1, <2>2
<1>2. Cpu(i) # None => Cpu(i).prev = prevStats[i]
  BY DEF Cpu
<1>3. Cpu(i) # None => Cpu(i).prev.round >= lastDetails
  <2> SUFFICES ASSUME Cpu(i) # None PROVE Cpu(i).prev.round >= lastDetails
    OBVIOUS
  <2>1. i \in Sampled /\ i \in DOMAIN prevStats /\ Cpu(i).prev = prevStats[i]
    BY <1>1, <1>2
  <2>2. lastDetails <= prevStats[i].round /\ prevStats[i].round \in Nat /\ lastDetails \in Nat
    BY <2>1, SampledFacts DEF IInv, RoundOK
  <2> QED
    BY <2>1, <2>2
<1>4. i \in Sampled /\ res[i].run = pre[i] => Cpu(i) # None
  <2> SUFFICES ASSUME i \in Sampled, res[i].run = pre[i] PROVE Cpu(i) # None
    OBVIOUS
  <2>1. pre[i] # 0 /\ FreshReading(i) /\ i \in Ids
    BY SampledFacts, SampledFresh
  <2>2. i \in DOMAIN prevStats /\ prevStats[i].cpu <= res[i].cpu
    BY <2>1 DEF FreshReading, IInv, PreOK
  <2>3. Usable(prevStats[i], res[i])
    BY <2>2, SampledFacts
  <2> QED
    BY <1>1, <2>2, <2>3
<1>5. Cpu(i) # None /\ Cpu(i).prev.kind = "pre" =>
        base[i] = None \/ base[i].cpu > Cpu(i).prev.cpu
  BY <1>1, <1>2 DEF IInv, SamplesOK, StoredOK
<1>6. Exit(i) \in {0, IF res[i].err = "" THEN res[i].run ELSE 0}
  BY DEF Exit
<1>7. ~cancelled => res[i].err # "cancelled"
  <2>1. FailedReading(i) \/ FreshReading(i)
    BY DEF AllRead, IInv, ResultsOK
  <2> QED
    BY <2>1 DEF FailedReading, FreshReading, Sample
<1>8. i \in Sampled => res[i].err = ""
  BY DEF Sampled
<1>9. Entry(i).sampled /\ Entry(i).run = Entry(i).pre => Entry(i).cpu # None
  BY <1>0, <1>4, <1>8
<1> QED
  BY <1>0, <1>3, <1>5, <1>6, <1>7, <1>9

LEMMA WithDetailsIInv == ASSUME IInv, WithDetails PROVE IInv'
<1>0. /\ UNCHANGED <<world, cancelled, round>> /\ pc = "details" /\ AllRead /\ kind # "pre"
      /\ pc' \in {"publish", "select"} /\ expired' = FALSE
      /\ res' = Empty /\ list' = Empty
  BY DEF WithDetails, At, env, EndRound, Goto
<1>1. RoundOK'
  <2>1. pc' # "publish" => event' = Empty
    BY DEF WithDetails, EndRound, Goto
  <2>2. round \in Nat /\ round' = round /\ lastDetails' = round /\ round <= round
    <3>1. round \in Nat
      BY DEF IInv, RoundOK
    <3>2. lastDetails' = round
      BY DEF WithDetails
    <3> QED
      BY <1>0, <3>1, <3>2
  <2>3. cancelled' \in BOOLEAN /\ expired' \in BOOLEAN
    BY <1>0 DEF IInv, RoundOK
  <2> QED
    BY <1>0, <2>1, <2>2, <2>3 DEF RoundOK, PCs
<1>2. SamplesOK'
  <2>1. /\ prevStats' = [i \in Sampled |-> res[i]]
        /\ base' = [i \in Ids |-> IF i \in Sampled THEN res[i] ELSE None]
        /\ lastDetails' = round
    BY DEF WithDetails, NewPrevStats
  <2>2. ASSUME NEW i \in Sampled PROVE StoredOK(i)' /\ i \in Ids /\ res[i] \in Sample
    <3>1. /\ i \in Ids /\ res[i] \in Sample /\ res[i].round = round /\ res[i].kind = kind
      BY <1>0, SampledFresh DEF FreshReading
    <3>2. prevStats'[i] = res[i] /\ base'[i] = res[i]
      BY <2>1, <3>1
    <3>3. round \in Nat
      BY DEF IInv, RoundOK
    <3> QED
      BY <1>0, <2>1, <3>1, <3>2, <3>3 DEF StoredOK
  <2> QED
    BY <2>1, <2>2 DEF SamplesOK
<1>3. PreOK'
  BY DEF WithDetails, PreOK
<1>4. EventOK'
  <2>1. CASE event' = Empty
    BY <2>1, EventEmpty
  <2>2. CASE event' = [i \in DOMAIN res |-> Entry(i)] /\ ~cancelled
    BY <1>0, <2>2, EntryOK DEF EventOK, NoGap, CpuAfterPreRead, WholeInterval, EntryTrue
  <2> QED
    BY <2>1, <2>2 DEF WithDetails, Abandoned
<1> QED
  BY <1>0, <1>1, <1>2, <1>3, <1>4, WorldSame, ResultsEmpty DEF IInv

\* A reading is kept where there was no sample, or where its counter went back.
LEMMA KeepPreReadIInv == ASSUME IInv, KeepPreRead PROVE IInv'
<1>0. /\ UNCHANGED <<world, cancelled, round, event, lastDetails, base>> /\ pc = "details"
      /\ AllRead /\ kind = "pre" /\ pc' = "select" /\ expired' = FALSE
      /\ res' = Empty /\ list' = Empty
  BY DEF KeepPreRead, At, env, EndRound, Goto
<1>1. RoundOK'
  <2>1. cancelled' \in BOOLEAN /\ expired' \in BOOLEAN
    BY <1>0 DEF IInv, RoundOK
  <2> QED
    BY <1>0, <2>1 DEF IInv, RoundOK, PCs
<1>2. /\ prevStats' = [i \in DOMAIN prevStats \cup Missing |->
                         IF i \in Missing THEN res[i] ELSE prevStats[i]]
      /\ pre' = [i \in Ids |-> IF i \in Sampled THEN res[i].run ELSE pre[i]]
      /\ Missing \subseteq Sampled
  BY DEF KeepPreRead, Missing
<1>3. ASSUME NEW i \in Missing PROVE StoredOK(i)' /\ i \in Ids
  <2>1. i \in Sampled /\ prevStats'[i] = res[i] /\ base'[i] = base[i]
    BY <1>0, <1>2
  <2>2. /\ i \in Ids /\ res[i] \in Sample /\ res[i].cpu \in Nat /\ res[i].kind = "pre"
        /\ res[i].round = round
    BY <1>0, <2>1, SampledFresh, SampledFacts
  <2>3. base[i] = None \/ base[i].cpu > res[i].cpu
    <3>1. CASE i \notin DOMAIN prevStats
      BY <2>2, <3>1 DEF IInv, SamplesOK
    <3>2. CASE i \in DOMAIN prevStats
      <4>1. prevStats[i].cpu \in Nat /\ ~(prevStats[i].cpu <= res[i].cpu)
        BY <1>0, <2>1, <3>2, SampledFacts DEF Missing
      <4>2. base[i] = None \/ base[i].cpu > prevStats[i].cpu \/ base[i] = prevStats[i]
        BY <3>2 DEF IInv, SamplesOK, StoredOK
      <4>3. base[i] # None => base[i].cpu \in Nat
        BY <2>2 DEF IInv, SamplesOK, Sample
      <4> QED
        BY <2>2, <4>1, <4>2, <4>3
    <3> QED
      BY <3>1, <3>2
  <2>4. round \in Nat /\ lastDetails <= round
    BY DEF IInv, RoundOK
  <2> QED
    BY <1>0, <2>1, <2>2, <2>3, <2>4 DEF StoredOK
<1>4. ASSUME NEW i \in DOMAIN prevStats, i \notin Missing PROVE StoredOK(i)'
  <2>1. prevStats'[i] = prevStats[i]
    BY <1>2, <1>4
  <2>2. StoredOK(i)
    BY DEF IInv, SamplesOK
  <2> QED
    BY <1>0, <2>1, <2>2 DEF StoredOK
<1>5. SamplesOK'
  <2>1. DOMAIN prevStats' = DOMAIN prevStats \cup Missing
    BY <1>2
  <2> QED
    BY <1>0, <1>3, <1>4, <2>1 DEF IInv, SamplesOK
<1>6. PreOK'
  <2>1. ASSUME NEW i \in Ids
        PROVE  /\ pre'[i] \in Nat
               /\ pre'[i] # 0 =>
                    /\ i \in DOMAIN prevStats'
                    /\ pre'[i] <= world[i].run
                    /\ pre'[i] = world[i].run => prevStats'[i].cpu <= world[i].cpu
    <3>1. CASE i \in Sampled
      <4>1. pre'[i] = res[i].run
        BY <1>2, <3>1
      <4>2. /\ res[i].run \in Nat /\ res[i].cpu \in Nat
            /\ res[i].run <= world[i].run
            /\ res[i].run = world[i].run => res[i].cpu <= world[i].cpu
        BY <1>0, <3>1, SampledFresh, SampledFacts DEF FreshReading
      <4>3. i \in DOMAIN prevStats' /\ prevStats'[i].cpu \in Nat
            /\ prevStats'[i].cpu <= res[i].cpu
        <5>1. CASE i \in Missing
          BY <1>2, <4>2, <5>1
        <5>2. CASE i \notin Missing
          BY <1>0, <1>2, <3>1, <5>2, SampledFacts DEF Missing
        <5> QED
          BY <5>1, <5>2
      <4>4. world[i].cpu \in Nat
        BY DEF IInv, WorldOK, Container
      <4> QED
        BY <4>1, <4>2, <4>3, <4>4
    <3>2. CASE i \notin Sampled
      <4>1. pre'[i] = pre[i] /\ (i \in DOMAIN prevStats =>
              i \in DOMAIN prevStats' /\ prevStats'[i] = prevStats[i])
        BY <1>2, <3>2
      <4> QED
        BY <4>1 DEF IInv, PreOK
    <3> QED
      BY <3>1, <3>2
  <2>2. pre' = [i \in Ids |-> pre'[i]]
    BY <1>2
  <2> QED
    BY <1>0, <2>1, <2>2 DEF PreOK
<1> QED
  BY <1>0, <1>1, <1>5, <1>6, WorldSame, ResultsEmpty, EventSame DEF IInv

LEMMA PublishIInv == ASSUME IInv, Publish PROVE IInv'
<1> USE DEF IInv
<1>0. /\ UNCHANGED <<world, cancelled, kind, round, expired, list, res, prevStats,
                     lastDetails, base, pre>>
      /\ pc = "publish" /\ pc' = "select" /\ event' = Empty
  BY DEF Publish, At, Goto, env, kept, history
<1>1. RoundOK'
  BY <1>0 DEF RoundOK, PCs
<1> QED
  BY <1>0, <1>1, WorldSame, ResultsSame, SamplesSame, PreSame, EventEmpty DEF InRound

\* A new Collector has no samples.
LEMMA PanicIInv == ASSUME IInv, Panic PROVE IInv'
<1> USE DEF IInv
<1>0. /\ UNCHANGED <<world, cancelled, kind, round, expired, list, res, lastDetails>>
      /\ pc = "publish" /\ pc' = "start" /\ event' = Empty /\ prevStats' = Empty
      /\ base' = [i \in Ids |-> None] /\ pre' = [i \in Ids |-> 0]
  BY DEF Panic, At, Goto
<1>1. RoundOK'
  BY <1>0 DEF RoundOK, PCs
<1>2. res' = Empty /\ list' = Empty
  BY <1>0 DEF RoundOK
<1>3. SamplesOK'
  BY <1>0, EmptyIsEmpty DEF SamplesOK
<1>4. PreOK'
  BY <1>0 DEF PreOK
<1> QED
  BY <1>0, <1>1, <1>2, <1>3, <1>4, WorldSame, ResultsEmpty, EventEmpty

LEMMA StutterIInv == ASSUME IInv, UNCHANGED vars PROVE IInv'
<1> USE DEF IInv
<1>0. UNCHANGED <<world, cancelled, pc, kind, round, expired, list, res, prevStats, event,
                  lastDetails, base, pre>>
  BY DEF vars, env, kept, history
<1>1. RoundOK'
  BY <1>0 DEF RoundOK
<1> QED
  BY <1>0, <1>1, WorldSame, ResultsSame, SamplesSame, PreSame, EventSame

LEMMA NextIInv == IInv /\ [Next]_vars => IInv'
<1> SUFFICES ASSUME IInv, [Next]_vars PROVE IInv'
  OBVIOUS
<1>1. CASE Run
  BY <1>1, ReadListIInv, ReadInfoIInv, AcquireIInv, ReadDetailsIInv, WithDetailsIInv,
     KeepPreReadIInv, PublishIInv DEF Run
<1> QED
  BY <1>1, HappensIInv, CancelIInv, ExpireIInv, PrimeIInv, TickIInv, PreReadIInv, ReturnIInv,
     PanicIInv, StutterIInv DEF Next

LEMMA Inductive == Spec => []IInv
  BY InitIInv, NextIInv, PTL DEF Spec

(***************************************************************************)
(* What the collector promises of an event.                                *)
(***************************************************************************)
\* A CPU % is never differenced across a round in which its container was seen stopped,
\* could not be read or was gone: withDetails prunes prevStats to what it sampled.
THEOREM NoGapAlways == Spec => []NoGap
<1>1. IInv => NoGap
  BY DEF IInv, EventOK
<1> QED
  BY <1>1, Inductive, PTL

\* What a pre-read sampled has a CPU % in the next event that finds it in the same run,
\* whatever was stored for it before: preReadCPU tests the window, not the presence.
THEOREM CpuAfterPreReadAlways == Spec => []CpuAfterPreRead
<1>1. IInv => CpuAfterPreRead
  BY DEF IInv, EventOK
<1> QED
  BY <1>1, Inductive, PTL

\* A window that starts at a pre-read replaced no sample that would have done.
THEOREM WholeIntervalAlways == Spec => []WholeInterval
<1>1. IInv => WholeInterval
  BY DEF IInv, EventOK
<1> QED
  BY <1>1, Inductive, PTL

\* An exit code is of the latest run, which is over, and an error is not the shutdown's.
THEOREM EntryTrueAlways == Spec => []EntryTrue
<1>1. IInv => EntryTrue
  BY DEF IInv, EventOK
<1> QED
  BY <1>1, Inductive, PTL
=============================================================================
