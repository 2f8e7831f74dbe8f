-------------------------------- MODULE Docker --------------------------------
(***************************************************************************)
(* The Docker collector (docker/collector.go) and the containers it reads. *)
(*                                                                         *)
(* A round asks the daemon for the list of containers and then, in         *)
(* parallel, for the stats of those that run and the last exit of the      *)
(* others: containers start, stop and vanish between any two requests.     *)
(* There are three kinds of round: "prime", once at startup, and "tick"    *)
(* store the samples that CPU % is differenced against; "pre", a second    *)
(* before a tick, stores only the samples that the tick could not do       *)
(* without.  Host CPU time advances from each round to the next, so the    *)
(* number of the round stands for SystemTotal.                             *)
(*                                                                         *)
(* The requests of a round wait for a slot, those for stats and those for  *)
(* the last exit each for one of their own MaxParallel.  No request need   *)
(* ever be answered: the context of the round ends them.                   *)
(***************************************************************************)
EXTENDS Naturals, FiniteSets

CONSTANTS
  Ids,          \* container ids
  None,         \* no sample, no result
  Asked,        \* a request that has a slot and no result
  UsesPreRead,  \* usesPreRead(interval)
  MaxParallel,  \* maxParallel
  MaxCpu,       \* bound: CPU time one run of a container uses
  MaxMoves,     \* bound: things that happen to containers
  MaxErrors,    \* bound: failed requests, rounds over budget, panics
  MaxRounds     \* bound: rounds of any kind

ASSUME DockerAssumption ==
  /\ UsesPreRead \in BOOLEAN /\ MaxParallel \in Nat \ {0}
  /\ MaxCpu \in Nat /\ MaxMoves \in Nat /\ MaxErrors \in Nat /\ MaxRounds \in Nat

\* A reading of a container that the daemon answered, with its round and kind.
Sample ==
  [err : {""}, up : BOOLEAN, run : Nat, cpu : Nat, round : Nat,
   kind : {"prime", "tick", "pre"}]

\* The absence of a CPU % is told from a pair of readings.
ASSUME NoneAssumption == None \notin [prev : Sample, now : Sample]

VARIABLES
  world,          \* the containers: [exists, up, run, cpu], run counting the starts
  moves, errors, cancelled,
  pc, kind, round,
  armed,          \* the pre-read timer has yet to fire
  expired,        \* the round has used up its budget
  list,           \* the list as read: id -> was it running
  res,            \* results of the parallel requests
  prevStats, detailsFailing, failing, cgroupVersion,
  event,          \* what is published: id -> entry
  \* History: the last round that read details, the samples it stored, and the runs
  \* that pre-reads have sampled since.
  lastDetails, base, pre

env == <<moves, errors, cancelled>>
kept == <<prevStats, detailsFailing, failing, cgroupVersion>>
history == <<lastDetails, base, pre>>
vars == <<world, env, pc, kind, round, armed, expired, list, res, kept, event, history>>

At(l) == pc = l
Goto(l) == pc' = l

Empty == [i \in {} |-> None]

(***************************************************************************)
(* Containers, and the requests about them.                                *)
(***************************************************************************)
\* What may become of container c: created, started (a new run with a new counter),
\* stopped, removed, or busy.  An id is not used again.
Futures(c) ==
  {[c EXCEPT !.exists = TRUE, !.up = TRUE, !.run = @ + 1, !.cpu = 0] :
     x \in IF c.exists \/ c.run = 0 THEN {0} ELSE {}}
  \cup {[c EXCEPT !.exists = b, !.up = FALSE] : b \in IF c.exists THEN BOOLEAN ELSE {}}
  \cup {[c EXCEPT !.cpu = @ + 1] : x \in IF c.up /\ c.cpu < MaxCpu THEN {0} ELSE {}}

\* Before a list, or before the answer to the request about it: no round could tell what
\* happens at another time from this.
Happens(i) ==
  /\ At("list") \/ (At("details") /\ i \in DOMAIN res /\ res[i] = Asked)
  /\ moves < MaxMoves /\ moves' = moves + 1
  /\ \E d \in Futures(world[i]) \ {world[i]} : world' = [world EXCEPT ![i] = d]
  /\ UNCHANGED <<errors, cancelled, pc, kind, round, armed, expired, list, res, kept, event,
                 history>>

\* Before a list or amid the requests, for the same reason.
Cancel ==
  /\ At("list") \/ At("details")
  /\ ~cancelled /\ cancelled' = TRUE
  /\ UNCHANGED <<world, moves, errors, pc, kind, round, armed, expired, list, res, kept, event,
                 history>>

\* The budget of the round runs out.
Expire ==
  /\ pc \in {"list", "info", "details"} /\ ~expired /\ ~cancelled
  /\ expired' = TRUE
  /\ errors < MaxErrors /\ errors' = errors + 1
  /\ UNCHANGED <<world, moves, cancelled, pc, kind, round, armed, list, res, kept, event,
                 history>>

\* Mutant of Over: a request that is not tied to the context of its round.
OverAtShutdown == cancelled

\* The context of the round is done: nothing is answered any more.
Over == expired \/ cancelled

\* A request fails: by itself or its own timeout, or with the context of the round.
Fails(err) ==
  \/ err = "error" /\ ~Over /\ errors < MaxErrors /\ errors' = errors + 1
  \/ err = (IF cancelled THEN "cancelled" ELSE "timed out") /\ Over /\ UNCHANGED errors

Errors == {"error", "timed out", "cancelled"}

Answers == ~Over /\ UNCHANGED errors

(***************************************************************************)
(* Run.                                                                    *)
(***************************************************************************)
BeginRound(k) ==
  /\ kind' = k /\ round' = round + 1
  /\ Goto("list")
  /\ UNCHANGED <<expired, event>>

\* The last read of a round: its context is of no use any more.
EndRound(l) == Goto(l) /\ kind' = None /\ expired' = FALSE

\* primeCPU, once.
Prime ==
  /\ At("start")
  /\ BeginRound("prime")
  /\ UNCHANGED <<world, env, armed, list, res, kept, history>>

\* The first event, and every tick; a tick arms the pre-read again.
Tick ==
  /\ At("select") /\ round < MaxRounds
  /\ BeginRound("tick")
  /\ armed' = UsesPreRead
  /\ UNCHANGED <<world, env, list, res, kept, history>>

PreRead ==
  /\ At("select") /\ armed /\ round < MaxRounds /\ round > 1
  /\ BeginRound("pre")
  /\ armed' = FALSE
  /\ UNCHANGED <<world, env, list, res, kept, history>>

\* ctx is done, in the startup delay or in the select.
Return ==
  /\ At("select") /\ cancelled
  /\ Goto("done")
  /\ UNCHANGED <<world, env, kind, round, armed, expired, list, res, kept, event, history>>

Existing == {i \in Ids : world[i].exists}

\* readContainers.  When it fails a tick publishes the error, unless it is the shutdown
\* that cancelled the request; prevStats stays as it was.
ReadList ==
  /\ At("list")
  /\ \/ /\ list' = [i \in Existing |-> world[i].up]
        /\ res' = [i \in IF kind = "pre" THEN {j \in Existing : world[j].up} ELSE Existing
                     |-> None]
        /\ failing' = (failing /\ kind # "tick")
        /\ Goto(IF kind = "tick" THEN "info" ELSE "details")
        /\ Answers /\ UNCHANGED <<kind, expired>>
     \/ /\ \E e \in Errors : Fails(e)
        /\ failing' = (failing \/ (kind = "tick" /\ ~cancelled))
        /\ EndRound(IF kind = "tick" /\ ~cancelled THEN "publish" ELSE "select")
        /\ UNCHANGED <<list, res>>
  /\ UNCHANGED <<world, moves, cancelled, round, armed, prevStats, detailsFailing,
                 cgroupVersion, event, history>>

\* readCgroupVersion: asked until it was answered once.
ReadInfo ==
  /\ At("info")
  /\ \/ cgroupVersion # 0 /\ UNCHANGED <<errors, cgroupVersion>>
     \/ cgroupVersion = 0 /\ cgroupVersion' = 2 /\ Answers
     \/ cgroupVersion = 0 /\ UNCHANGED cgroupVersion /\ \E e \in Errors : Fails(e)
  /\ Goto("details")
  /\ UNCHANGED <<world, moves, cancelled, kind, round, armed, expired, list, res, prevStats,
                 detailsFailing, failing, event, history>>

Result(i, r) ==
  /\ res' = [res EXCEPT ![i] = r]
  /\ UNCHANGED <<world, moves, cancelled, pc, kind, round, armed, expired, list, kept, event,
                 history>>

Failure(err) == [err |-> err, up |-> FALSE]

\* The requests of one kind that hold a slot.
InFlight(running) == {j \in DOMAIN res : res[j] = Asked /\ list[j] = running}

\* The goroutine of container i gets a slot, or the round ends first.
Acquire(i) ==
  /\ At("details") /\ i \in DOMAIN res /\ res[i] = None
  /\ \/ /\ Cardinality(InFlight(list[i])) < MaxParallel
        /\ Result(i, Asked) /\ UNCHANGED errors
     \/ \E e \in Errors \ {"error"} : Fails(e) /\ Result(i, Failure(e))

\* Its request: stats when the list said running, else the last exit.  up, run and cpu are
\* the container's when the daemon answers.  A container that is gone is an error.
ReadDetails(i) ==
  /\ At("details") /\ i \in DOMAIN res /\ res[i] = Asked
  /\ \/ /\ Answers /\ world[i].exists
        /\ Result(i, [err |-> "", up |-> world[i].up, run |-> world[i].run,
                      cpu |-> world[i].cpu, round |-> round, kind |-> kind])
     \/ Answers /\ ~world[i].exists /\ Result(i, Failure("error"))
     \/ \E e \in Errors : Fails(e) /\ Result(i, Failure(e))

(***************************************************************************)
(* What a round makes of its results, once wg.Wait() has returned.         *)
(***************************************************************************)
AllRead == \A i \in DOMAIN res : res[i] \notin {None, Asked}

\* CPUPercent accepts the window: host time moved on and the counter did not go back.
Usable(prev, now) == now.round > prev.round /\ now.cpu >= prev.cpu

\* The containers whose stats were read while they ran.
Sampled == {i \in DOMAIN res : list[i] /\ res[i].err = "" /\ res[i].up}

\* fillStats: the two samples that cpuPercent is computed from, or None.
Cpu(i) ==
  IF i \in Sampled /\ i \in DOMAIN prevStats /\ Usable(prevStats[i], res[i])
  THEN [prev |-> prevStats[i], now |-> res[i]]
  ELSE None

\* Mutant of Exit: a container started again since the list is not left out.
ExitOfAny(i) ==
  IF res[i].err = "" /\ ~list[i] /\ res[i].run > 0
  THEN IF res[i].up THEN res[i].run - 1 ELSE res[i].run
  ELSE 0

\* state.Exit: the run whose exit code is published, 0 when there is none to publish.
Exit(i) == IF res[i].err = "" /\ ~list[i] /\ ~res[i].up THEN res[i].run ELSE 0

Entry(i) ==
  [state |-> list[i], error |-> res[i].err, cpu |-> Cpu(i), exit |-> Exit(i),
   \* history
   run |-> IF res[i].err = "" THEN res[i].run ELSE 0, sampled |-> i \in Sampled,
   since |-> lastDetails, base |-> base[i], pre |-> pre[i]]

\* Mutant of NewPrevStats: the samples of containers that were not read stay.
Unpruned == [i \in DOMAIN prevStats \cup Sampled |-> IF i \in Sampled THEN res[i] ELSE prevStats[i]]

\* prevStats is pruned to the containers that were sampled in this round.
NewPrevStats == [i \in Sampled |-> res[i]]

\* ctx.Err() != nil after the details: nothing is published.
Abandoned == cancelled

\* withDetails, and in a tick the check that follows it.
WithDetails ==
  /\ At("details") /\ AllRead /\ kind # "pre"
  /\ prevStats' = NewPrevStats
  /\ detailsFailing' = {i \in DOMAIN res : res[i].err # ""}
  /\ event' = IF kind = "tick" /\ ~Abandoned THEN [i \in DOMAIN res |-> Entry(i)] ELSE Empty
  /\ EndRound(IF kind = "tick" /\ ~Abandoned THEN "publish" ELSE "select")
  /\ lastDetails' = round
  /\ base' = [i \in Ids |-> IF i \in Sampled THEN res[i] ELSE None]
  /\ pre' = [i \in Ids |-> 0]
  /\ res' = Empty /\ list' = Empty
  /\ UNCHANGED <<world, env, round, armed, failing, cgroupVersion>>

\* Mutants of Missing: every reading is kept; only a container without any sample
\* is given one.
Everything == Sampled
OnlyNew == Sampled \ DOMAIN prevStats

\* Where the coming tick could not difference CPU against the stored sample.
Missing ==
  {i \in Sampled : i \in DOMAIN prevStats => ~Usable(prevStats[i], res[i])}

\* preReadCPU keeps those readings and drops the others.
KeepPreRead ==
  /\ At("details") /\ AllRead /\ kind = "pre"
  /\ prevStats' = [i \in DOMAIN prevStats \cup Missing |->
                     IF i \in Missing THEN res[i] ELSE prevStats[i]]
  /\ pre' = [i \in Ids |-> IF i \in Sampled THEN res[i].run ELSE pre[i]]
  /\ EndRound("select")
  /\ res' = Empty /\ list' = Empty
  /\ UNCHANGED <<world, env, round, armed, detailsFailing, failing, cgroupVersion, event,
                 lastDetails, base>>

\* PublishBatch.
Publish ==
  /\ At("publish")
  /\ event' = Empty
  /\ Goto("select")
  /\ UNCHANGED <<world, env, kind, round, armed, expired, list, res, kept, history>>

\* A panic in the publisher: runSupervised builds a new Collector.
Panic ==
  /\ At("publish") /\ errors < MaxErrors /\ errors' = errors + 1
  /\ prevStats' = Empty /\ detailsFailing' = {} /\ failing' = FALSE /\ cgroupVersion' = 0
  /\ armed' = UsesPreRead
  /\ event' = Empty
  /\ base' = [i \in Ids |-> None] /\ pre' = [i \in Ids |-> 0]
  /\ Goto("start")
  /\ UNCHANGED <<world, moves, cancelled, kind, round, expired, list, res, lastDetails>>

-----------------------------------------------------------------------------
Init ==
  /\ world \in [Ids -> {[exists |-> FALSE, up |-> FALSE, run |-> 0, cpu |-> 0],
                        [exists |-> TRUE, up |-> FALSE, run |-> 0, cpu |-> 0],
                        [exists |-> TRUE, up |-> TRUE, run |-> 1, cpu |-> 1]}]
  /\ moves = 0 /\ errors = 0 /\ cancelled = FALSE
  /\ pc = "start" /\ kind = None /\ round = 0 /\ armed = UsesPreRead /\ expired = FALSE
  /\ list = Empty /\ res = Empty /\ event = Empty
  /\ prevStats = Empty /\ detailsFailing = {} /\ failing = FALSE /\ cgroupVersion = 0
  /\ lastDetails = 0 /\ base = [i \in Ids |-> None] /\ pre = [i \in Ids |-> 0]

Run ==
  \/ ReadList \/ ReadInfo \/ (\E i \in Ids : Acquire(i) \/ ReadDetails(i))
  \/ WithDetails \/ KeepPreRead \/ Publish

Next ==
  \/ (\E i \in Ids : Happens(i)) \/ Cancel \/ Expire
  \/ Prime \/ Tick \/ PreRead \/ Return \/ Run \/ Panic
  \/ (At("done") \/ At("select")) /\ UNCHANGED vars

Spec == Init /\ [][Next]_vars

\* The bound has been used up by other failures, and the budget with it.
InTime == errors = MaxErrors /\ ~expired

\* The steps for which nobody need answer.
Own ==
  \/ (Over \/ InTime) /\ (ReadList \/ ReadInfo \/ \E i \in Ids : ReadDetails(i))
  \/ (\E i \in Ids : Acquire(i))
  \/ Prime \/ WithDetails \/ KeepPreRead \/ Publish

\* Goroutines are scheduled and the timer of the round fires; Docker need not answer,
\* unless it has failed as often as the bound allows.
FairSpec == Spec /\ WF_vars(Own) /\ WF_vars(Expire)

-----------------------------------------------------------------------------
\* A published CPU % is differenced against the sample of the last round that read
\* details, or of a pre-read after it: never across a round in which the container was
\* seen stopped, could not be read or was gone.  (A tick whose list fails reads no
\* details, and the next CPU % spans it.)
NoGap ==
  \A i \in DOMAIN event :
    event[i].cpu # None => event[i].cpu.prev.round >= event[i].since

\* A container that a pre-read sampled has a CPU % in the next event, if that finds it
\* in the same run: not only new containers, also ones restarted unnoticed.
CpuAfterPreRead ==
  \A i \in DOMAIN event :
    event[i].sampled /\ event[i].run = event[i].pre => event[i].cpu # None

\* A pre-read never shortens the window of a container whose stored sample would do.
WholeInterval ==
  \A i \in DOMAIN event :
    LET w == event[i].cpu IN
    w # None /\ w.prev.kind = "pre" =>
      event[i].base = None \/ event[i].base.cpu > w.prev.cpu

\* What an event says of a container is true of it: an exit code is that of its latest
\* run, which is over, and no failure is one that the shutdown caused.
EntryTrue ==
  \A i \in DOMAIN event :
    event[i].exit \in {0, event[i].run} /\ event[i].error # "cancelled"

\* A round ends though Docker answers no request at all, whether they wait for a slot or
\* for an answer, and so a tick or the shutdown is looked at again.
RoundEnds == At("list") ~> At("select")
=============================================================================
