-------------------------------- MODULE Agent --------------------------------
(***************************************************************************)
(* The agent's process: main.go, with one supervised goroutine for each    *)
(* enabled component, and the loop that the heartbeat (heartbeat.go) and   *)
(* the collectors share: wait out the startup delay, publish, then publish *)
(* on every tick until ctx is cancelled.                                   *)
(*                                                                         *)
(* What a collector reads is in its own module.  Here a round is a read    *)
(* that may take any time, or never end where the code waits without a     *)
(* deadline, followed by a publish that ends by the timeouts of the Redis  *)
(* client.  A tailer's poll counts as a tick; it has no startup delay.     *)
(***************************************************************************)
EXTENDS Naturals, Sequences, FiniteSets

CONSTANTS
  Order,        \* the components, in the order main starts them
  Heartbeat,    \* the one that reads nothing
  CanHang,      \* the ones whose reads may block for ever (statfs in serverStorage)
  MaxPanics     \* bound: panics recovered

Components == {Order[i] : i \in DOMAIN Order}

ASSUME AgentAssumption ==
  /\ Order \in Seq(Components)
  /\ \A i, j \in DOMAIN Order : Order[i] = Order[j] => i = j
  /\ Heartbeat \in Components
  /\ CanHang \subseteq Components \ {Heartbeat}
  /\ MaxPanics \in Nat

VARIABLES
  main,         \* where main is
  enabled,      \* the components the config enables
  next,         \* how many entries of Order main has gone through
  client,       \* the Redis client: "none", "open" or "closed"
  cancelled,    \* ctx
  wg,           \* the WaitGroup's counter
  gor,          \* where each component's goroutine is
  tick,         \* the ticker's channel holds a tick
  panics

vars == <<main, enabled, next, client, cancelled, wg, gor, tick, panics>>

Alive == main \notin {"killed", "exited"}

At(c, l) == gor[c] = l
Goto(c, l) == gor' = [gor EXCEPT ![c] = l]

(***************************************************************************)
(* main.                                                                   *)
(***************************************************************************)
\* The config is loaded; a bad one, or one that enables nothing, ends the process.
LoadConfig ==
  /\ main = "load"
  /\ \E e \in SUBSET Components :
       /\ enabled' = e
       /\ main' \in IF e = {} THEN {"exited"} ELSE {"exited", "connect"}
  /\ UNCHANGED <<next, client, cancelled, wg, gor, tick, panics>>

\* redis.New: connected, or tried again redisConnectRetry later.
Connect ==
  /\ main = "connect"
  /\ \/ client' = "open" /\ main' = "start"
     \/ UNCHANGED <<client, main>>
  /\ UNCHANGED <<enabled, next, cancelled, wg, gor, tick, panics>>

\* runSupervised for the next component, if it is enabled: wg.Add(1) and go.
Start ==
  /\ main = "start" /\ next < Len(Order)
  /\ next' = next + 1
  /\ LET c == Order[next + 1] IN
       IF c \in enabled
       THEN wg' = wg + 1 /\ Goto(c, "loop")
       ELSE UNCHANGED <<wg, gor>>
  /\ UNCHANGED <<main, enabled, client, cancelled, tick, panics>>

\* signal.Notify: from here on a signal is handled.
Notify ==
  /\ main = "start" /\ next = Len(Order)
  /\ main' = "serve"
  /\ UNCHANGED <<enabled, next, client, cancelled, wg, gor, tick, panics>>

\* SIGTERM or SIGINT: cancel(), or the end of the process when it comes too early.
Signal ==
  /\ main \in {"load", "connect", "start", "serve"}
  /\ IF main = "serve" THEN main' = "wait" /\ cancelled' = TRUE
                       ELSE main' = "killed" /\ UNCHANGED cancelled
  /\ UNCHANGED <<enabled, next, client, wg, gor, tick, panics>>

\* wg.Wait() returns and the client is closed.
Close ==
  /\ main = "wait" /\ wg = 0
  /\ client' = "closed"
  /\ main' = "exited"
  /\ UNCHANGED <<enabled, next, cancelled, wg, gor, tick, panics>>

(***************************************************************************)
(* runSupervised and what it runs.                                         *)
(***************************************************************************)
\* Mutant of CtxErr: the supervisor does not look at ctx.
NoCtxErr == FALSE

CtxErr == cancelled

\* The loop condition: a new component is built and run, with a new ticker, or the
\* deferred wg.Done() ends the goroutine.
Loop(c) ==
  /\ At(c, "loop")
  /\ IF CtxErr
     THEN Goto(c, "ended") /\ wg' = wg - 1 /\ UNCHANGED tick
     ELSE Goto(c, "startup") /\ tick' = [tick EXCEPT ![c] = FALSE] /\ UNCHANGED wg
  /\ UNCHANGED <<main, enabled, next, client, cancelled, panics>>

\* WaitForStartup: the delay passes or, both being possible at once, ctx is done.
Startup(c) ==
  /\ At(c, "startup")
  /\ \/ Goto(c, "collect")
     \/ cancelled /\ Goto(c, "pause")
  /\ UNCHANGED <<main, enabled, next, client, cancelled, wg, tick, panics>>

\* The readings are taken (the heartbeat takes none), and PublishBatch is called.
Collect(c) ==
  /\ At(c, "collect")
  /\ \/ Goto(c, "publish")
     \/ c \in CanHang /\ Goto(c, "hung")
  /\ UNCHANGED <<main, enabled, next, client, cancelled, wg, tick, panics>>

\* A read that hung is answered after all.
Answer(c) ==
  /\ At(c, "hung")
  /\ Goto(c, "publish")
  /\ UNCHANGED <<main, enabled, next, client, cancelled, wg, tick, panics>>

\* PublishBatch returns, delivered or not; nothing is retried.
Publish(c) ==
  /\ At(c, "publish")
  /\ Goto(c, "select")
  /\ UNCHANGED <<main, enabled, next, client, cancelled, wg, tick, panics>>

\* The ticker's channel holds one tick; more are dropped.
Tick(c) ==
  /\ gor[c] \in {"startup", "collect", "publish", "select", "hung"} /\ ~tick[c]
  /\ tick' = [tick EXCEPT ![c] = TRUE]
  /\ UNCHANGED <<main, enabled, next, client, cancelled, wg, gor, panics>>

\* select, when a tick is there: the next round.
TakeTick(c) ==
  /\ At(c, "select") /\ tick[c]
  /\ tick' = [tick EXCEPT ![c] = FALSE]
  /\ Goto(c, "collect")
  /\ UNCHANGED <<main, enabled, next, client, cancelled, wg, panics>>

\* select, when ctx is done: Run returns.
Done(c) ==
  /\ At(c, "select") /\ cancelled
  /\ Goto(c, "pause")
  /\ UNCHANGED <<main, enabled, next, client, cancelled, wg, tick, panics>>

\* Mutants of Recover: wg.Done() is deferred in the function that recovers, so that
\* every panic counts down; the recovery is around the loop and ends it.
RecoverAndDone(c) == Goto(c, "pause") /\ wg' = wg - 1
RecoverAndEnd(c) == Goto(c, "ended") /\ wg' = wg - 1

\* The deferred recover, around one run.
Recover(c) == Goto(c, "pause") /\ UNCHANGED wg

\* A panic in a round.
Panic(c) ==
  /\ panics < MaxPanics
  /\ At(c, "collect") \/ At(c, "publish")
  /\ panics' = panics + 1
  /\ Recover(c)
  /\ UNCHANGED <<main, enabled, next, client, cancelled, tick>>

\* restartDelay, cut short by ctx.
Pause(c) ==
  /\ At(c, "pause")
  /\ Goto(c, "loop")
  /\ UNCHANGED <<main, enabled, next, client, cancelled, wg, tick, panics>>

-----------------------------------------------------------------------------
Init ==
  /\ main = "load" /\ enabled = {} /\ next = 0 /\ client = "none"
  /\ cancelled = FALSE /\ wg = 0 /\ panics = 0
  /\ gor = [c \in Components |-> "none"]
  /\ tick = [c \in Components |-> FALSE]

Main == LoadConfig \/ Connect \/ Start \/ Notify \/ Close

Goroutine(c) ==
  \/ Loop(c) \/ Startup(c) \/ Collect(c) \/ Publish(c) \/ TakeTick(c) \/ Done(c)
  \/ Pause(c)

Next ==
  \/ Alive /\ (Main \/ Signal)
  \/ Alive /\ \E c \in Components : Goroutine(c) \/ Answer(c) \/ Tick(c) \/ Panic(c)
  \/ ~Alive /\ UNCHANGED vars

Spec == Init /\ [][Next]_vars

\* main and the goroutines keep being scheduled and tickers keep firing.  A select
\* with two ready channels picks one at random, so it does not pass over ctx.Done()
\* for ever.  Nothing is assumed of signals and panics, nor of a read that hangs.
FairSpec ==
  /\ Spec
  /\ WF_vars(Alive /\ (Start \/ Notify \/ Close))
  /\ \A c \in Components :
       /\ WF_vars(Alive /\ Goroutine(c)) /\ WF_vars(Alive /\ Tick(c))
       /\ SF_vars(Alive /\ Done(c))

-----------------------------------------------------------------------------
GorStates ==
  {"none", "loop", "startup", "collect", "publish", "select", "hung", "pause", "ended"}

TypeOK ==
  /\ main \in {"load", "connect", "start", "serve", "wait", "killed", "exited"}
  /\ enabled \subseteq Components /\ next \in 0..Len(Order)
  /\ client \in {"none", "open", "closed"} /\ cancelled \in BOOLEAN /\ wg \in Nat
  /\ gor \in [Components -> GorStates] /\ tick \in [Components -> BOOLEAN]
  /\ panics \in Nat

Unfinished == {c \in Components : gor[c] \notin {"none", "ended"}}

\* The client is closed once every goroutine has ended, and only then is nothing in
\* flight: no component uses a closed client, whatever panicked or restarted before.
ClosedLast == client = "closed" => Unfinished = {}

\* The WaitGroup counts the goroutines that have not ended.
WaitGroupExact == wg = Cardinality(Unfinished)

\* After a signal the process ends, unless a component hangs in a read that nothing
\* can cancel.
ShutsDown == cancelled ~> (~Alive \/ \E c \in Components : At(c, "hung"))

\* Until the shutdown the heartbeat goes on publishing, whatever the other components
\* do: it survives their panics and its own, and a collector stuck on a dead mount.
BeatGoesOn ==
  [](main = "serve" /\ Heartbeat \in enabled =>
       <>(main # "serve" \/ At(Heartbeat, "publish")))
=============================================================================
