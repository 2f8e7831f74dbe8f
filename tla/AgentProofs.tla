----------------------------- MODULE AgentProofs -----------------------------
(***************************************************************************)
(* The shutdown order of module Agent, for any number of components: the   *)
(* WaitGroup counts exactly the goroutines that have not ended, through    *)
(* every panic and restart, so main closes the Redis client last.          *)
(***************************************************************************)
EXTENDS Agent, FiniteSetTheorems, TLAPS

\* The goroutines of the components that main has not come to do not exist, and a
\* closed client means that main has gone through to its end.
NotYetStarted == \A i \in DOMAIN Order : i > next => gor[Order[i]] = "none"
ClosedMeansExited == client = "closed" => main = "exited"

IInv == TypeOK /\ WaitGroupExact /\ NotYetStarted /\ ClosedMeansExited /\ ClosedLast

LEMMA ComponentsFinite == IsFiniteSet(Components)
<1>1. Order \in Seq(Components) /\ DOMAIN Order = 1..Len(Order) /\ Len(Order) \in Nat
  BY AgentAssumption
<1>2. Order \in Surjection(1..Len(Order), Components)
  BY <1>1 DEF Surjection, Components
<1>3. IsFiniteSet(1..Len(Order))
  BY <1>1, FS_Interval
<1> QED
  BY <1>2, <1>3, FS_Surjection

LEMMA UnfinishedFinite == IsFiniteSet(Unfinished) /\ Cardinality(Unfinished) \in Nat
<1>1. Unfinished \in SUBSET Components
  BY DEF Unfinished
<1> QED
  BY <1>1, ComponentsFinite, FS_Subset, FS_CardinalityType

LEMMA InitIInv == Init => IInv
<1> SUFFICES ASSUME Init PROVE IInv
  OBVIOUS
<1>1. Len(Order) \in Nat
  BY AgentAssumption
<1>2. TypeOK
  <2>1. gor \in [Components -> GorStates] /\ tick \in [Components -> BOOLEAN]
    BY DEF Init, GorStates
  <2>2. next \in 0..Len(Order)
    BY <1>1 DEF Init
  <2> QED
    BY <2>1, <2>2 DEF Init, TypeOK
<1>3. Unfinished = {}
  BY DEF Init, Unfinished
<1>4. WaitGroupExact
  BY <1>3, FS_EmptySet DEF Init, WaitGroupExact
<1>5. NotYetStarted
  BY DEF Init, NotYetStarted, Components
<1> QED
  BY <1>2, <1>3, <1>4, <1>5 DEF Init, IInv, ClosedMeansExited, ClosedLast

\* The steps of main that leave the goroutines alone.
LEMMA MainIInv ==
  ASSUME IInv, Alive, LoadConfig \/ Connect \/ Notify \/ Signal \/ Close
  PROVE  IInv'
<1> USE DEF IInv
<1>1. gor' = gor /\ wg' = wg /\ tick' = tick /\ panics' = panics /\ next' = next
  BY DEF LoadConfig, Connect, Notify, Signal, Close
<1>2. enabled' \subseteq Components
  BY DEF TypeOK, LoadConfig, Connect, Notify, Signal, Close
<1>3. /\ main' \in {"load", "connect", "start", "serve", "wait", "killed", "exited"}
      /\ client' \in {"none", "open", "closed"}
  BY DEF TypeOK, LoadConfig, Connect, Notify, Signal, Close
<1>4. cancelled' \in BOOLEAN
  BY DEF TypeOK, LoadConfig, Connect, Notify, Signal, Close
<1>5. TypeOK'
  BY <1>1, <1>2, <1>3, <1>4 DEF TypeOK
<1>6. Unfinished' = Unfinished
  BY <1>1 DEF Unfinished
<1>7. WaitGroupExact' /\ NotYetStarted'
  BY <1>1, <1>6 DEF WaitGroupExact, NotYetStarted
<1>8. ClosedMeansExited' /\ ClosedLast'
  <2>1. client # "closed"
    BY DEF Alive, ClosedMeansExited
  <2>2. CASE Close
    <3>1. Unfinished = {}
      BY <2>2, UnfinishedFinite, FS_EmptySet DEF Close, WaitGroupExact
    <3> QED
      BY <2>2, <3>1, <1>6 DEF Close, ClosedMeansExited, ClosedLast
  <2>3. CASE LoadConfig \/ Connect \/ Notify \/ Signal
    BY <2>1, <2>3 DEF LoadConfig, Connect, Notify, Signal, ClosedMeansExited, ClosedLast
  <2> QED
    BY <2>2, <2>3
<1> QED
  BY <1>5, <1>7, <1>8

\* runSupervised starts a goroutine and counts it.
LEMMA StartIInv == ASSUME IInv, Alive, Start PROVE IInv'
<1> USE DEF IInv
<1> DEFINE c == Order[next + 1]
<1>1. /\ Len(Order) \in Nat /\ DOMAIN Order = 1..Len(Order)
      /\ next \in 0..Len(Order) /\ next < Len(Order)
  BY AgentAssumption DEF TypeOK, Start
<1>2. next + 1 \in DOMAIN Order /\ c \in Components /\ gor[c] = "none"
  BY <1>1 DEF Components, NotYetStarted
<1>3. client # "closed" /\ client' = client /\ main' = main /\ next' = next + 1
  BY DEF Alive, ClosedMeansExited, Start
<1>4. CASE c \in enabled
  <2>1. wg' = wg + 1 /\ gor' = [gor EXCEPT ![c] = "loop"]
    BY <1>4 DEF Start, Goto
  <2>2. TypeOK'
    <3>1. gor' \in [Components -> GorStates] /\ wg' \in Nat /\ next' \in 0..Len(Order)
      BY <1>1, <1>2, <1>3, <2>1 DEF TypeOK, GorStates
    <3> QED
      BY <1>3, <3>1 DEF TypeOK, Start
  <2>3. Unfinished' = Unfinished \cup {c} /\ c \notin Unfinished
    BY <1>2, <2>1 DEF Unfinished, TypeOK
  <2>4. Cardinality(Unfinished') = Cardinality(Unfinished) + 1
    BY <2>3, UnfinishedFinite, FS_AddElement
  <2>5. NotYetStarted'
    <3> SUFFICES ASSUME NEW i \in DOMAIN Order, i > next + 1 PROVE gor'[Order[i]] = "none"
      BY <1>3 DEF NotYetStarted
    <3>1. Order[i] # c /\ Order[i] \in Components
      BY <1>1, <1>2, AgentAssumption DEF Components
    <3>2. gor[Order[i]] = "none"
      BY <1>1 DEF NotYetStarted
    <3> QED
      BY <2>1, <3>1, <3>2 DEF TypeOK
  <2> QED
    BY <1>3, <2>1, <2>2, <2>4, <2>5 DEF WaitGroupExact, ClosedMeansExited, ClosedLast
<1>5. CASE c \notin enabled
  <2>1. wg' = wg /\ gor' = gor
    BY <1>5 DEF Start
  <2>2. Unfinished' = Unfinished
    BY <2>1 DEF Unfinished
  <2>3. TypeOK'
    BY <1>1, <1>3, <2>1 DEF TypeOK, Start
  <2>4. NotYetStarted'
    BY <1>1, <1>3, <2>1 DEF NotYetStarted
  <2> QED
    BY <1>3, <2>1, <2>2, <2>3, <2>4 DEF WaitGroupExact, ClosedMeansExited, ClosedLast
<1> QED
  BY <1>4, <1>5

\* A goroutine moves on, and has not ended: the count stays.
LEMMA KeepsRunning ==
  ASSUME IInv, Alive, NEW c \in Components, NEW l \in GorStates \ {"none", "ended"},
         gor[c] \notin {"none", "ended"}, Goto(c, l), wg' = wg,
         UNCHANGED <<main, enabled, next, client, cancelled>>,
         tick' \in [Components -> BOOLEAN], panics' \in Nat
  PROVE  IInv'
<1> USE DEF IInv
<1>1. gor' = [gor EXCEPT ![c] = l] /\ gor \in [Components -> GorStates]
  BY DEF Goto, TypeOK
<1>2. TypeOK'
  BY <1>1 DEF TypeOK
<1>3. Unfinished' = Unfinished
  BY <1>1 DEF Unfinished
<1>4. NotYetStarted'
  <2> SUFFICES ASSUME NEW i \in DOMAIN Order, i > next PROVE gor'[Order[i]] = "none"
    BY DEF NotYetStarted
  <2>1. gor[Order[i]] = "none" /\ Order[i] \in Components
    BY DEF NotYetStarted, Components
  <2> QED
    BY <1>1, <2>1
<1> QED
  BY <1>2, <1>3, <1>4 DEF WaitGroupExact, ClosedMeansExited, ClosedLast

\* wg.Done(): a goroutine ends and is no longer counted.
LEMMA EndsIInv ==
  ASSUME IInv, Alive, NEW c \in Components, Loop(c), CtxErr PROVE IInv'
<1> USE DEF IInv
<1>1. /\ gor' = [gor EXCEPT ![c] = "ended"] /\ gor \in [Components -> GorStates]
      /\ gor[c] = "loop" /\ wg' = wg - 1
  BY DEF Loop, Goto, At, TypeOK
<1>2. Unfinished' = Unfinished \ {c} /\ c \in Unfinished
  BY <1>1 DEF Unfinished
<1>3. Cardinality(Unfinished') = Cardinality(Unfinished) - 1
  BY <1>2, UnfinishedFinite, FS_RemoveElement
<1>4. Cardinality(Unfinished') \in Nat
  <2>1. IsFiniteSet(Unfinished')
    BY <1>2, UnfinishedFinite, FS_RemoveElement
  <2> QED
    BY <2>1, FS_CardinalityType
<1>5. wg' = Cardinality(Unfinished')
  BY <1>1, <1>3 DEF WaitGroupExact
<1>6. TypeOK'
  <2>1. gor' \in [Components -> GorStates]
    BY <1>1 DEF GorStates
  <2> QED
    BY <1>4, <1>5, <2>1 DEF TypeOK, Loop
<1>7. NotYetStarted'
  <2> SUFFICES ASSUME NEW i \in DOMAIN Order, i > next PROVE gor'[Order[i]] = "none"
    BY DEF NotYetStarted, Loop
  <2>1. gor[Order[i]] = "none" /\ Order[i] \in Components
    BY DEF NotYetStarted, Components
  <2> QED
    BY <1>1, <2>1
<1>8. client' = client /\ main' = main /\ client # "closed"
  BY DEF Loop, Alive, ClosedMeansExited
<1> QED
  BY <1>5, <1>6, <1>7, <1>8 DEF WaitGroupExact, ClosedMeansExited, ClosedLast

\* The steps of a component's goroutine.
LEMMA GoroutineIInv ==
  ASSUME IInv, Alive, NEW c \in Components,
         Goroutine(c) \/ Answer(c) \/ Tick(c) \/ Panic(c)
  PROVE  IInv'
<1> USE DEF At
<1>0. tick \in [Components -> BOOLEAN] /\ panics \in Nat
  BY DEF IInv, TypeOK
<1>1. CASE Loop(c)
  <2>1. CASE CtxErr
    BY <1>1, <2>1, EndsIInv
  <2>2. CASE ~CtxErr
    <3>1. /\ gor[c] = "loop" /\ Goto(c, "startup") /\ wg' = wg /\ panics' = panics
          /\ UNCHANGED <<main, enabled, next, client, cancelled>>
      BY <1>1, <2>2 DEF Loop
    <3>2. tick' \in [Components -> BOOLEAN]
      BY <1>0, <1>1, <2>2 DEF Loop
    <3>3. "startup" \in GorStates \ {"none", "ended"}
      BY DEF GorStates
    <3> QED
      BY <1>0, <3>1, <3>2, <3>3, KeepsRunning
  <2> QED
    BY <2>1, <2>2
<1>2. CASE Startup(c) \/ Collect(c) \/ Answer(c) \/ Publish(c) \/ Done(c) \/ Pause(c)
  <2>1. /\ gor[c] \notin {"none", "ended"} /\ wg' = wg /\ panics' = panics /\ tick' = tick
        /\ UNCHANGED <<main, enabled, next, client, cancelled>>
    BY <1>2 DEF Startup, Collect, Answer, Publish, Done, Pause
  <2>2. \E l \in GorStates \ {"none", "ended"} : Goto(c, l)
    BY <1>2 DEF Startup, Collect, Answer, Publish, Done, Pause, GorStates
  <2> QED
    BY <1>0, <2>1, <2>2, KeepsRunning
<1>3. CASE TakeTick(c)
  <2>1. /\ gor[c] = "select" /\ Goto(c, "collect") /\ wg' = wg /\ panics' = panics
        /\ UNCHANGED <<main, enabled, next, client, cancelled>>
    BY <1>3 DEF TakeTick
  <2>2. tick' \in [Components -> BOOLEAN]
    BY <1>0, <1>3 DEF TakeTick
  <2>3. "collect" \in GorStates \ {"none", "ended"}
    BY DEF GorStates
  <2> QED
    BY <1>0, <2>1, <2>2, <2>3, KeepsRunning
<1>4. CASE Tick(c)
  <2>1. /\ UNCHANGED <<main, enabled, next, client, cancelled, wg, gor, panics>>
        /\ tick' \in [Components -> BOOLEAN]
    BY <1>0, <1>4 DEF Tick
  <2>2. Unfinished' = Unfinished
    BY <2>1 DEF Unfinished
  <2> QED
    BY <2>1, <2>2
    DEF IInv, TypeOK, WaitGroupExact, NotYetStarted, ClosedMeansExited, ClosedLast
<1>5. CASE Panic(c)
  <2>1. /\ gor[c] \in {"collect", "publish"} /\ Goto(c, "pause") /\ wg' = wg /\ tick' = tick
        /\ panics' = panics + 1 /\ UNCHANGED <<main, enabled, next, client, cancelled>>
    BY <1>5 DEF Panic, Recover
  <2>2. panics' \in Nat /\ "pause" \in GorStates \ {"none", "ended"}
    BY <1>0, <2>1 DEF GorStates
  <2> QED
    BY <1>0, <2>1, <2>2, KeepsRunning
<1> QED
  BY <1>1, <1>2, <1>3, <1>4, <1>5 DEF Goroutine

LEMMA NextIInv == IInv /\ [Next]_vars => IInv'
<1> SUFFICES ASSUME IInv, [Next]_vars PROVE IInv'
  OBVIOUS
<1>1. CASE Alive /\ (Main \/ Signal)
  BY <1>1, MainIInv, StartIInv DEF Main
<1>2. CASE Alive /\ \E c \in Components : Goroutine(c) \/ Answer(c) \/ Tick(c) \/ Panic(c)
  BY <1>2, GoroutineIInv
<1>3. CASE UNCHANGED vars
  <2>1. Unfinished' = Unfinished
    BY <1>3 DEF vars, Unfinished
  <2> QED
    BY <1>3, <2>1
    DEF vars, IInv, TypeOK, WaitGroupExact, NotYetStarted, ClosedMeansExited, ClosedLast
<1> QED
  BY <1>1, <1>2, <1>3 DEF Next

LEMMA SpecIInv == Spec => []IInv
BY InitIInv, NextIInv, PTL DEF Spec

\* However many components there are, and however often they panic and restart, the
\* WaitGroup of main counts the goroutines that have not ended: never too few, so that
\* wg.Wait() does not return early, and never too many.
THEOREM WaitGroupCorrect == Spec => [](TypeOK /\ WaitGroupExact)
<1>1. IInv => TypeOK /\ WaitGroupExact
  BY DEF IInv
<1> QED
  BY <1>1, SpecIInv, PTL

\* The Redis client is closed only when no component can use it any more.
THEOREM ClientClosedLast == Spec => []ClosedLast
<1>1. IInv => ClosedLast
  BY DEF IInv
<1> QED
  BY <1>1, SpecIInv, PTL
=============================================================================
