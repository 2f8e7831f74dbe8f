-------------------------- MODULE ResourcesProofs --------------------------
(***************************************************************************)
(* The figures of module Resources, for any interfaces, any kernel and any *)
(* number of failed readings: what a published percentage and a published  *)
(* rate are about, and why one is missing.  Then the sizes of module       *)
(* Usage, for any word size that holds them.                               *)
(***************************************************************************)
EXTENDS Resources, Recursion, FiniteSetTheorems, TLAPS

CPUHistory == [busy : Nat, of : Nat, back : BOOLEAN, had : BOOLEAN]

NetHistory ==
  [bytes : [Ifaces -> Bytes], renewed : SUBSET Ifaces, kept : SUBSET Ifaces,
   had : BOOLEAN, secs : Nat]

\* The counters of some interfaces.
Counters(c) == DOMAIN c \subseteq Ifaces /\ c \in [DOMAIN c -> Bytes]

KernelOK ==
  /\ stat \in [user : Nat, guest : Nat, idle : Nat, iowait : Nat]
  /\ clock \in Nat
  /\ Counters(net)

EventOK ==
  /\ event \in [used : {Missing} \cup [busy : Nat, of : Nat],
                network : {Missing} \cup [rx : Int, tx : Int, secs : Nat],
                load : BOOLEAN, cpu : BOOLEAN]
  /\ primed \in BOOLEAN

\* The time in user columns is exact; the whole time is as long as iowait does not go back.
CPUSince(prev, s, h) ==
  /\ h.busy <= h.of
  /\ h.had => /\ prev \in CPUReading
              /\ s.user + prev.idle = prev.total + h.busy
              /\ ~h.back => s.user + s.idle + s.iowait = prev.total + h.of
  /\ ~h.had => prev = Missing

CPUOK ==
  /\ cpuIn \in CPUHistory
  /\ CPUSince(prevCPU, stat, cpuIn)

\* The percentage is what the window says, and missing only for a reason.
UsedOK ==
  /\ PercentExact
  /\ cpuWin # Missing /\ event.used = Missing => ~cpuWin.had \/ cpuWin.of = 0 \/ cpuWin.back

\* The counters that were not renewed since old were read have counted on.
NetSince(old, now, h) ==
  \A i \in DOMAIN old \ h.renewed :
    /\ i \in DOMAIN now
    /\ now[i].rx = old[i].rx + h.bytes[i].rx
    /\ now[i].tx = old[i].tx + h.bytes[i].tx

\* The baseline of the rates.
Baseline(prev, h) ==
  /\ h.had => Counters(prev) /\ DOMAIN prev = h.kept
  /\ ~h.had => prev = Missing

\* Between /proc/net/dev and the device links the reading is in sample: netWin is the
\* history up to it and netIn what has happened since.
NetOK ==
  /\ netIn \in NetHistory
  /\ prevNetAt \in Nat /\ prevNetAt <= clock
  /\ At("sys") =>
       /\ Counters(sample) /\ netIn.had /\ NetSince(sample, net, netIn)
       /\ netWin \in NetHistory /\ Baseline(prevNet, netWin)
       /\ netWin.had => NetSince(prevNet, sample, netWin)
  /\ ~At("sys") =>
       /\ Baseline(prevNet, netIn)
       /\ netIn.had => NetSince(prevNet, net, netIn)

NetworkOK ==
  /\ ~At("publish") => event.network = Missing
  /\ ~At("sys") /\ ~At("publish") => netWin = Missing
  /\ RateExact
  /\ At("publish") =>
       /\ netWin # Missing /\ event.network = Missing =>
            \/ ~netWin.had \/ netWin.kept = {} \/ netWin.kept \cap netWin.renewed # {}
            \/ netWin.secs = 0
       /\ ~event.cpu => event.used = Missing /\ ~event.load

IInv == KernelOK /\ EventOK /\ CPUOK /\ UsedOK /\ NetOK /\ NetworkOK

-----------------------------------------------------------------------------
(***************************************************************************)
(* A sum of integers is an integer.                                        *)
(***************************************************************************)
First(s) == CHOOSE x \in s : TRUE

SumStep(f, S, g) ==
  [s \in SUBSET S |-> IF s = {} THEN 0 ELSE f[First(s)] + g[s \ {First(s)}]]

LEMMA SumIsFixpoint ==
  ASSUME NEW f, NEW g, g = SumStep(f, DOMAIN f, g)
  PROVE  \E h : h = SumStep(f, DOMAIN f, h) /\ SumFunction(f) = h[DOMAIN f]
<1> DEFINE S == DOMAIN f
           h == CHOOSE k : k = SumStep(f, S, k)
<1>1. h = SumStep(f, S, h)
  OBVIOUS
<1>2. SumFunction(f) = h[S]
  BY DEF SumFunction, SumFunctionOnSet, FoldFunctionOnSet, MapThenFoldSet, SumStep, First
<1> QED
  BY <1>1, <1>2

LEMMA SumIsInt ==
  ASSUME NEW f, IsFiniteSet(DOMAIN f), \A i \in DOMAIN f : f[i] \in Int
  PROVE  SumFunction(f) \in Int
<1> DEFINE S == DOMAIN f
           pick == [s \in SUBSET S |-> First(s)]
           step == [s \in SUBSET S |-> [n \in Int |-> IF s = {} THEN 0 ELSE f[First(s)] + n]]
<1>1. \A s \in SUBSET S : s # {} => pick[s] \in s
  BY DEF First
<1>2. step \in [SUBSET S -> [Int -> Int]]
  <2>1. ASSUME NEW s \in SUBSET S, NEW n \in Int
        PROVE  (IF s = {} THEN 0 ELSE f[First(s)] + n) \in Int
    BY DEF First
  <2> QED
    BY <2>1
<1>3. \A s \in SUBSET S, n \in Int : s # {} => step[s][n] = f[First(s)] + n
  OBVIOUS
<1>4. \A s \in SUBSET S : pick[s] = First(s)
  OBVIOUS
<1>5. 0 \in Int
  OBVIOUS
<1> HIDE DEF S, pick, step
<1>6. IsFiniteSet(S)
  BY DEF S
<1>7. PICK g : SetIterates(g, S, Int, 0, step, pick)
  BY <1>1, <1>2, <1>5, <1>6, SetRecursionExists
<1>8. g \in [SUBSET S -> Int] /\ g[{}] = 0
  BY <1>7 DEF SetIterates
<1>9. ASSUME NEW s \in SUBSET S, s # {} PROVE g[s] = f[First(s)] + g[s \ {First(s)}]
  <2>1. g[s] = step[s][g[s \ {First(s)}]]
    BY <1>4, <1>7, <1>9 DEF SetIterates
  <2>2. g[s \ {First(s)}] \in Int
    BY <1>8
  <2> QED
    BY <1>3, <1>9, <2>1, <2>2
<1>10. g = SumStep(f, DOMAIN f, g)
  BY <1>8, <1>9 DEF SumStep, S
<1>11. PICK h : h = SumStep(f, DOMAIN f, h) /\ SumFunction(f) = h[DOMAIN f]
  BY <1>10, SumIsFixpoint
<1>12. /\ h[{}] = 0
       /\ \A s \in SUBSET S : s # {} => h[s] = f[First(s)] + h[s \ {First(s)}]
  BY <1>11 DEF SumStep, S
<1>13. SameSetSteps(g, h, S, pick)
  BY <1>4, <1>8, <1>9, <1>12 DEF SameSetSteps
<1>14. g[S] = h[S]
  BY <1>1, <1>6, <1>13, SetRecursionUnique
<1> QED
  BY <1>8, <1>11, <1>14 DEF S

-----------------------------------------------------------------------------
(***************************************************************************)
(* The initial state, and the moves of the kernel.                         *)
(***************************************************************************)
LEMMA NewHistories ==
  ASSUME NEW b \in BOOLEAN
  PROVE  /\ NewCPU(b) \in CPUHistory /\ NewNet(b) \in NetHistory
         /\ NewCPU(b) = [busy |-> 0, of |-> 0, back |-> FALSE, had |-> b]
         /\ NewNet(b).had = b /\ NewNet(b).kept = {} /\ NewNet(b).renewed = {}
         /\ \A i \in Ifaces : NewNet(b).bytes[i] = [rx |-> 0, tx |-> 0]
<1>1. NoBytes \in Bytes
  BY DEF NoBytes, Bytes
<1>2. [i \in Ifaces |-> NoBytes] \in [Ifaces -> Bytes]
  BY <1>1
<1>3. NewNet(b) \in NetHistory
  BY <1>2 DEF NewNet, NetHistory
<1>4. NewCPU(b) \in CPUHistory
  BY DEF NewCPU, CPUHistory
<1> QED
  BY <1>3, <1>4 DEF NewNet, NewCPU, NoBytes

LEMMA NoEventOK ==
  NoEvent \in [used : {Missing} \cup [busy : Nat, of : Nat],
               network : {Missing} \cup [rx : Int, tx : Int, secs : Nat],
               load : BOOLEAN, cpu : BOOLEAN]
  BY DEF NoEvent

\* Without an earlier reading there is nothing to say of it.
LEMMA NothingSince ==
  ASSUME NEW s
  PROVE  CPUSince(Missing, s, NewCPU(FALSE)) /\ Baseline(Missing, NewNet(FALSE))
<1> DEFINE h == NewCPU(FALSE)
           k == NewNet(FALSE)
<1>1. h.busy = 0 /\ h.of = 0
  BY DEF NewCPU
<1>2. ~h.had /\ ~k.had
  BY DEF NewCPU, NewNet
<1> HIDE DEF h, k
<1>3. CPUSince(Missing, s, h)
  BY <1>1, <1>2 DEF CPUSince
<1>4. Baseline(Missing, k)
  BY <1>2 DEF Baseline
<1> QED
  BY <1>3, <1>4 DEF h, k

LEMMA InitIInv == Init => IInv
<1> SUFFICES ASSUME Init PROVE IInv
  OBVIOUS
<1>1. KernelOK
  <2>1. PICK S \in SUBSET Ifaces : net = [i \in S |-> [rx |-> 1, tx |-> 1]]
    BY DEF Init
  <2>2. [rx |-> 1, tx |-> 1] \in Bytes
    BY DEF Bytes
  <2>3. Counters(net)
    BY <2>1, <2>2 DEF Counters
  <2> QED
    BY <2>3 DEF Init, KernelOK
<1>2. EventOK
  BY NoEventOK DEF Init, EventOK
<1>3. CPUOK
  BY NewHistories, NothingSince DEF Init, CPUOK
<1>4. event.used = Missing /\ cpuWin = Missing /\ event.network = Missing /\ netWin = Missing
  BY DEF Init, NoEvent
<1>5. UsedOK
  BY <1>4 DEF UsedOK, PercentExact
<1>6. NetOK
  <2>1. netIn = NewNet(FALSE) /\ prevNet = Missing /\ prevNetAt = 0 /\ clock = 0
    BY DEF Init
  <2>2. ~At("sys")
    BY DEF Init, At
  <2>3. ~netIn.had
    BY <2>1 DEF NewNet
  <2>4. Baseline(prevNet, netIn) /\ netIn \in NetHistory
    BY <2>1, NewHistories, NothingSince
  <2>5. prevNetAt \in Nat /\ prevNetAt <= clock
    BY <2>1
  <2> QED
    BY <2>2, <2>3, <2>4, <2>5 DEF NetOK
<1>7. NetworkOK
  BY <1>4 DEF NetworkOK, RateExact, Init, At
<1> QED
  BY <1>1, <1>2, <1>3, <1>5, <1>6, <1>7 DEF IInv

\* The figures depend on nothing else.
LEMMA FiguresSame ==
  ASSUME EventOK, UsedOK, NetworkOK, UNCHANGED <<pc, primed, event, cpuWin, netWin>>
  PROVE  EventOK' /\ UsedOK' /\ NetworkOK'
<1>1. EventOK'
  BY DEF EventOK
<1>2. UsedOK'
  BY DEF UsedOK, PercentExact
<1>3. NetworkOK'
  BY DEF NetworkOK, RateExact, At, Sum
<1> QED
  BY <1>1, <1>2, <1>3

LEMMA CPUSame ==
  ASSUME CPUOK, UNCHANGED <<stat, prevCPU, cpuIn>>
  PROVE  CPUOK'
  BY DEF CPUOK

\* Time passes.
LEMMA NetSame ==
  ASSUME NetOK, clock \in Nat, clock' \in Nat, clock <= clock',
         UNCHANGED <<pc, net, netIn, netWin, prevNet, prevNetAt, sample>>
  PROVE  NetOK'
<1>1. prevNetAt' \in Nat /\ prevNetAt' <= clock'
  <2>1. prevNetAt \in Nat /\ prevNetAt <= clock /\ prevNetAt' = prevNetAt
    BY DEF NetOK
  <2> QED
    BY <2>1
<1> QED
  BY <1>1 DEF NetOK, At

Columns == {"user", "guest", "idle", "iowait"}
Stat == [user : Nat, guest : Nat, idle : Nat, iowait : Nat]

\* A jiffy, of which d were not idle.
LEMMA JiffySince ==
  ASSUME NEW prev, NEW s \in Stat, NEW t \in Stat, NEW h \in CPUHistory, NEW k \in CPUHistory,
         NEW d \in {0, 1},
         k.busy = h.busy + d, k.of = h.of + 1, k.back = h.back, k.had = h.had,
         t.user = s.user + d,
         t.user + t.idle + t.iowait = s.user + s.idle + s.iowait + 1,
         CPUSince(prev, s, h)
  PROVE  CPUSince(prev, t, k)
<1>0. /\ s.user \in Nat /\ s.idle \in Nat /\ s.iowait \in Nat
      /\ t.user \in Nat /\ t.idle \in Nat /\ t.iowait \in Nat
      /\ h.busy \in Nat /\ h.of \in Nat /\ k.busy \in Nat /\ k.of \in Nat
      /\ d \in Nat /\ d <= 1
  BY DEF Stat, CPUHistory
<1>1. k.busy <= k.of
  BY <1>0 DEF CPUSince
<1>2. ~k.had => prev = Missing
  BY DEF CPUSince
<1>3. ASSUME k.had
      PROVE  /\ prev \in CPUReading
             /\ t.user + prev.idle = prev.total + k.busy
             /\ ~k.back => t.user + t.idle + t.iowait = prev.total + k.of
  <2>1. prev \in CPUReading /\ s.user + prev.idle = prev.total + h.busy
    BY <1>3 DEF CPUSince
  <2>2. prev.idle \in Nat /\ prev.total \in Nat
    BY <2>1 DEF CPUReading
  <2>3. t.user + prev.idle = prev.total + k.busy
    BY <1>0, <2>1, <2>2
  <2>4. ASSUME ~k.back PROVE t.user + t.idle + t.iowait = prev.total + k.of
    <3>1. s.user + s.idle + s.iowait = prev.total + h.of
      BY <1>3, <2>4 DEF CPUSince
    <3> QED
      BY <1>0, <2>2, <3>1
  <2> QED
    BY <2>1, <2>3, <2>4
<1> QED
  BY <1>1, <1>2, <1>3 DEF CPUSince

LEMMA JiffyIInv == ASSUME IInv, NEW col \in DOMAIN stat, Jiffy(col) PROVE IInv'
<1> DEFINE s == stat
           t == stat'
           h == cpuIn
           k == cpuIn'
<1>0. /\ s \in Stat /\ h \in CPUHistory /\ CPUSince(prevCPU, s, h)
      /\ clock \in Nat /\ Counters(net)
  BY DEF IInv, KernelOK, CPUOK, Stat
<1>1. col \in Columns
  BY <1>0 DEF Stat, Columns
<1>2. /\ s.user \in Nat /\ s.guest \in Nat /\ s.idle \in Nat /\ s.iowait \in Nat
      /\ h.busy \in Nat /\ h.of \in Nat /\ h.back \in BOOLEAN /\ h.had \in BOOLEAN
  BY <1>0 DEF Stat, CPUHistory
<1>3. UNCHANGED <<pc, primed, prevCPU, prevNet, prevNetAt, sample, event, cpuWin, netWin>>
  BY DEF Jiffy, Move, collector, rates, wins
<1>4. UNCHANGED <<net, netIn>> /\ clock' = clock + 1
  BY DEF Jiffy
<1>5. k = [h EXCEPT !.of = @ + 1, !.busy = IF col \in {"user", "guest"} THEN @ + 1 ELSE @]
  BY DEF Jiffy
<1>6. t = IF col = "guest" THEN [s EXCEPT !.user = @ + 1, !.guest = @ + 1]
          ELSE [s EXCEPT ![col] = @ + 1]
  BY DEF Jiffy
<1>7. t \in Stat /\ k \in CPUHistory /\ CPUSince(prevCPU, t, k)
  <2> HIDE DEF s, t, h, k
  <2>1. CASE col \in {"user", "guest"}
    <3>1. k = [busy |-> h.busy + 1, of |-> h.of + 1, back |-> h.back, had |-> h.had]
      BY <1>0, <1>5, <2>1 DEF CPUHistory
    <3>2. \E g \in Nat :
            t = [user |-> s.user + 1, guest |-> g, idle |-> s.idle, iowait |-> s.iowait]
      <4>1. CASE col = "guest"
        <5>1. t = [user |-> s.user + 1, guest |-> s.guest + 1, idle |-> s.idle,
                   iowait |-> s.iowait]
          BY <1>0, <1>6, <4>1 DEF Stat
        <5> QED
          BY <1>2, <5>1
      <4>2. CASE col = "user"
        <5>1. t = [user |-> s.user + 1, guest |-> s.guest, idle |-> s.idle,
                   iowait |-> s.iowait]
          BY <1>0, <1>6, <4>2 DEF Stat
        <5> QED
          BY <1>2, <5>1
      <4> QED
        BY <2>1, <4>1, <4>2
    <3>3. t \in Stat /\ k \in CPUHistory
      BY <1>2, <3>1, <3>2 DEF Stat, CPUHistory
    <3>4. /\ k.busy = h.busy + 1 /\ k.of = h.of + 1 /\ k.back = h.back /\ k.had = h.had
          /\ t.user = s.user + 1 /\ t.idle = s.idle /\ t.iowait = s.iowait
      BY <3>1, <3>2
    <3>5. t.user + t.idle + t.iowait = s.user + s.idle + s.iowait + 1
      BY <1>2, <3>4
    <3> QED
      BY <1>0, <3>3, <3>4, <3>5, JiffySince
  <2>2. CASE col \in {"idle", "iowait"}
    <3>1. k = [busy |-> h.busy, of |-> h.of + 1, back |-> h.back, had |-> h.had]
      BY <1>0, <1>5, <2>2 DEF CPUHistory
    <3>2. \E a, b \in Nat :
            /\ t = [user |-> s.user, guest |-> s.guest, idle |-> a, iowait |-> b]
            /\ a + b = s.idle + s.iowait + 1
      <4>1. CASE col = "idle"
        <5>1. t = [user |-> s.user, guest |-> s.guest, idle |-> s.idle + 1,
                   iowait |-> s.iowait]
          BY <1>0, <1>6, <4>1 DEF Stat
        <5>2. s.idle + 1 \in Nat /\ (s.idle + 1) + s.iowait = s.idle + s.iowait + 1
          BY <1>2
        <5> QED
          BY <1>2, <5>1, <5>2
      <4>2. CASE col = "iowait"
        <5>1. t = [user |-> s.user, guest |-> s.guest, idle |-> s.idle,
                   iowait |-> s.iowait + 1]
          BY <1>0, <1>6, <4>2 DEF Stat
        <5>2. s.iowait + 1 \in Nat /\ s.idle + (s.iowait + 1) = s.idle + s.iowait + 1
          BY <1>2
        <5> QED
          BY <1>2, <5>1, <5>2
      <4> QED
        BY <2>2, <4>1, <4>2
    <3>3. t \in Stat /\ k \in CPUHistory
      BY <1>2, <3>1, <3>2 DEF Stat, CPUHistory
    <3>4. /\ k.busy = h.busy /\ k.of = h.of + 1 /\ k.back = h.back /\ k.had = h.had
          /\ t.user = s.user /\ t.idle + t.iowait = s.idle + s.iowait + 1
          /\ t.idle \in Nat /\ t.iowait \in Nat
      BY <3>1, <3>2
    <3>5. /\ t.user + t.idle + t.iowait = s.user + s.idle + s.iowait + 1
          /\ k.busy = h.busy + 0 /\ t.user = s.user + 0
      BY <1>2, <3>4
    <3> QED
      BY <1>0, <3>3, <3>4, <3>5, JiffySince
  <2> QED
    BY <1>1, <2>1, <2>2 DEF Columns
<1>8. CPUOK'
  BY <1>3, <1>7 DEF CPUOK
<1>9. clock' \in Nat /\ clock <= clock'
  BY <1>0, <1>4
<1>10. KernelOK'
  BY <1>0, <1>4, <1>7, <1>9 DEF KernelOK, Stat
<1>11. NetOK'
  BY <1>0, <1>3, <1>4, <1>9, NetSame DEF IInv
<1>12. EventOK' /\ UsedOK' /\ NetworkOK'
  BY <1>3, FiguresSame DEF IInv
<1> QED
  BY <1>8, <1>10, <1>11, <1>12 DEF IInv

\* Only the time in user columns stays exact.
LEMMA IowaitIInv == ASSUME IInv, IowaitBack PROVE IInv'
<1> DEFINE s == stat
           t == stat'
           h == cpuIn
           k == cpuIn'
<1>0. /\ s \in Stat /\ h \in CPUHistory /\ CPUSince(prevCPU, s, h)
      /\ clock \in Nat /\ Counters(net)
  BY DEF IInv, KernelOK, CPUOK, Stat
<1>1. /\ s.user \in Nat /\ s.guest \in Nat /\ s.idle \in Nat /\ s.iowait \in Nat
      /\ h.busy \in Nat /\ h.of \in Nat /\ h.had \in BOOLEAN
  BY <1>0 DEF Stat, CPUHistory
<1>2. UNCHANGED <<pc, primed, prevCPU, prevNet, prevNetAt, sample, event, cpuWin, netWin>>
  BY DEF IowaitBack, Move, collector, rates, wins
<1>3. UNCHANGED <<net, netIn, clock>>
  BY DEF IowaitBack
<1>4. k = [h EXCEPT !.back = TRUE] /\ t = [s EXCEPT !.iowait = @ - 1] /\ s.iowait > 0
  BY DEF IowaitBack
<1>5. t \in Stat /\ k \in CPUHistory /\ CPUSince(prevCPU, t, k)
  <2> HIDE DEF s, t, h, k
  <2>1. k = [busy |-> h.busy, of |-> h.of, back |-> TRUE, had |-> h.had]
    BY <1>0, <1>4 DEF CPUHistory
  <2>2. t = [user |-> s.user, guest |-> s.guest, idle |-> s.idle, iowait |-> s.iowait - 1]
    BY <1>0, <1>4 DEF Stat
  <2>3. s.iowait - 1 \in Nat
    BY <1>1, <1>4
  <2>4. t \in Stat /\ k \in CPUHistory
    BY <1>1, <2>1, <2>2, <2>3 DEF Stat, CPUHistory
  <2>5. k.busy = h.busy /\ k.of = h.of /\ k.had = h.had /\ t.user = s.user
    BY <2>1, <2>2
  <2>6. k.back
    BY <2>1
  <2>7. CPUSince(prevCPU, t, k)
    BY <1>0, <2>5, <2>6 DEF CPUSince
  <2> QED
    BY <2>4, <2>7
<1>6. CPUOK'
  BY <1>2, <1>5 DEF CPUOK
<1>7. KernelOK'
  BY <1>0, <1>3, <1>5 DEF KernelOK, Stat
<1>8. clock' \in Nat /\ clock <= clock'
  BY <1>0, <1>3
<1>9. NetOK'
  BY <1>0, <1>2, <1>3, <1>8, NetSame DEF IInv
<1>10. EventOK' /\ UsedOK' /\ NetworkOK'
  BY <1>2, FiguresSame DEF IInv
<1> QED
  BY <1>6, <1>7, <1>9, <1>10 DEF IInv

-----------------------------------------------------------------------------
(***************************************************************************)
(* Traffic, and interfaces that come and go.                               *)
(***************************************************************************)
Plus(r, dir) == [rx |-> r.rx + (IF dir = "rx" THEN 1 ELSE 0),
                 tx |-> r.tx + (IF dir = "tx" THEN 1 ELSE 0)]

\* d is c with one byte more for i.
Counted(c, d, i, dir) ==
  DOMAIN d = DOMAIN c /\ \A j \in DOMAIN c : d[j] = IF j = i THEN Plus(c[j], dir) ELSE c[j]

LEMMA PlusBytes ==
  ASSUME NEW r \in Bytes, NEW dir \in {"rx", "tx"}
  PROVE  [r EXCEPT ![dir] = r[dir] + 1] = Plus(r, dir) /\ Plus(r, dir) \in Bytes
<1> DEFINE n == [r EXCEPT ![dir] = @ + 1]
<1>0. r.rx \in Nat /\ r.tx \in Nat
  BY DEF Bytes
<1>3. n = [r EXCEPT ![dir] = @ + 1]
  OBVIOUS
<1>4. n = [r EXCEPT ![dir] = r[dir] + 1]
  OBVIOUS
<1> HIDE DEF n
<1> SUFFICES n = Plus(r, dir) /\ Plus(r, dir) \in Bytes
  BY <1>4
<1>1. CASE dir = "rx"
  <2>1. Plus(r, dir) = [rx |-> r.rx + 1, tx |-> r.tx]
    BY <1>0, <1>1 DEF Plus
  <2>2. n = [rx |-> r.rx + 1, tx |-> r.tx]
    BY <1>3, <1>1 DEF Bytes
  <2>3. Plus(r, dir) \in Bytes
    BY <1>0, <2>1 DEF Bytes
  <2> QED
    BY <2>1, <2>2, <2>3
<1>2. CASE dir = "tx"
  <2>1. Plus(r, dir) = [rx |-> r.rx, tx |-> r.tx + 1]
    BY <1>0, <1>2 DEF Plus
  <2>2. n = [rx |-> r.rx, tx |-> r.tx + 1]
    BY <1>3, <1>2 DEF Bytes
  <2>3. Plus(r, dir) \in Bytes
    BY <1>0, <2>1 DEF Bytes
  <2> QED
    BY <2>1, <2>2, <2>3
<1> QED
  BY <1>1, <1>2

OneMore(c, i, dir) == [c EXCEPT ![i][dir] = @ + 1]

LEMMA CountedExcept ==
  ASSUME NEW S \in SUBSET Ifaces, NEW c \in [S -> Bytes], NEW i \in S, NEW dir \in {"rx", "tx"}
  PROVE  Counted(c, OneMore(c, i, dir), i, dir) /\ OneMore(c, i, dir) \in [S -> Bytes]
<1> DEFINE d == OneMore(c, i, dir)
<1>1. c[i] \in Bytes
  OBVIOUS
<1>2. d = [c EXCEPT ![i] = [c[i] EXCEPT ![dir] = c[i][dir] + 1]]
  BY DEF OneMore
<1>3. d = [c EXCEPT ![i] = Plus(c[i], dir)] /\ Plus(c[i], dir) \in Bytes
  BY <1>1, <1>2, PlusBytes
<1> HIDE DEF d
<1>4. Counted(c, d, i, dir) /\ d \in [S -> Bytes]
  BY <1>3 DEF Counted
<1> QED
  BY <1>4 DEF d

LEMMA CountedSince ==
  ASSUME NEW old, Counters(old), NEW c, Counters(c), NEW d, NEW i, NEW dir,
         NEW h \in NetHistory, NEW k, k.renewed = h.renewed,
         Counted(c, d, i, dir), Counted(h.bytes, k.bytes, i, dir), NetSince(old, c, h)
  PROVE  NetSince(old, d, k)
<1> SUFFICES ASSUME NEW j \in DOMAIN old \ k.renewed
             PROVE  /\ j \in DOMAIN d
                    /\ d[j].rx = old[j].rx + k.bytes[j].rx
                    /\ d[j].tx = old[j].tx + k.bytes[j].tx
  BY DEF NetSince
<1>1. /\ j \in DOMAIN c /\ c[j].rx = old[j].rx + h.bytes[j].rx
      /\ c[j].tx = old[j].tx + h.bytes[j].tx
  BY DEF NetSince
<1>2. j \in Ifaces /\ h.bytes \in [Ifaces -> Bytes]
  BY DEF Counters, NetHistory
<1>3. old[j] \in Bytes /\ c[j] \in Bytes /\ h.bytes[j] \in Bytes
  BY <1>1, <1>2 DEF Counters
<1>4. /\ old[j].rx \in Nat /\ old[j].tx \in Nat /\ c[j].rx \in Nat /\ c[j].tx \in Nat
      /\ h.bytes[j].rx \in Nat /\ h.bytes[j].tx \in Nat
  BY <1>3 DEF Bytes
<1>5. /\ j \in DOMAIN d
      /\ d[j] = IF j = i THEN Plus(c[j], dir) ELSE c[j]
      /\ k.bytes[j] = IF j = i THEN Plus(h.bytes[j], dir) ELSE h.bytes[j]
  BY <1>1, <1>2 DEF Counted
<1>6. CASE j # i
  BY <1>1, <1>5, <1>6
<1>7. CASE j = i
  <2> DEFINE a == IF dir = "rx" THEN 1 ELSE 0
             b == IF dir = "tx" THEN 1 ELSE 0
  <2>1. a \in Nat /\ b \in Nat
    OBVIOUS
  <2>2. /\ d[j].rx = c[j].rx + a /\ d[j].tx = c[j].tx + b
        /\ k.bytes[j].rx = h.bytes[j].rx + a /\ k.bytes[j].tx = h.bytes[j].tx + b
    BY <1>5, <1>7 DEF Plus
  <2> HIDE DEF a, b
  <2>3. d[j].rx = old[j].rx + k.bytes[j].rx
    BY <1>1, <1>4, <2>1, <2>2
  <2>4. d[j].tx = old[j].tx + k.bytes[j].tx
    BY <1>1, <1>4, <2>1, <2>2
  <2> QED
    BY <1>5, <2>3, <2>4
<1> QED
  BY <1>6, <1>7

\* What a move of the counters has to keep.
NetMoved(c, d, h, k) ==
  /\ k \in NetHistory /\ k.had = h.had /\ k.kept = h.kept
  /\ \A old : Counters(old) /\ NetSince(old, c, h) => NetSince(old, d, k)

LEMMA NetMovedOK ==
  ASSUME NetOK, NetMoved(net, net', netIn, netIn'),
         UNCHANGED <<pc, clock, netWin, prevNet, prevNetAt, sample>>
  PROVE  NetOK'
<1> DEFINE d == net'
           k == netIn'
<1>1. k \in NetHistory /\ k.had = netIn.had /\ k.kept = netIn.kept
  BY DEF NetMoved
<1>2. \A old : Counters(old) /\ NetSince(old, net, netIn) => NetSince(old, d, k)
  BY DEF NetMoved
<1>3. prevNetAt' \in Nat /\ prevNetAt' <= clock'
  BY DEF NetOK
<1> HIDE DEF d, k
<1>4. ASSUME At("sys")
      PROVE  /\ Counters(sample) /\ k.had /\ NetSince(sample, d, k)
             /\ netWin \in NetHistory /\ Baseline(prevNet, netWin)
             /\ netWin.had => NetSince(prevNet, sample, netWin)
  BY <1>1, <1>2, <1>4 DEF NetOK
<1>5. ASSUME ~At("sys")
      PROVE  Baseline(prevNet, k) /\ (k.had => NetSince(prevNet, d, k))
  <2>1. Baseline(prevNet, netIn) /\ (netIn.had => NetSince(prevNet, net, netIn))
    BY <1>5 DEF NetOK
  <2>2. Baseline(prevNet, k)
    BY <1>1, <2>1 DEF Baseline
  <2>3. netIn.had => Counters(prevNet)
    BY <2>1 DEF Baseline
  <2> QED
    BY <1>1, <1>2, <2>1, <2>2, <2>3
<1> QED
  BY <1>1, <1>3, <1>4, <1>5 DEF NetOK, At, d, k

LEMMA TrafficIInv ==
  ASSUME IInv, NEW i \in Ifaces, NEW dir \in {"rx", "tx"}, Traffic(i, dir)
  PROVE  IInv'
<1> DEFINE h == netIn
           k == netIn'
<1>0. Counters(net) /\ clock \in Nat /\ stat \in Stat /\ h \in NetHistory
  BY DEF IInv, KernelOK, NetOK, Stat
<1>1. UNCHANGED <<pc, primed, prevCPU, prevNet, prevNetAt, sample, event, cpuWin, netWin>>
  BY DEF Traffic, Move, collector, rates, wins
<1>2. UNCHANGED <<stat, clock, cpuIn>>
  BY DEF Traffic
<1>3. i \in DOMAIN net /\ net' = [net EXCEPT ![i][dir] = @ + 1]
  BY DEF Traffic
<1>4. k = [h EXCEPT !.bytes[i][dir] = @ + 1]
  BY DEF Traffic
<1>5. Counted(net, net', i, dir) /\ net' \in [DOMAIN net -> Bytes]
  <2> DEFINE S == DOMAIN net
             c == net
             d == net'
  <2>1. S \in SUBSET Ifaces /\ c \in [S -> Bytes] /\ i \in S
    BY <1>0, <1>3 DEF Counters
  <2>2. d = OneMore(c, i, dir)
    BY <1>3 DEF OneMore
  <2> HIDE DEF S, c, d
  <2>3. Counted(c, d, i, dir) /\ d \in [S -> Bytes]
    BY <2>1, <2>2, CountedExcept
  <2> QED
    BY <2>3 DEF S, c, d
<1>6. Counters(net')
  BY <1>0, <1>5 DEF Counters
<1>7. k \in NetHistory /\ k.had = h.had /\ k.kept = h.kept /\ k.renewed = h.renewed
      /\ Counted(h.bytes, k.bytes, i, dir)
  <2> DEFINE b == OneMore(h.bytes, i, dir)
  <2> HIDE DEF h, k
  <2>1. h.bytes \in [Ifaces -> Bytes]
    BY <1>0 DEF NetHistory
  <2>2. Counted(h.bytes, b, i, dir) /\ b \in [Ifaces -> Bytes]
    BY <2>1, CountedExcept
  <2>3. k = [h EXCEPT !.bytes = b]
    BY <1>4 DEF OneMore
  <2> HIDE DEF b
  <2>4. k = [bytes |-> b, renewed |-> h.renewed, kept |-> h.kept, had |-> h.had,
             secs |-> h.secs]
    BY <1>0, <2>3 DEF NetHistory
  <2>5. k \in NetHistory
    BY <1>0, <2>2, <2>4 DEF NetHistory
  <2> QED
    BY <2>2, <2>4, <2>5
<1>8. NetMoved(net, net', h, k)
  <2>1. ASSUME NEW old, Counters(old), NetSince(old, net, h) PROVE NetSince(old, net', k)
    <3> DEFINE d == net'
    <3>1. Counted(net, d, i, dir)
      BY <1>5
    <3> HIDE DEF d, h, k
    <3>2. NetSince(old, d, k)
      BY <1>0, <1>7, <2>1, <3>1, CountedSince
    <3> QED
      BY <3>2 DEF d
  <2> QED
    BY <1>7, <2>1 DEF NetMoved
<1>9. NetOK'
  BY <1>1, <1>2, <1>8, NetMovedOK DEF IInv
<1>10. KernelOK'
  BY <1>0, <1>2, <1>6 DEF KernelOK, Stat
<1>11. CPUOK'
  BY <1>1, <1>2, CPUSame DEF IInv
<1>12. EventOK' /\ UsedOK' /\ NetworkOK'
  BY <1>1, FiguresSame DEF IInv
<1> QED
  BY <1>9, <1>10, <1>11, <1>12 DEF IInv

LEMMA PlugIInv == ASSUME IInv, NEW i \in Ifaces, Plug(i) PROVE IInv'
<1> DEFINE h == netIn
           k == netIn'
           c == net
           d == net'
<1>0. Counters(c) /\ clock \in Nat /\ stat \in Stat /\ h \in NetHistory
  BY DEF IInv, KernelOK, NetOK, Stat
<1>1. UNCHANGED <<pc, primed, prevCPU, prevNet, prevNetAt, sample, event, cpuWin, netWin>>
  BY DEF Plug, Move, collector, rates, wins
<1>2. UNCHANGED <<stat, clock, cpuIn>>
  BY DEF Plug
<1>3. k = [h EXCEPT !.renewed = @ \cup {i}]
  BY DEF Plug
<1>4. \/ d = Present(DOMAIN net \ {i}) \/ d = Present(DOMAIN net \cup {i})
      \/ i \in DOMAIN c /\ d = [c EXCEPT ![i] = NoBytes]
  BY DEF Plug
<1>5. NoBytes \in Bytes
  BY DEF NoBytes, Bytes
<1>6. Counters(d) /\ \A j \in DOMAIN c \ {i} : j \in DOMAIN d /\ d[j] = c[j]
  <2>1. CASE d = Present(DOMAIN net \ {i})
    BY <1>0, <1>5, <2>1 DEF Counters, Present
  <2>2. CASE d = Present(DOMAIN net \cup {i})
    BY <1>0, <1>5, <2>2 DEF Counters, Present
  <2>3. CASE i \in DOMAIN c /\ d = [c EXCEPT ![i] = NoBytes]
    BY <1>0, <1>5, <2>3 DEF Counters
  <2> QED
    BY <1>4, <2>1, <2>2, <2>3
<1> HIDE DEF c, d, h, k
<1>7. k = [bytes |-> h.bytes, renewed |-> h.renewed \cup {i}, kept |-> h.kept,
           had |-> h.had, secs |-> h.secs]
  BY <1>0, <1>3 DEF NetHistory
<1>8. k \in NetHistory
  BY <1>0, <1>7 DEF NetHistory
<1>9. k.had = h.had /\ k.kept = h.kept /\ k.bytes = h.bytes /\ k.renewed = h.renewed \cup {i}
  BY <1>7
<1>10. ASSUME NEW old, NetSince(old, c, h) PROVE NetSince(old, d, k)
  BY <1>6, <1>9, <1>10 DEF NetSince
<1>11. NetMoved(c, d, h, k)
  BY <1>8, <1>9, <1>10 DEF NetMoved
<1>12. NetOK'
  BY <1>1, <1>2, <1>11, NetMovedOK DEF IInv, c, d, h, k
<1>13. KernelOK'
  BY <1>0, <1>2, <1>6 DEF KernelOK, Stat, d
<1>14. CPUOK'
  BY <1>1, <1>2, CPUSame DEF IInv
<1>15. EventOK' /\ UsedOK' /\ NetworkOK'
  BY <1>1, FiguresSame DEF IInv
<1> QED
  BY <1>12, <1>13, <1>14, <1>15 DEF IInv

-----------------------------------------------------------------------------
(***************************************************************************)
(* The steps of Run that read nothing.                                     *)
(***************************************************************************)
LEMMA NetKept ==
  ASSUME NetOK, ~At("sys"), pc' # "sys",
         UNCHANGED <<clock, net, netIn, prevNet, prevNetAt>>
  PROVE  NetOK'
  BY DEF NetOK, At

LEMMA KernelSame == ASSUME KernelOK, UNCHANGED <<stat, clock, net>> PROVE KernelOK'
  BY DEF KernelOK

LEMMA BeginRoundIInv == ASSUME IInv, BeginRound \/ Return PROVE IInv'
<1>1. UNCHANGED <<stat, clock, net, primed, prevCPU, prevNet, prevNetAt, event,
                  cpuWin, netWin, cpuIn, netIn>>
  BY DEF BeginRound, Return, kernel, rates, wins, sinceThen
<1>2. pc \notin {"sys", "publish"} /\ pc' \notin {"sys", "publish"}
  BY DEF BeginRound, Return, At, Goto
<1>3. KernelOK' /\ CPUOK' /\ EventOK'
  BY <1>1, KernelSame, CPUSame DEF IInv, EventOK
<1>4. NetOK'
  BY <1>1, <1>2, NetKept DEF IInv, At
<1>5. UsedOK'
  BY <1>1 DEF IInv, UsedOK, PercentExact
<1>6. NetworkOK'
  <2>1. event.network = Missing /\ netWin = Missing
    BY <1>2 DEF IInv, NetworkOK, At
  <2> QED
    BY <1>1, <1>2, <2>1 DEF NetworkOK, RateExact, At
<1> QED
  BY <1>3, <1>4, <1>5, <1>6 DEF IInv

\* Nothing is said, and between rounds nothing is asked.
LEMMA NoFigures ==
  ASSUME NewRound, pc' \notin {"sys", "publish"}, primed' \in BOOLEAN
  PROVE  EventOK' /\ UsedOK' /\ NetworkOK'
<1>1. event' = NoEvent /\ cpuWin' = Missing /\ netWin' = Missing
  BY DEF NewRound
<1>2. event'.used = Missing /\ event'.network = Missing
  BY <1>1 DEF NoEvent
<1>3. EventOK'
  BY <1>1, NoEventOK DEF EventOK
<1>4. UsedOK'
  BY <1>1, <1>2 DEF UsedOK, PercentExact
<1>5. NetworkOK'
  BY <1>1, <1>2 DEF NetworkOK, RateExact, At
<1> QED
  BY <1>3, <1>4, <1>5

LEMMA PublishIInv == ASSUME IInv, Publish PROVE IInv'
<1>1. UNCHANGED <<stat, clock, net, primed, prevCPU, prevNet, prevNetAt, cpuIn, netIn>>
  BY DEF Publish, kernel, rates, sinceThen
<1>2. NewRound /\ pc = "publish" /\ pc' = "select"
  BY DEF Publish, At, Goto
<1>3. KernelOK' /\ CPUOK'
  BY <1>1, KernelSame, CPUSame DEF IInv
<1>4. NetOK'
  BY <1>1, <1>2, NetKept DEF IInv, At
<1>5. primed' \in BOOLEAN
  BY <1>1 DEF IInv, EventOK
<1>6. EventOK' /\ UsedOK' /\ NetworkOK'
  BY <1>2, <1>5, NoFigures
<1> QED
  BY <1>3, <1>4, <1>6 DEF IInv

LEMMA PanicIInv == ASSUME IInv, Panic PROVE IInv'
<1>1. UNCHANGED <<stat, clock, net>>
  BY DEF Panic, kernel
<1>2. NewRound /\ pc' = "stat"
  BY DEF Panic, At, Goto
<1>3. prevCPU' = Missing /\ prevNet' = Missing /\ prevNetAt' = 0
  BY DEF Panic
<1>4. cpuIn' = NewCPU(FALSE) /\ netIn' = NewNet(FALSE)
  BY DEF Panic
<1>5. KernelOK' /\ clock \in Nat
  BY <1>1, KernelSame DEF IInv, KernelOK
<1>6. CPUOK'
  BY <1>3, <1>4, NewHistories, NothingSince DEF CPUOK
<1>7. NetOK'
  <2> DEFINE k == NewNet(FALSE)
  <2>1. k \in NetHistory /\ Baseline(Missing, k)
    BY NewHistories, NothingSince
  <2>2. ~k.had
    BY DEF NewNet
  <2> HIDE DEF k
  <2>3. netIn' = k
    BY <1>4 DEF k
  <2>4. prevNetAt' \in Nat /\ prevNetAt' <= clock'
    BY <1>1, <1>3, <1>5
  <2>5. ~At("sys")'
    BY <1>2 DEF At
  <2> QED
    BY <1>3, <2>1, <2>2, <2>3, <2>4, <2>5 DEF NetOK
<1>8. primed' \in BOOLEAN
  BY DEF Panic
<1>9. EventOK' /\ UsedOK' /\ NetworkOK'
  BY <1>2, <1>8, NoFigures
<1> QED
  BY <1>5, <1>6, <1>7, <1>9 DEF IInv

-----------------------------------------------------------------------------
(***************************************************************************)
(* /proc/stat.                                                             *)
(***************************************************************************)
\* The difference of two readings is about the time between them.
LEMMA PercentOK ==
  ASSUME NEW prev, NEW s \in Stat, NEW h \in CPUHistory, CPUSince(prev, s, h), h.had,
         NEW now \in CPUReading,
         now.total = s.user + s.idle + s.iowait, now.idle = s.idle + s.iowait
  PROVE  \/ Percent(prev, now) = Missing /\ (h.of = 0 \/ h.back)
         \/ \E a, b \in Nat :
              /\ Percent(prev, now) = [busy |-> a, of |-> b]
              /\ b > 0 /\ a <= b
              /\ (a = h.busy /\ b = h.of) \/ h.back
<1> DEFINE total == now.total - prev.total
           idle == now.idle - prev.idle
<1>1. /\ s.user \in Nat /\ s.idle \in Nat /\ s.iowait \in Nat
      /\ h.busy \in Nat /\ h.of \in Nat /\ h.back \in BOOLEAN
      /\ now.total \in Nat /\ now.idle \in Nat
  BY DEF Stat, CPUHistory, CPUReading
<1>2. prev \in CPUReading /\ s.user + prev.idle = prev.total + h.busy /\ h.busy <= h.of
  BY DEF CPUSince
<1>3. prev.total \in Nat /\ prev.idle \in Nat
  BY <1>2 DEF CPUReading
<1>4. total \in Int /\ idle \in Int /\ total - idle = h.busy
  <2>1. now.total = s.user + now.idle
    BY <1>1
  <2>2. (now.total - prev.total) - (now.idle - prev.idle) = h.busy
    BY <1>1, <1>2, <1>3, <2>1
  <2>3. now.total - prev.total \in Int /\ now.idle - prev.idle \in Int
    BY <1>1, <1>3
  <2> QED
    BY <2>2, <2>3
<1>5. ~h.back => total = h.of
  <2>1. ~h.back => s.user + s.idle + s.iowait = prev.total + h.of
    BY DEF CPUSince
  <2> QED
    BY <1>1, <1>3, <2>1
<1>6. Percent(prev, now) = IF total <= 0 \/ idle < 0 \/ idle > total THEN Missing
                           ELSE [busy |-> total - idle, of |-> total]
  BY DEF Percent
<1> HIDE DEF total, idle
<1>7. CASE total <= 0 \/ idle < 0 \/ idle > total
  <2>1. Percent(prev, now) = Missing
    BY <1>6, <1>7
  <2>2. ~h.back => h.of = 0
    <3>1. ASSUME ~h.back PROVE h.of = 0
      <4>1. total = h.of
        BY <1>5, <3>1
      <4> QED
        BY <1>1, <1>2, <1>4, <1>7, <4>1
    <3> QED
      BY <3>1
  <2> QED
    BY <2>1, <2>2
<1>8. CASE ~(total <= 0 \/ idle < 0 \/ idle > total)
  <2>1. Percent(prev, now) = [busy |-> h.busy, of |-> total]
    BY <1>4, <1>6, <1>8
  <2>2. total \in Nat /\ total > 0 /\ h.busy <= total
    BY <1>1, <1>4, <1>8
  <2>3. (h.busy = h.busy /\ total = h.of) \/ h.back
    BY <1>5
  <2>4. h.busy \in Nat
    BY <1>1
  <2> QED
    BY <2>1, <2>2, <2>3, <2>4
<1> QED
  BY <1>7, <1>8

\* Since this moment nothing has happened.
LEMMA CPUStartsAnew ==
  ASSUME NEW s \in Stat, NEW now \in CPUReading,
         now.total = s.user + s.idle + s.iowait, now.idle = s.idle + s.iowait
  PROVE  CPUSince(now, s, NewCPU(TRUE))
<1> DEFINE h == NewCPU(TRUE)
<1>1. h.busy = 0 /\ h.of = 0
  BY DEF NewCPU
<1>2. h.had
  BY DEF NewCPU
<1> HIDE DEF h
<1>3. /\ s.user \in Nat /\ s.idle \in Nat /\ s.iowait \in Nat
      /\ now.total \in Nat /\ now.idle \in Nat
  BY DEF Stat, CPUReading
<1>4. /\ h.busy <= h.of /\ s.user + now.idle = now.total + h.busy
      /\ s.user + s.idle + s.iowait = now.total + h.of
  BY <1>1, <1>3
<1> QED
  BY <1>2, <1>4 DEF CPUSince, h

LEMMA ReadStatIInv == ASSUME IInv, ReadStat PROVE IInv'
<1> DEFINE now == ParseStat
<1>0. /\ stat \in Stat /\ cpuIn \in CPUHistory /\ CPUSince(prevCPU, stat, cpuIn)
      /\ KernelOK /\ NetOK /\ NetworkOK /\ UsedOK /\ EventOK
  BY DEF IInv, KernelOK, CPUOK, Stat
<1>1. UNCHANGED <<stat, clock, net, primed, prevNet, prevNetAt, netIn, netWin>>
  BY DEF ReadStat, kernel
<1>2. pc = "stat" /\ pc' = "net"
  BY DEF ReadStat, At, Goto
<1>3. KernelOK'
  BY <1>0, <1>1, KernelSame
<1>4. NetOK'
  BY <1>0, <1>1, <1>2, NetKept DEF At
<1>5. event.network = Missing /\ netWin = Missing
  BY <1>0, <1>2 DEF NetworkOK, At
<1>6. CASE UNCHANGED <<prevCPU, event, cpuIn, cpuWin>>
  <2>1. EventOK' /\ UsedOK'
    BY <1>0, <1>1, <1>6 DEF EventOK, UsedOK, PercentExact
  <2>2. NetworkOK'
    BY <1>1, <1>2, <1>5, <1>6 DEF NetworkOK, RateExact, At
  <2>3. CPUOK'
    BY <1>1, <1>6, CPUSame DEF IInv
  <2> QED
    BY <1>3, <1>4, <2>1, <2>2, <2>3 DEF IInv
<1>7. CASE prevCPU' = now /\ cpuIn' = NewCPU(TRUE) /\
           ( \/ UNCHANGED <<event, cpuWin>>
             \/ /\ cpuWin' = cpuIn
                /\ event' = [event EXCEPT !.used = IF prevCPU = Missing THEN Missing
                                                   ELSE Percent(prevCPU, now)])
  <2>1. stat.user \in Nat /\ stat.idle \in Nat /\ stat.iowait \in Nat
    BY <1>0 DEF Stat
  <2>2. now \in CPUReading
    BY <2>1 DEF ParseStat, CPUReading
  <2>3. now.total = stat.user + stat.idle + stat.iowait /\ now.idle = stat.idle + stat.iowait
    BY DEF ParseStat
  <2> HIDE DEF now
  <2>4. CPUOK'
    <3>1. CPUSince(now, stat, NewCPU(TRUE)) /\ NewCPU(TRUE) \in CPUHistory
      BY <1>0, <2>2, <2>3, CPUStartsAnew, NewHistories
    <3> QED
      BY <1>1, <1>7, <3>1 DEF CPUOK
  <2>5. CASE UNCHANGED <<event, cpuWin>>
    <3>1. EventOK' /\ UsedOK'
      BY <1>0, <1>1, <2>5 DEF EventOK, UsedOK, PercentExact
    <3>2. NetworkOK'
      BY <1>1, <1>2, <1>5, <2>5 DEF NetworkOK, RateExact, At
    <3> QED
      BY <1>3, <1>4, <2>4, <3>1, <3>2 DEF IInv
  <2>6. CASE /\ cpuWin' = cpuIn
             /\ event' = [event EXCEPT !.used = IF prevCPU = Missing THEN Missing
                                                ELSE Percent(prevCPU, now)]
    <3> DEFINE u == IF prevCPU = Missing THEN Missing ELSE Percent(prevCPU, now)
    <3>1. event' = [used |-> u, network |-> event.network, load |-> event.load,
                    cpu |-> event.cpu]
      BY <1>0, <2>6 DEF EventOK
    <3>2. \/ u = Missing /\ (~cpuIn.had \/ cpuIn.of = 0 \/ cpuIn.back)
          \/ cpuIn.had /\ \E a, b \in Nat :
               /\ u = [busy |-> a, of |-> b]
               /\ b > 0 /\ a <= b
               /\ (a = cpuIn.busy /\ b = cpuIn.of) \/ cpuIn.back
      <4>1. CASE ~cpuIn.had
        BY <1>0, <4>1 DEF CPUSince
      <4>2. CASE cpuIn.had
        <5>1. prevCPU # Missing
          BY <1>0, <4>2, MissingAssumption DEF CPUSince
        <5>2. u = Percent(prevCPU, now)
          BY <5>1
        <5> HIDE DEF u
        <5> QED
          BY <1>0, <2>2, <2>3, <4>2, <5>2, PercentOK
      <4> QED
        BY <4>1, <4>2
    <3> HIDE DEF u
    <3>3. u = Missing \/ u \in [busy : Nat, of : Nat]
      BY <3>2
    <3>4. EventOK'
      <4>1. /\ event.network \in {Missing} \cup [rx : Int, tx : Int, secs : Nat]
            /\ event.load \in BOOLEAN /\ event.cpu \in BOOLEAN /\ primed \in BOOLEAN
        BY <1>0 DEF EventOK
      <4> QED
        BY <1>1, <3>1, <3>3, <4>1 DEF EventOK
    <3>5. event'.used = u /\ event'.network = Missing /\ cpuWin' = cpuIn
      BY <1>5, <2>6, <3>1
    <3>6. UsedOK'
      <4>1. CASE u = Missing /\ (~cpuIn.had \/ cpuIn.of = 0 \/ cpuIn.back)
        BY <3>5, <4>1 DEF UsedOK, PercentExact
      <4>2. CASE cpuIn.had /\ \E a, b \in Nat :
               /\ u = [busy |-> a, of |-> b]
               /\ b > 0 /\ a <= b
               /\ (a = cpuIn.busy /\ b = cpuIn.of) \/ cpuIn.back
        <5>1. PICK a, b \in Nat :
               /\ u = [busy |-> a, of |-> b]
               /\ b > 0 /\ a <= b
               /\ (a = cpuIn.busy /\ b = cpuIn.of) \/ cpuIn.back
          BY <4>2
        <5>2. u.of = b /\ u.busy = a
          BY <5>1
        <5>3. u.of > 0 /\ u.busy \in 0..u.of
          BY <5>1, <5>2
        <5>4. u = [busy |-> cpuIn.busy, of |-> cpuIn.of] \/ cpuIn.back
          BY <5>1
        <5>5. u # Missing
          <6>1. u \in Figures
            BY <5>1 DEF Figures
          <6> QED
            BY <6>1, MissingAssumption
        <5> QED
          BY <3>5, <4>2, <5>3, <5>4, <5>5 DEF UsedOK, PercentExact
      <4> QED
        BY <3>2, <4>1, <4>2
    <3>7. NetworkOK'
      BY <1>1, <1>2, <1>5, <3>5 DEF NetworkOK, RateExact, At
    <3> QED
      BY <1>3, <1>4, <2>4, <3>4, <3>6, <3>7 DEF IInv
  <2> QED
    BY <1>7, <2>5, <2>6
<1> QED
  BY <1>6, <1>7 DEF ReadStat, StatFails, KeepCPU

-----------------------------------------------------------------------------
(***************************************************************************)
(* /proc/net/dev and the device links.                                     *)
(***************************************************************************)
LEMMA ReturnsOK ==
  ASSUME EventOK, NEW network \in {Missing} \cup [rx : Int, tx : Int, secs : Nat],
         NetworkReturns(network)
  PROVE  /\ EventOK' /\ event'.used = event.used
         /\ \/ ~primed /\ pc' = "startup" /\ event' = event
            \/ /\ primed /\ pc' = "publish" /\ event'.network = network
               /\ ~event'.cpu => event'.used = Missing /\ ~event'.load
<1>1. CASE ~primed /\ primed' = TRUE /\ Goto("startup") /\ UNCHANGED event
  BY <1>1 DEF EventOK, Goto
<1>2. CASE /\ primed /\ Goto("publish") /\ UNCHANGED primed
           /\ \E load \in BOOLEAN, perCPU \in BOOLEAN :
                event' = [event EXCEPT !.network = network, !.load = load,
                                       !.cpu = CPUGroup(perCPU /\ cpuWin # Missing, load)]
  <2>1. PICK load \in BOOLEAN, perCPU \in BOOLEAN :
               event' = [event EXCEPT !.network = network, !.load = load,
                                      !.cpu = CPUGroup(perCPU /\ cpuWin # Missing, load)]
    BY <1>2
  <2> DEFINE g == CPUGroup(perCPU /\ cpuWin # Missing, load)
  <2>2. g \in BOOLEAN /\ (~g => event.used = Missing /\ ~load)
    BY DEF CPUGroup
  <2> HIDE DEF g
  <2>3. event' = [event EXCEPT !.network = network, !.load = load, !.cpu = g]
    BY <2>1 DEF g
  <2>4. event' = [used |-> event.used, network |-> network, load |-> load, cpu |-> g]
    BY <2>3 DEF EventOK
  <2>5. event.used \in {Missing} \cup [busy : Nat, of : Nat]
    BY DEF EventOK
  <2>6. EventOK'
    BY <1>2, <2>2, <2>4, <2>5 DEF EventOK
  <2>7. event'.used = event.used /\ event'.network = network
    BY <2>4
  <2>8. ~event'.cpu => event'.used = Missing /\ ~event'.load
    BY <2>2, <2>4
  <2> QED
    BY <1>2, <2>6, <2>7, <2>8 DEF Goto
<1> QED
  BY <1>1, <1>2 DEF NetworkReturns

\* The percentage stays what it was.
LEMMA UsedSame ==
  ASSUME UsedOK, event'.used = event.used, cpuWin' = cpuWin PROVE UsedOK'
  BY DEF UsedOK, PercentExact

LEMMA ReadNetIInv == ASSUME IInv, ReadNet PROVE IInv'
<1>0. KernelOK /\ NetOK /\ NetworkOK /\ UsedOK /\ EventOK
  BY DEF IInv
<1>1. UNCHANGED <<stat, clock, net, prevCPU, prevNet, prevNetAt, cpuIn, cpuWin>>
  BY DEF ReadNet, kernel
<1>2. pc = "net"
  BY DEF ReadNet, At
<1>3. KernelOK' /\ CPUOK'
  BY <1>0, <1>1, KernelSame, CPUSame DEF IInv
<1>4. event.network = Missing /\ netWin = Missing
  BY <1>0, <1>2 DEF NetworkOK, At
<1>5. CASE /\ sample' = net /\ netWin' = netIn /\ netIn' = NewNet(TRUE)
           /\ Goto("sys") /\ UNCHANGED <<primed, event>>
  <2>1. pc' = "sys" /\ event' = event /\ primed' = primed
    BY <1>5 DEF Goto
  <2>2. EventOK' /\ UsedOK'
    BY <1>0, <1>1, <2>1, UsedSame DEF EventOK
  <2>3. NetworkOK'
    BY <1>4, <2>1 DEF NetworkOK, RateExact, At
  <2>4. NetOK'
    <3> DEFINE k == NewNet(TRUE)
    <3>1. k \in NetHistory /\ k.renewed = {} /\ \A i \in Ifaces : k.bytes[i] = [rx |-> 0, tx |-> 0]
      BY NewHistories
    <3>2. k.had
      BY DEF NewNet
    <3> HIDE DEF k
    <3>3. Counters(net)
      BY <1>0 DEF KernelOK
    <3>4. NetSince(net, net, k)
      <4>1. ASSUME NEW i \in DOMAIN net
            PROVE  net[i].rx = net[i].rx + k.bytes[i].rx /\ net[i].tx = net[i].tx + k.bytes[i].tx
        <5>1. i \in Ifaces /\ net[i].rx \in Nat /\ net[i].tx \in Nat
          BY <3>3 DEF Counters, Bytes
        <5>2. k.bytes[i].rx = 0 /\ k.bytes[i].tx = 0
          BY <3>1, <5>1
        <5> QED
          BY <5>1, <5>2
      <4> QED
        BY <4>1 DEF NetSince
    <3>5. /\ netIn \in NetHistory /\ Baseline(prevNet, netIn)
          /\ netIn.had => NetSince(prevNet, net, netIn)
      BY <1>0, <1>2 DEF NetOK, At
    <3>6. prevNetAt' \in Nat /\ prevNetAt' <= clock'
      BY <1>0, <1>1 DEF NetOK
    <3>7. netIn' = k /\ netWin' = netIn /\ sample' = net /\ At("sys")'
      BY <1>5, <2>1 DEF k, At
    <3> QED
      BY <1>1, <3>1, <3>2, <3>3, <3>4, <3>5, <3>6, <3>7 DEF NetOK
  <2> QED
    BY <1>3, <2>2, <2>3, <2>4 DEF IInv
<1>6. CASE NetworkReturns(Missing) /\ UNCHANGED <<sample, netIn, netWin>>
  <2>1. /\ EventOK' /\ event'.used = event.used
        /\ \/ ~primed /\ pc' = "startup" /\ event' = event
           \/ /\ primed /\ pc' = "publish" /\ event'.network = Missing
              /\ ~event'.cpu => event'.used = Missing /\ ~event'.load
    <3>1. Missing \in {Missing} \cup [rx : Int, tx : Int, secs : Nat]
      OBVIOUS
    <3> QED
      BY <1>0, <1>6, <3>1, ReturnsOK
  <2>2. UsedOK'
    BY <1>0, <1>1, <2>1, UsedSame
  <2>3. event'.network = Missing /\ netWin' = Missing /\ pc' # "sys"
    BY <1>4, <1>6, <2>1
  <2>4. NetworkOK'
    BY <2>1, <2>3 DEF NetworkOK, RateExact, At
  <2>5. NetOK'
    BY <1>0, <1>1, <1>2, <1>6, <2>3, NetKept DEF At
  <2> QED
    BY <1>3, <2>1, <2>2, <2>4, <2>5 DEF IInv
<1> QED
  BY <1>5, <1>6 DEF ReadNet

-----------------------------------------------------------------------------
\* The interfaces that two readings have in common carried the difference, unless the
\* counters of one of them started anew.
NoRate(h, K, secs) == K = {} \/ K \cap h.renewed # {} \/ secs = 0

TrueRate(rate, h, K, secs) ==
  /\ rate \in [rx : Int, tx : Int, secs : Nat]
  /\ rate.secs > 0 /\ K # {}
  /\ \/ K \cap h.renewed # {}
     \/ /\ rate.rx = SumFunction([i \in K |-> h.bytes[i]["rx"]])
        /\ rate.tx = SumFunction([i \in K |-> h.bytes[i]["tx"]])

LEMMA RatesOK ==
  ASSUME NEW prev, Counters(prev), NEW s, Counters(s), NEW h \in NetHistory, DOMAIN prev = h.kept,
         NetSince(prev, s, h),
         NEW L, L \subseteq DOMAIN s, NEW secs \in Nat
  PROVE  \/ /\ Rates(prev, Restrict(s, L), secs) = Missing
            /\ NoRate(h, h.kept \cap L, secs)
         \/ TrueRate(Rates(prev, Restrict(s, L), secs), h, h.kept \cap L, secs)
<1> DEFINE now == Restrict(s, L)
           K == h.kept \cap L
<1>0. now = [i \in L |-> s[i]] /\ DOMAIN now = L
  BY DEF Restrict
<1>00. K = h.kept \cap L
  OBVIOUS
<1> HIDE DEF now, K
<1> SUFFICES \/ Rates(prev, now, secs) = Missing /\ NoRate(h, K, secs)
             \/ TrueRate(Rates(prev, now, secs), h, K, secs)
  BY DEF now, K
<1> USE <1>0, <1>00
<1> DEFINE D(dir) == [i \in K |-> now[i][dir] - Old(prev, i)[dir]]
           Back == \E i \in K : now[i].rx < Old(prev, i).rx \/ now[i].tx < Old(prev, i).tx
<1>1. Shared(prev, now) = K
  BY DEF Shared
<1>2. Rates(prev, now, secs) =
        IF secs <= 0 \/ K = {} \/ Back THEN Missing
        ELSE [rx |-> SumFunction(D("rx")), tx |-> SumFunction(D("tx")), secs |-> secs]
  BY <1>1 DEF Rates
<1>3. IsFiniteSet(K) /\ K \subseteq Ifaces
  BY ResourcesAssumption, FS_Subset DEF Counters
<1>4. ASSUME NEW i \in K
      PROVE  /\ now[i] = s[i] /\ Old(prev, i) = prev[i]
             /\ s[i].rx \in Nat /\ s[i].tx \in Nat /\ prev[i].rx \in Nat /\ prev[i].tx \in Nat
             /\ h.bytes[i].rx \in Nat /\ h.bytes[i].tx \in Nat
  <2>1. s[i] \in Bytes /\ prev[i] \in Bytes /\ now[i] = s[i] /\ i \in DOMAIN prev
    BY DEF Counters
  <2>2. h.bytes[i] \in Bytes
    BY <1>3 DEF NetHistory
  <2> QED
    BY <2>1, <2>2 DEF Bytes, Old
<1>5. ASSUME NEW i \in K, i \notin h.renewed
      PROVE  s[i].rx = prev[i].rx + h.bytes[i].rx /\ s[i].tx = prev[i].tx + h.bytes[i].tx
  BY <1>5 DEF NetSince
<1> HIDE DEF D, Back
<1>6. CASE secs <= 0 \/ K = {} \/ Back
  <2>1. Rates(prev, now, secs) = Missing
    BY <1>2, <1>6
  <2>2. CASE secs <= 0 \/ K = {}
    <3>1. secs <= 0 => secs = 0
      OBVIOUS
    <3> QED
      BY <2>1, <2>2, <3>1 DEF NoRate
  <2>3. CASE Back
    <3>1. PICK i \in K : now[i].rx < Old(prev, i).rx \/ now[i].tx < Old(prev, i).tx
      BY <2>3 DEF Back
    <3>2. ASSUME i \notin h.renewed PROVE FALSE
      <4>1. s[i].rx = prev[i].rx + h.bytes[i].rx /\ s[i].tx = prev[i].tx + h.bytes[i].tx
        BY <1>5, <3>2
      <4>2. s[i].rx < prev[i].rx \/ s[i].tx < prev[i].tx
        BY <1>4, <3>1
      <4> QED
        BY <1>4, <4>1, <4>2
    <3> QED
      BY <2>1, <3>2 DEF NoRate
  <2> QED
    BY <1>6, <2>2, <2>3
<1>7. CASE ~(secs <= 0 \/ K = {} \/ Back)
  <2> DEFINE x == SumFunction(D("rx"))
             y == SumFunction(D("tx"))
  <2>1. Rates(prev, now, secs) = [rx |-> x, tx |-> y, secs |-> secs]
    BY <1>2, <1>7
  <2>2. secs > 0 /\ K # {}
    BY <1>7
  <2>3. /\ DOMAIN D("rx") = K /\ \A i \in K : D("rx")[i] = s[i].rx - prev[i].rx
        /\ DOMAIN D("tx") = K /\ \A i \in K : D("tx")[i] = s[i].tx - prev[i].tx
    BY <1>4 DEF D
  <2>4. \A i \in K : D("rx")[i] \in Int /\ D("tx")[i] \in Int
    BY <1>4, <2>3
  <2>5. x \in Int /\ y \in Int
    BY <1>3, <2>3, <2>4, SumIsInt
  <2>6. ASSUME K \cap h.renewed = {}
        PROVE  /\ D("rx") = [i \in K |-> h.bytes[i]["rx"]]
               /\ D("tx") = [i \in K |-> h.bytes[i]["tx"]]
    <3>1. ASSUME NEW i \in K
          PROVE  /\ now[i]["rx"] - Old(prev, i)["rx"] = h.bytes[i]["rx"]
                 /\ now[i]["tx"] - Old(prev, i)["tx"] = h.bytes[i]["tx"]
      <4>1. s[i].rx = prev[i].rx + h.bytes[i].rx /\ s[i].tx = prev[i].tx + h.bytes[i].tx
        BY <1>5, <2>6
      <4> QED
        BY <1>4, <4>1
    <3> QED
      BY <3>1 DEF D
  <2>7. \/ K \cap h.renewed # {}
        \/ /\ x = SumFunction([i \in K |-> h.bytes[i]["rx"]])
           /\ y = SumFunction([i \in K |-> h.bytes[i]["tx"]])
    BY <2>6
  <2> HIDE DEF x, y
  <2> DEFINE r == Rates(prev, now, secs)
  <2>8. r \in [rx : Int, tx : Int, secs : Nat] /\ r.rx = x /\ r.tx = y /\ r.secs = secs
    BY <2>1, <2>5
  <2> HIDE DEF r
  <2>9. TrueRate(r, h, K, secs)
    BY <2>2, <2>7, <2>8 DEF TrueRate
  <2> QED
    BY <2>9 DEF r
<1> QED
  BY <1>6, <1>7

LEMMA NetworkIInv == ASSUME IInv, Network PROVE IInv'
<1> DEFINE h == netWin
           now == prevNet'
           secs == clock - prevNetAt
           rate == IF prevNet = Missing THEN Missing ELSE Rates(prevNet, now, secs)
<1>0. KernelOK /\ NetOK /\ NetworkOK /\ UsedOK /\ EventOK
  BY DEF IInv
<1>1. UNCHANGED <<stat, clock, net, prevCPU, cpuIn, cpuWin>> /\ pc = "sys"
  BY DEF Network, kernel, At
<1>2. KernelOK' /\ CPUOK'
  BY <1>0, <1>1, KernelSame, CPUSame DEF IInv
<1>3. event.network = Missing
  BY <1>0, <1>1 DEF NetworkOK, At
<1>4. /\ Counters(sample) /\ NetSince(sample, net, netIn) /\ netIn \in NetHistory
      /\ h \in NetHistory /\ Baseline(prevNet, h) /\ (h.had => NetSince(prevNet, sample, h))
  BY <1>0, <1>1 DEF NetOK, At
<1>5. netIn.had
  BY <1>0, <1>1 DEF NetOK, At
<1>6. clock \in Nat /\ prevNetAt \in Nat /\ prevNetAt <= clock /\ prevNetAt' = clock
  BY <1>0 DEF NetOK, KernelOK, Network
<1>7. PICK lost : prevNet' = KeepPhysical(lost) /\ netIn' = [netIn EXCEPT !.kept = Linked(lost)]
  BY DEF Network
<1> DEFINE L == Linked(lost)
           K == h.kept \cap L
           k == netIn'
<1>8. now = Restrict(sample, L) /\ L \subseteq DOMAIN sample /\ L \subseteq Ifaces
  BY <1>4, <1>7 DEF KeepPhysical, Linked, Counters, Restrict
<1>9. secs \in Nat
  BY <1>6
<1>10. NetworkReturns(rate)
  BY DEF Network
<1>11. netWin' = IF primed THEN [h EXCEPT !.kept = @ \cap netIn'.kept, !.secs = secs] ELSE Missing
  BY DEF Network
<1>12. k = [netIn EXCEPT !.kept = L]
  BY <1>7
<1> HIDE DEF h, now, secs, L, K, k
<1>13. Counters(now) /\ DOMAIN now = L
  BY <1>4, <1>8 DEF Counters, Restrict
<1>14. k = [bytes |-> netIn.bytes, renewed |-> netIn.renewed, kept |-> L, had |-> netIn.had,
            secs |-> netIn.secs]
  BY <1>4, <1>12 DEF NetHistory
<1>15. k \in NetHistory
  BY <1>4, <1>8, <1>14 DEF NetHistory
<1>16. k.bytes = netIn.bytes /\ k.renewed = netIn.renewed /\ k.kept = L /\ k.had = netIn.had
  BY <1>14
<1>17. k.had
  BY <1>5, <1>16
<1>18. NetSince(now, net, k)
  BY <1>4, <1>8, <1>13, <1>16 DEF NetSince, Restrict
<1>19. Baseline(now, k)
  BY <1>13, <1>16, <1>17 DEF Baseline
<1>20. \/ rate = Missing /\ (~h.had \/ NoRate(h, K, secs))
       \/ h.had /\ TrueRate(rate, h, K, secs)
  <2>1. CASE ~h.had
    BY <1>4, <2>1 DEF Baseline
  <2>2. CASE h.had
    <3>1. Counters(prevNet) /\ DOMAIN prevNet = h.kept /\ NetSince(prevNet, sample, h)
      BY <1>4, <2>2 DEF Baseline
    <3>2. prevNet # Missing
      BY <3>1, MissingAssumption DEF Counters
    <3>3. rate = Rates(prevNet, now, secs)
      BY <3>2
    <3>4. K = h.kept \cap L
      BY DEF K
    <3> HIDE DEF rate
    <3>5. \/ rate = Missing /\ NoRate(h, K, secs)
          \/ TrueRate(rate, h, K, secs)
      BY <1>4, <1>8, <1>9, <3>1, <3>3, <3>4, RatesOK
    <3> QED
      BY <2>2, <3>5
  <2> QED
    BY <2>1, <2>2
<1>21. rate \in {Missing} \cup [rx : Int, tx : Int, secs : Nat]
  <2> HIDE DEF rate
  <2> QED
    BY <1>20 DEF TrueRate
<1> HIDE DEF rate
<1>22. /\ EventOK' /\ event'.used = event.used
       /\ \/ ~primed /\ pc' = "startup" /\ event' = event
          \/ /\ primed /\ pc' = "publish" /\ event'.network = rate
             /\ ~event'.cpu => event'.used = Missing /\ ~event'.load
  BY <1>0, <1>10, <1>21, ReturnsOK
<1>23. UsedOK'
  BY <1>0, <1>1, <1>22, UsedSame
<1>24. NetOK'
  <2>1. ~At("sys")'
    BY <1>22 DEF At
  <2>2. prevNetAt' \in Nat /\ prevNetAt' <= clock'
    BY <1>1, <1>6
  <2> QED
    BY <1>1, <1>15, <1>17, <1>18, <1>19, <2>1, <2>2 DEF NetOK, k, now
<1>25. NetworkOK'
  <2>1. CASE ~primed /\ pc' = "startup" /\ event' = event
    <3>1. netWin' = Missing /\ event'.network = Missing
      BY <1>3, <1>11, <2>1
    <3> QED
      BY <2>1, <3>1 DEF NetworkOK, RateExact, At
  <2>2. CASE /\ primed /\ pc' = "publish" /\ event'.network = rate
             /\ ~event'.cpu => event'.used = Missing /\ ~event'.load
    <3> DEFINE w == netWin'
    <3>1. w = [h EXCEPT !.kept = @ \cap k.kept, !.secs = secs]
      BY <1>11, <2>2 DEF k
    <3> HIDE DEF w
    <3>2. w = [bytes |-> h.bytes, renewed |-> h.renewed, kept |-> K, had |-> h.had,
               secs |-> secs]
      BY <1>4, <1>16, <3>1 DEF NetHistory, K
    <3>3. w.bytes = h.bytes /\ w.renewed = h.renewed /\ w.kept = K /\ w.had = h.had
          /\ w.secs = secs
      BY <3>2
    <3>4. CASE rate = Missing /\ (~h.had \/ NoRate(h, K, secs))
      <4>1. ~w.had \/ w.kept = {} \/ w.kept \cap w.renewed # {} \/ w.secs = 0
        BY <3>3, <3>4 DEF NoRate
      <4> QED
        BY <2>2, <3>4, <4>1 DEF NetworkOK, RateExact, At, w
    <3>5. CASE h.had /\ TrueRate(rate, h, K, secs)
      <4>1. rate # Missing
        <5>1. rate \in Figures
          BY <3>5 DEF Figures, TrueRate
        <5> QED
          BY <5>1, MissingAssumption
      <4>2. w.had
        BY <3>3, <3>5
      <4>3. w.kept # {} /\ rate.secs > 0
        BY <3>3, <3>5 DEF TrueRate
      <4>4. \/ /\ rate.rx = SumFunction([i \in w.kept |-> w.bytes[i]["rx"]])
               /\ rate.tx = SumFunction([i \in w.kept |-> w.bytes[i]["tx"]])
            \/ w.kept \cap w.renewed # {}
        BY <3>3, <3>5 DEF TrueRate
      <4>5. RateExact'
        BY <2>2, <4>2, <4>3, <4>4 DEF RateExact, Sum, w
      <4> QED
        BY <2>2, <4>1, <4>5 DEF NetworkOK, At
    <3> QED
      BY <1>20, <3>4, <3>5
  <2> QED
    BY <1>22, <2>1, <2>2
<1> QED
  BY <1>2, <1>22, <1>23, <1>24, <1>25 DEF IInv

-----------------------------------------------------------------------------
LEMMA NextIInv == IInv /\ [Next]_vars => IInv'
<1> SUFFICES ASSUME IInv, [Next]_vars PROVE IInv'
  OBVIOUS
<1>1. CASE UNCHANGED vars
  <2>1. UNCHANGED <<stat, clock, net, pc, primed, prevCPU, prevNet, prevNetAt, sample, event,
                    cpuIn, netIn, cpuWin, netWin>>
    BY <1>1 DEF vars, kernel, collector, rates, wins, sinceThen
  <2>2. KernelOK' /\ CPUOK'
    BY <2>1, KernelSame, CPUSame DEF IInv
  <2>3. NetOK'
    <3>1. clock \in Nat /\ clock' \in Nat /\ clock <= clock'
      BY <2>1 DEF IInv, KernelOK
    <3> QED
      BY <2>1, <3>1, NetSame DEF IInv
  <2>4. EventOK' /\ UsedOK' /\ NetworkOK'
    BY <2>1, FiguresSame DEF IInv
  <2> QED
    BY <2>2, <2>3, <2>4 DEF IInv
<1>2. CASE Collect
  BY <1>2, BeginRoundIInv, ReadStatIInv, ReadNetIInv, NetworkIInv, PublishIInv DEF Collect
<1>3. CASE Kernel
  <2>1. CASE \E col \in DOMAIN stat : Jiffy(col)
    BY <2>1, JiffyIInv
  <2>2. CASE IowaitBack
    BY <2>2, IowaitIInv
  <2>3. CASE \E i \in Ifaces : Plug(i)
    BY <2>3, PlugIInv
  <2>4. CASE \E i \in Ifaces : \E dir \in {"rx", "tx"} : Traffic(i, dir)
    BY <2>4, TrafficIInv
  <2> QED
    BY <1>3, <2>1, <2>2, <2>3, <2>4 DEF Kernel
<1>4. CASE Returned
  BY <1>1, <1>4 DEF Returned
<1> QED
  BY <1>1, <1>2, <1>3, <1>4, PanicIInv DEF Next

LEMMA Invariance == Spec => []IInv
<1>1. Init => IInv
  BY InitIInv
<1>2. IInv /\ [Next]_vars => IInv'
  BY NextIInv
<1> QED
  BY <1>1, <1>2, PTL DEF Spec

\* addCPUStat: for any kernel and any number of failed readings, a published percentage is
\* the share of the jiffies since the last good reading that were not idle, and within 0
\* and 100 even when iowait went back.
THEOREM PercentExactAlways == Spec => []PercentExact
<1>1. IInv => PercentExact
  BY DEF IInv, UsedOK
<1> QED
  BY <1>1, Invariance, PTL

\* networkGroup: for any interfaces that come, go and start anew, published rates are the
\* bytes of the physical interfaces that both readings have, since the earlier one.
THEOREM RateExactAlways == Spec => []RateExact
<1>1. IInv => RateExact
  BY DEF IInv, NetworkOK
<1> QED
  BY <1>1, Invariance, PTL

\* collectAndPublish: no figure is missing from an event for another reason than the ones
\* that the consumer contract lists.
THEOREM AbsentForAReasonAlways == Spec => []AbsentForAReason
<1>1. IInv => AbsentForAReason
  BY DEF IInv, UsedOK, NetworkOK, AbsentForAReason
<1> QED
  BY <1>1, Invariance, PTL

-----------------------------------------------------------------------------
(***************************************************************************)
(* The sizes of module Usage.                                              *)
(***************************************************************************)
LEMMA Products ==
  ASSUME NEW a \in Nat, NEW b \in Nat, NEW k \in Nat
  PROVE  /\ a * k \in Nat /\ (a + b) * k = a * k + b * k
         /\ a <= b => a * k <= b * k
<1>1. a * k \in Nat /\ (a + b) * k = a * k + b * k
  OBVIOUS
<1>2. ASSUME a <= b PROVE a * k <= b * k
  <2>1. b - a \in Nat /\ b = a + (b - a)
    BY <1>2
  <2>2. (b - a) * k \in Nat /\ b * k = a * k + (b - a) * k
    BY <2>1
  <2> QED
    BY <1>1, <2>2
<1> QED
  BY <1>1, <1>2

LEMMA Small == ASSUME NEW a \in Nat, a < Word PROVE a % Word = a
  BY UsageAssumption

\* No count comes near Word, nor do five.
LEMMA CountsSmall ==
  /\ Word \in Nat /\ Kb \in Nat /\ MaxCount \in Nat /\ Kb >= 1
  /\ 5 * MaxCount < Word /\ 5 * (MaxCount * Kb) < Word
<1>1. Word \in Nat /\ Kb \in Nat /\ MaxCount \in Nat /\ Kb >= 1
  BY UsageAssumption
<1> DEFINE m == 5 * MaxCount
<1>2. m \in Nat /\ m * Kb < Word /\ m * Kb = 5 * (MaxCount * Kb)
  BY <1>1, UsageAssumption
<1> HIDE DEF m
<1>3. 1 * m <= Kb * m
  BY <1>1, <1>2, Products
<1>4. 1 * m = m /\ Kb * m = m * Kb /\ m * Kb \in Nat
  BY <1>1, <1>2
<1> QED
  BY <1>1, <1>2, <1>3, <1>4 DEF m

LEMMA MinusExact ==
  ASSUME NEW a \in Nat, NEW b \in Nat, a < Word
  PROVE  /\ Minus(a, b) \in Nat /\ Minus(a, b) <= a
         /\ Minus(a, b) = IF a > b THEN a - b ELSE 0
<1>1. CASE a > b
  <2>1. a - b \in Nat /\ a - b < Word /\ a - b <= a
    BY <1>1, CountsSmall
  <2>2. (a - b) % Word = a - b
    BY <2>1, Small
  <2> QED
    BY <1>1, <2>1, <2>2 DEF Minus
<1>2. CASE ~(a > b)
  BY <1>2 DEF Minus
<1> QED
  BY <1>1, <1>2

LEMMA AtMostBound ==
  ASSUME NEW n \in Nat, NEW total \in Nat
  PROVE  /\ AtMost(n, total) \in Nat /\ AtMost(n, total) <= total
         /\ AtMost(n, total) \in {n, total}
  BY DEF AtMost

LEMMA AvailableIs ==
  ASSUME NEW s \in MemSample
  PROVE  /\ AvailableKB(s) \in Nat
         /\ AvailableKB(s) = IF s.hasAvailable THEN s.available
                             ELSE IF s.reclaimable > s.shmem THEN s.reclaimable - s.shmem
                             ELSE 0
<1>1. /\ s.available \in Nat /\ s.reclaimable \in Nat /\ s.shmem \in Nat
      /\ s.reclaimable <= 2 * MaxCount
  BY CountsSmall DEF MemSample, Counts
<1>2. s.reclaimable < Word
  BY <1>1, CountsSmall
<1>3. /\ Minus(s.reclaimable, s.shmem) \in Nat
      /\ Minus(s.reclaimable, s.shmem) = IF s.reclaimable > s.shmem
                                         THEN s.reclaimable - s.shmem ELSE 0
  BY <1>1, <1>2, MinusExact
<1> QED
  BY <1>1, <1>3 DEF AvailableKB

\* The parts of a total of counts.
LEMMA Parts ==
  ASSUME NEW total \in Counts, NEW a \in Nat, a <= total
  PROVE  /\ (total - a) % Word = total - a /\ total - a \in Nat
         /\ (total - a) * Kb + a * Kb = total * Kb
         /\ (total - a) * Kb \in 0..(total * Kb)
<1>1. total \in Nat /\ total <= MaxCount
  BY CountsSmall DEF Counts
<1> DEFINE u == total - a
<1>2. u \in Nat /\ u < Word /\ u + a = total /\ u <= total
  BY <1>1, CountsSmall
<1> HIDE DEF u
<1>3. u % Word = u
  BY <1>2, Small
<1>4. (u + a) * Kb = u * Kb + a * Kb /\ u * Kb \in Nat /\ total * Kb \in Nat
  BY <1>1, <1>2, Products, CountsSmall
<1>5. u * Kb <= total * Kb
  BY <1>1, <1>2, Products, CountsSmall
<1> QED
  BY <1>2, <1>3, <1>4, <1>5 DEF u

MemoryTrue(m, s) ==
  /\ m.used + m.available = m.total /\ m.used \in 0..m.total
  /\ Share(m.usedPercent) /\ m.usedPercent[2] > 0
  /\ \/ m.available = s.available * Kb /\ s.hasAvailable
     \/ m.available = (s.reclaimable - s.shmem) * Kb /\ m.estimated
     \/ m.available = 0 /\ m.estimated /\ s.shmem > s.reclaimable
     \/ m.available = m.total

LEMMA MemorySum ==
  ASSUME NEW s \in MemSample, Memory(s) # Missing
  PROVE  MemoryTrue(Memory(s), s)
<1> DEFINE m == Memory(s)
<1> DEFINE a == AtMost(AvailableKB(s), s.total)
           u == (s.total - a) % Word
<1>1. /\ s.total \in Counts /\ s.total \in Nat /\ s.available \in Nat
      /\ s.reclaimable \in Nat /\ s.shmem \in Nat
  BY CountsSmall DEF MemSample, Counts
<1>2. /\ s.hasTotal /\ s.total # 0 /\ (s.hasAvailable \/ s.hasEstimate)
      /\ m = [total |-> s.total * Kb, used |-> u * Kb, available |-> a * Kb,
              usedPercent |-> <<u, s.total>>, estimated |-> ~s.hasAvailable]
  BY DEF Memory
<1>3. a \in Nat /\ a <= s.total /\ a \in {AvailableKB(s), s.total}
  BY <1>1, AvailableIs, AtMostBound
<1> HIDE DEF a, m
<1>4. /\ u = s.total - a /\ u \in Nat
      /\ u * Kb + a * Kb = s.total * Kb /\ u * Kb \in 0..(s.total * Kb)
  BY <1>1, <1>3, Parts
<1> HIDE DEF u
<1>5. m.used + m.available = m.total /\ m.used \in 0..m.total
  BY <1>2, <1>4
<1>6. Share(m.usedPercent) /\ m.usedPercent[2] > 0
  <2>1. m.usedPercent[1] = u /\ m.usedPercent[2] = s.total
    BY <1>2
  <2>2. 0 <= u /\ u <= s.total /\ s.total > 0
    BY <1>1, <1>2, <1>3, <1>4
  <2> QED
    BY <2>1, <2>2 DEF Share
<1>7. \/ m.available = s.available * Kb /\ s.hasAvailable
      \/ m.available = (s.reclaimable - s.shmem) * Kb /\ m.estimated
      \/ m.available = 0 /\ m.estimated /\ s.shmem > s.reclaimable
      \/ m.available = m.total
  <2>1. CASE a = s.total
    BY <1>2, <2>1
  <2>2. CASE a = AvailableKB(s) /\ s.hasAvailable
    BY <1>2, <2>2, AvailableIs
  <2>3. CASE a = AvailableKB(s) /\ ~s.hasAvailable
    <3>1. m.estimated
      BY <1>2, <2>3
    <3>2. m.available = a * Kb
      BY <1>2
    <3>3. CASE s.reclaimable > s.shmem
      BY <2>3, <3>1, <3>2, <3>3, AvailableIs
    <3>4. CASE s.shmem > s.reclaimable
      <4>1. ~(s.reclaimable > s.shmem)
        BY <1>1, <3>4
      <4>2. a = 0
        BY <2>3, <4>1, AvailableIs
      <4>3. m.available = 0
        BY <3>2, <4>2, CountsSmall
      <4> QED
        BY <3>1, <3>4, <4>3
    <3>5. CASE s.shmem = s.reclaimable
      <4>1. ~(s.reclaimable > s.shmem) /\ s.reclaimable - s.shmem = 0
        BY <1>1, <3>5
      <4>2. a = 0
        BY <2>3, <4>1, AvailableIs
      <4> QED
        BY <3>1, <3>2, <4>1, <4>2
    <3> QED
      BY <1>1, <3>3, <3>4, <3>5
  <2> QED
    BY <1>3, <2>1, <2>2, <2>3
<1> QED
  BY <1>5, <1>6, <1>7 DEF MemoryTrue, m

LEMMA SwapSum ==
  ASSUME NEW s \in SwapSample, Swap(s) # Missing
  PROVE  Swap(s).used \in 0..Swap(s).total /\ Share(Swap(s).usedPercent)
<1> DEFINE w == Swap(s)
<1> DEFINE a == AtMost(s.free, s.total)
           u == (s.total - a) % Word
<1>1. s.total \in Counts /\ s.total \in Nat /\ s.free \in Nat
  BY CountsSmall DEF SwapSample, Counts
<1>2. w = [total |-> s.total * Kb, used |-> u * Kb, usedPercent |-> <<u, s.total>>]
  BY DEF Swap
<1>3. a \in Nat /\ a <= s.total
  BY <1>1, AtMostBound
<1> HIDE DEF a, w
<1>4. u = s.total - a /\ u \in Nat /\ u * Kb \in 0..(s.total * Kb)
  BY <1>1, <1>3, Parts
<1> HIDE DEF u
<1>5. w.used \in 0..w.total /\ w.usedPercent[1] = u /\ w.usedPercent[2] = s.total
  BY <1>2, <1>4
<1>6. 0 <= u /\ u <= s.total
  BY <1>1, <1>3, <1>4
<1> QED
  BY <1>5, <1>6 DEF Share, w

LEMMA MemoryAlways == MemoryAddsUp
<1>1. \A s \in MemSample : Memory(s) # Missing => MemoryTrue(Memory(s), s)
  BY MemorySum
<1>2. \A s \in SwapSample :
        Swap(s) # Missing => Swap(s).used \in 0..Swap(s).total /\ Share(Swap(s).usedPercent)
  BY SwapSum
<1> QED
  BY <1>1, <1>2 DEF MemoryAddsUp, MemoryTrue

LEMMA ContainerAlways == ContainerAddsUp
<1> SUFFICES ASSUME NEW s \in ContainerSample, ContainerMemory(s) # Missing
             PROVE  /\ ContainerMemory(s).used \in 0..s.usage
                    /\ ContainerMemory(s).used = 0 => s.usage = 0
  BY DEF ContainerAddsUp
<1> DEFINE c == MemCache(s)
           u == LessCache(s.usage, c)
<1>1. s.usage # Missing /\ ContainerMemory(s).used = u
  BY DEF ContainerMemory
<1>2. s.usage \in Nat /\ s.usage <= MaxCount
  BY <1>1, CountsSmall DEF ContainerSample, Counts
<1>3. c \in Nat
  <2>1. /\ s.v1 # Missing => s.v1 \in Nat
        /\ s.v2 # Missing => s.v2 \in Nat
    BY CountsSmall DEF ContainerSample, Counts
  <2> QED
    BY <2>1 DEF MemCache
<1> HIDE DEF c
<1>4. u \in 0..s.usage /\ (u = 0 => s.usage = 0)
  <2>1. CASE c < s.usage
    <3>1. s.usage - c \in Nat /\ s.usage - c < Word
      BY <1>2, <1>3, <2>1, CountsSmall
    <3>2. (s.usage - c) % Word = s.usage - c
      BY <3>1, Small
    <3> QED
      BY <1>2, <1>3, <2>1, <3>1, <3>2 DEF LessCache
  <2>2. CASE ~(c < s.usage)
    BY <1>2, <2>2 DEF LessCache
  <2> QED
    BY <2>1, <2>2
<1> QED
  BY <1>1, <1>4

FoldStep(q, g) ==
  [s \in SUBSET DOMAIN q |-> IF s = {} THEN NoUsage ELSE Add(g[s \ {Max(s)}], q[Max(s)])]

LEMMA TotalIsFixpoint ==
  ASSUME NEW q, NEW g, g = FoldStep(q, g)
  PROVE  \E h : h = FoldStep(q, h) /\ Total(q) = h[DOMAIN q]
<1> DEFINE h == CHOOSE k : k = FoldStep(q, k)
<1>1. h = FoldStep(q, h)
  OBVIOUS
<1>2. Total(q) = h[DOMAIN q]
  BY DEF Total, FoldLeft, MapThenFoldSet, FoldStep
<1> QED
  BY <1>1, <1>2

LEMMA TotalOfTwo == ASSUME NEW x, NEW y PROVE Total(<<x, y>>) = Add(Add(NoUsage, x), y)
<1> DEFINE q == <<x, y>>
           g == [s \in SUBSET {1, 2} |->
                   IF s = {} THEN NoUsage
                   ELSE IF s = {1} THEN Add(NoUsage, x)
                   ELSE IF s = {2} THEN Add(NoUsage, y) ELSE Add(Add(NoUsage, x), y)]
<1>1. DOMAIN q = {1, 2} /\ q[1] = x /\ q[2] = y
  OBVIOUS
<1>2. Max({1}) = 1 /\ Max({2}) = 2 /\ Max({1, 2}) = 2
  BY DEF Max
<1>3. /\ g[{}] = NoUsage /\ g[{1}] = Add(NoUsage, x) /\ g[{2}] = Add(NoUsage, y)
      /\ g[{1, 2}] = Add(Add(NoUsage, x), y)
  OBVIOUS
<1>4. DOMAIN g = SUBSET {1, 2} /\ g = [s \in SUBSET {1, 2} |-> g[s]]
  OBVIOUS
<1> HIDE DEF g, q
<1>5. {1} \ {1} = {} /\ {2} \ {2} = {} /\ {1, 2} \ {2} = {1}
  OBVIOUS
<1>6. \A s \in SUBSET {1, 2} : s = {} \/ s = {1} \/ s = {2} \/ s = {1, 2}
  OBVIOUS
<1>7. ASSUME NEW s \in SUBSET {1, 2}
      PROVE  g[s] = IF s = {} THEN NoUsage ELSE Add(g[s \ {Max(s)}], q[Max(s)])
  <2>1. CASE s = {}
    BY <1>3, <2>1
  <2>2. CASE s = {1}
    BY <1>1, <1>2, <1>3, <1>5, <2>2
  <2>3. CASE s = {2}
    BY <1>1, <1>2, <1>3, <1>5, <2>3
  <2>4. CASE s = {1, 2}
    BY <1>1, <1>2, <1>3, <1>5, <2>4
  <2> QED
    BY <1>6, <2>1, <2>2, <2>3, <2>4
<1>8. g = FoldStep(q, g)
  BY <1>1, <1>4, <1>7 DEF FoldStep
<1>9. PICK h : h = FoldStep(q, h) /\ Total(q) = h[DOMAIN q]
  BY <1>8, TotalIsFixpoint
<1>10. \A s \in SUBSET {1, 2} :
         h[s] = IF s = {} THEN NoUsage ELSE Add(h[s \ {Max(s)}], q[Max(s)])
  BY <1>1, <1>9 DEF FoldStep
<1>11. h[{}] = NoUsage
  BY <1>10
<1>12. h[{1}] = Add(h[{}], x)
  BY <1>1, <1>2, <1>5, <1>10
<1>13. h[{1, 2}] = Add(h[{1}], y)
  BY <1>1, <1>2, <1>5, <1>10
<1> QED
  BY <1>1, <1>9, <1>11, <1>12, <1>13 DEF q

\* The sizes of one filesystem.
UsageTrue(u, s) ==
  /\ u.total \in Nat /\ u.used \in Nat /\ u.free \in Nat /\ u.reserved \in Nat
  /\ u.used <= u.total /\ 2 * u.total < Word /\ 2 * u.reserved < Word
  /\ Consistent(s) => u.used + u.free + u.reserved = u.total

LEMMA BytesOf == ASSUME NEW s \in DiskSample PROVE UsageTrue(ToBytes(s), s)
<1> DEFINE u == ToBytes(s)
           n == s.size
           used == Minus(s.blocks, s.free)
           reserved == Minus(s.free, s.available)
<1>1. /\ s.blocks \in Nat /\ s.free \in Nat /\ s.available \in Nat /\ n \in Nat
      /\ s.blocks <= MaxCount /\ s.free <= MaxCount /\ n <= Kb
  BY CountsSmall DEF DiskSample, Counts
<1>2. s.blocks < Word /\ s.free < Word
  BY <1>1, CountsSmall
<1>3. /\ used \in Nat /\ used <= s.blocks
      /\ used = IF s.blocks > s.free THEN s.blocks - s.free ELSE 0
  BY <1>1, <1>2, MinusExact
<1>4. /\ reserved \in Nat /\ reserved <= s.free
      /\ reserved = IF s.free > s.available THEN s.free - s.available ELSE 0
  BY <1>1, <1>2, MinusExact
<1>5. /\ u.total = s.blocks * n /\ u.used = used * n /\ u.free = s.available * n
      /\ u.reserved = reserved * n
  BY DEF ToBytes
<1> HIDE DEF u, n, used, reserved
<1>6. /\ s.blocks * n \in Nat /\ used * n \in Nat /\ s.available * n \in Nat
      /\ reserved * n \in Nat
  BY <1>1, <1>3, <1>4, Products
<1>7. used * n <= s.blocks * n
  BY <1>1, <1>3, Products
<1>8. ASSUME NEW a \in Nat, a <= MaxCount PROVE 2 * (a * n) < Word
  <2>1. a * n <= MaxCount * n /\ a * n \in Nat /\ MaxCount * n \in Nat
    BY <1>1, <1>8, Products, CountsSmall
  <2>2. n * MaxCount <= Kb * MaxCount
    BY <1>1, Products, CountsSmall
  <2>3. n * MaxCount = MaxCount * n /\ Kb * MaxCount = MaxCount * Kb /\ MaxCount * Kb \in Nat
    BY <1>1, CountsSmall
  <2> DEFINE p == a * n
             r == MaxCount * n
             t == MaxCount * Kb
  <2>4. p <= r /\ r <= t /\ 5 * t < Word /\ p \in Nat /\ r \in Nat /\ t \in Nat /\ Word \in Nat
    BY <2>1, <2>2, <2>3, CountsSmall
  <2> HIDE DEF p, r, t
  <2>5. 2 * p < Word
    BY <2>4
  <2> QED
    BY <2>5 DEF p
<1>9. 2 * (s.blocks * n) < Word
  BY <1>1, <1>8
<1>10. 2 * (reserved * n) < Word
  <2>1. reserved <= MaxCount
    BY <1>1, <1>4, CountsSmall
  <2> QED
    BY <1>4, <1>8, <2>1
<1>11. ASSUME Consistent(s) PROVE used * n + s.available * n + reserved * n = s.blocks * n
  <2>1. used + s.available + reserved = s.blocks
    BY <1>1, <1>3, <1>4, <1>11 DEF Consistent
  <2>2. (used + s.available) * n = used * n + s.available * n
    BY <1>1, <1>3, Products
  <2>3. ((used + s.available) + reserved) * n = (used + s.available) * n + reserved * n
    <3>1. used + s.available \in Nat
      BY <1>1, <1>3
    <3> QED
      BY <1>1, <1>4, <3>1, Products
  <2> QED
    BY <2>1, <2>2, <2>3
<1> QED
  BY <1>5, <1>6, <1>7, <1>9, <1>10, <1>11 DEF UsageTrue, u

LEMMA DiskAlways == DiskAddsUp
<1> DEFINE Sums(u, s, t) ==
      /\ u.used <= u.total /\ u.total < Word /\ u.reserved < Word
      /\ Share(u.usedPercent)
      /\ Consistent(s) /\ Consistent(t) => u.used + u.free + u.reserved = u.total
<1>1. ASSUME NEW s \in DiskSample, NEW t \in DiskSample
      PROVE  Sums(Total(<<ToBytes(s), ToBytes(t)>>), s, t)
  <2> DEFINE a == ToBytes(s)
             b == ToBytes(t)
             u == Total(<<a, b>>)
  <2>1. UsageTrue(a, s) /\ UsageTrue(b, t)
    BY BytesOf
  <2>2. u = Add(Add(NoUsage, a), b)
    BY TotalOfTwo
  <2> HIDE DEF a, b, u
  <2>3. /\ a.total \in Nat /\ a.used \in Nat /\ a.free \in Nat /\ a.reserved \in Nat
        /\ b.total \in Nat /\ b.used \in Nat /\ b.free \in Nat /\ b.reserved \in Nat
        /\ a.used <= a.total /\ 2 * a.total < Word /\ 2 * a.reserved < Word
        /\ b.used <= b.total /\ 2 * b.total < Word /\ 2 * b.reserved < Word
    BY <2>1 DEF UsageTrue
  <2>4. /\ u.total = (0 + a.total) + b.total /\ u.used = (0 + a.used) + b.used
        /\ u.free = (0 + a.free) + b.free /\ u.reserved = (0 + a.reserved) + b.reserved
        /\ u.usedPercent[1] = (0 + a.used) + b.used
        /\ u.usedPercent[2] = (0 + a.used) + b.used + (0 + a.free) + b.free
    BY <2>2 DEF Add, NoUsage
  <2>5. /\ u.total = a.total + b.total /\ u.used = a.used + b.used
        /\ u.free = a.free + b.free /\ u.reserved = a.reserved + b.reserved
        /\ u.usedPercent[1] = a.used + b.used
        /\ u.usedPercent[2] = a.used + b.used + a.free + b.free
    BY <2>3, <2>4
  <2>6. u.used <= u.total /\ u.total < Word /\ u.reserved < Word
    BY <2>3, <2>5, CountsSmall
  <2>7. Share(u.usedPercent)
    BY <2>3, <2>5 DEF Share
  <2>8. ASSUME Consistent(s), Consistent(t) PROVE u.used + u.free + u.reserved = u.total
    <3>1. a.used + a.free + a.reserved = a.total /\ b.used + b.free + b.reserved = b.total
      BY <2>1, <2>8 DEF UsageTrue
    <3> QED
      BY <2>3, <2>5, <3>1
  <2> QED
    BY <2>6, <2>7, <2>8 DEF a, b, u
<1> QED
  BY <1>1 DEF DiskAddsUp

\* memory, stats and disk: for every count the kernel may report, and any unit and word
\* size that holds five of them, no published size wraps, none exceeds its total, and the
\* parts make up the whole.
THEOREM SizesAddUpAlways == Spec => []SizesAddUp
<1>1. SizesAddUp
  BY MemoryAlways, ContainerAlways, DiskAlways DEF SizesAddUp
<1> QED
  BY <1>1, PTL
=============================================================================
