----------------------------- MODULE Resources -----------------------------
(***************************************************************************)
(* The resources collector (resources/collector.go) and the kernel         *)
(* counters that it reads.                                                 *)
(*                                                                         *)
(* An action of the collector is one read of a counter file under /proc,   *)
(* or of the device links under /sys, with the code up to the next one.    *)
(* The CPU percentage and the network rates are differences between two    *)
(* readings that may be several ticks apart, because a reading that fails  *)
(* leaves the earlier one in place; counters may start anew in between.    *)
(* The clock counts jiffies.                                               *)
(*                                                                         *)
(* Uptime, memory and swap are left out: each comes from a file of its     *)
(* own, of which nothing is kept, and is missing when that file fails or   *)
(* Memory and Swap, in Usage, say so.                                      *)
(***************************************************************************)
EXTENDS Usage, FiniteSetsExt

CONSTANTS
  Ifaces,        \* network interfaces
  Physical,      \* those with a device: not loopback, bridges, tunnels
  MaxMoves,      \* bound: jiffies, bytes, and interfaces or counters that come or go
  MaxErrors,     \* bound: readings that fail
  MaxTicks,      \* bound: ticks
  MaxRestarts    \* bound: panics, each followed by a supervised restart

ASSUME ResourcesAssumption ==
  /\ IsFiniteSet(Ifaces) /\ Physical \subseteq Ifaces
  /\ MaxMoves \in Nat /\ MaxErrors \in Nat /\ MaxTicks \in Nat /\ MaxRestarts \in Nat

\* The byte counters of an interface, a reading of /proc/stat, and the two figures.
Bytes == [rx : Nat, tx : Nat]
CPUReading == [total : Nat, idle : Nat]
Figures == [busy : Nat, of : Nat] \cup [rx : Int, tx : Int, secs : Nat]

ASSUME MissingAssumption ==
  /\ Missing \notin CPUReading /\ Missing \notin Figures
  /\ \A S \in SUBSET Ifaces : Missing \notin [S -> Bytes]

VARIABLES
  stat, clock,         \* the columns of the cpu line of /proc/stat
  net,                 \* /proc/net/dev: interface -> byte counters
  moves, errors, ticks, restarts,    \* used of the bounds
  pc, primed,          \* where Run is, and whether primeRates has returned
  prevCPU, prevNet, prevNetAt,
  sample,              \* the parsed /proc/net/dev, until it is differenced
  event,               \* what has been filled in
  \* History: what happened since the last reading of /proc/stat, of /proc/net/dev, that
  \* succeeded, and in the windows that the figures of the event are about.
  cpuIn, netIn, cpuWin, netWin

kernel == <<stat, clock, net, moves>>
bounds == <<ticks, restarts>>
rates == <<prevCPU, prevNet, prevNetAt, sample>>
sinceThen == <<cpuIn, netIn>>
wins == <<cpuWin, netWin>>
collector == <<pc, primed, rates, event, wins>>
vars == <<kernel, bounds, errors, collector, sinceThen>>

At(l) == pc = l
Goto(l) == pc' = l

NoBytes == [rx |-> 0, tx |-> 0]
NoEvent == [used |-> Missing, network |-> Missing, load |-> FALSE, cpu |-> FALSE]

\* Jiffies, those that were not idle, whether iowait went back, whether there was a
\* reading at all; bytes, the interfaces whose counters started anew, those kept then.
NewCPU(had) == [busy |-> 0, of |-> 0, back |-> FALSE, had |-> had]
NewNet(had) == [bytes |-> [i \in Ifaces |-> NoBytes], renewed |-> {}, kept |-> {},
                had |-> had, secs |-> 0]

(***************************************************************************)
(* The kernel: each jiffy goes to one column, guest time to user time too. *)
(***************************************************************************)
\* Between rounds, and between /proc/net/dev and the device links.  No reading could tell
\* a move at another point of a round from one at these.
Move ==
  /\ At("startup") \/ At("select") \/ At("sys")
  /\ moves < MaxMoves /\ moves' = moves + 1
  /\ UNCHANGED <<bounds, errors, collector>>

Jiffy(col) ==
  /\ Move /\ clock' = clock + 1
  /\ stat' = IF col = "guest" THEN [stat EXCEPT !.user = @ + 1, !.guest = @ + 1]
             ELSE [stat EXCEPT ![col] = @ + 1]
  /\ cpuIn' = [cpuIn EXCEPT !.of = @ + 1,
                            !.busy = IF col \in {"user", "guest"} THEN @ + 1 ELSE @]
  /\ UNCHANGED <<net, netIn>>

\* iowait is not monotonic (proc(5)).
IowaitBack ==
  /\ Move
  /\ stat.iowait > 0 /\ stat' = [stat EXCEPT !.iowait = @ - 1]
  /\ cpuIn' = [cpuIn EXCEPT !.back = TRUE]
  /\ UNCHANGED <<clock, net, netIn>>

Traffic(i, dir) ==
  /\ Move
  /\ i \in DOMAIN net /\ net' = [net EXCEPT ![i][dir] = @ + 1]
  /\ netIn' = [netIn EXCEPT !.bytes[i][dir] = @ + 1]
  /\ UNCHANGED <<stat, clock, cpuIn>>

Present(S) == [j \in S |-> IF j \in DOMAIN net THEN net[j] ELSE NoBytes]

\* An interface appears or goes, or its driver is loaded again.
Plug(i) ==
  /\ Move
  /\ \/ i \in DOMAIN net /\ net' = Present(DOMAIN net \ {i})
     \/ i \notin DOMAIN net /\ net' = Present(DOMAIN net \cup {i})
     \/ i \in DOMAIN net /\ net' = [net EXCEPT ![i] = NoBytes]
  /\ netIn' = [netIn EXCEPT !.renewed = @ \cup {i}]
  /\ UNCHANGED <<stat, clock, cpuIn>>

(***************************************************************************)
(* The parts of a reading.                                                 *)
(***************************************************************************)
Ok == UNCHANGED errors

\* The file cannot be read or parsed.
Fails == errors < MaxErrors /\ errors' = errors + 1

\* cpu.Parse: guest columns are left out, waiting counts as idle.
ParseStat == [total |-> stat.user + stat.idle + stat.iowait, idle |-> stat.idle + stat.iowait]

Percent(prev, now) ==
  LET total == now.total - prev.total
      idle == now.idle - prev.idle
  IN  IF total <= 0 \/ idle < 0 \/ idle > total THEN Missing
      ELSE [busy |-> total - idle, of |-> total]

\* Mutant of Shared: an interface that appeared counts from zero.
SharedAny(prev, now) == DOMAIN now

\* The interfaces with a baseline.
Shared(prev, now) == DOMAIN prev \cap DOMAIN now

Old(prev, i) == IF i \in DOMAIN prev THEN prev[i] ELSE NoBytes

Rates(prev, now, elapsed) ==
  LET S == Shared(prev, now)
      delta(dir) == SumFunction([i \in S |-> now[i][dir] - Old(prev, i)[dir]])
  IN  IF \/ elapsed <= 0 \/ S = {}
         \/ \E i \in S : now[i].rx < Old(prev, i).rx \/ now[i].tx < Old(prev, i).tx
      THEN Missing
      ELSE [rx |-> delta("rx"), tx |-> delta("tx"), secs |-> elapsed]

(***************************************************************************)
(* Run.  A round is stat, net, sys, publish; primeRates is stat, net, sys. *)
(***************************************************************************)
\* config.WaitForStartup, or a tick; the timers fire at any time.
BeginRound ==
  /\ \/ At("startup") /\ UNCHANGED ticks
     \/ At("select") /\ ticks < MaxTicks /\ ticks' = ticks + 1
  /\ Goto("stat")
  /\ UNCHANGED <<kernel, restarts, errors, primed, rates, event, wins, sinceThen>>

\* ctx is done, cancelled now or during the round, which does not look at it.
Return ==
  /\ At("startup") \/ At("select")
  /\ Goto("done")
  /\ UNCHANGED <<kernel, bounds, errors, primed, rates, event, wins, sinceThen>>

\* Mutant of KeepCPU: only a reading that gives a percentage becomes the baseline.
KeepUsedCPU(now) ==
  prevCPU' = IF prevCPU = Missing \/ Percent(prevCPU, now) # Missing THEN now ELSE prevCPU

\* Every reading that could be parsed is the next baseline.
KeepCPU(now) == prevCPU' = now

\* Mutant of StatFails: the baseline is forgotten with the reading.
StatFailsForget == Fails /\ prevCPU' = Missing /\ UNCHANGED <<event, cpuIn, cpuWin>>

StatFails == Fails /\ UNCHANGED <<prevCPU, event, cpuIn, cpuWin>>

\* addCPUStat, into the event or, in primeRates, into a group that is discarded.
ReadStat ==
  /\ At("stat")
  /\ \/ /\ Ok
        /\ KeepCPU(ParseStat)
        /\ \/ ~primed /\ UNCHANGED <<event, cpuWin>>
           \/ /\ primed /\ cpuWin' = cpuIn
              /\ event' = [event EXCEPT !.used = IF prevCPU = Missing THEN Missing
                                                 ELSE Percent(prevCPU, ParseStat)]
        /\ cpuIn' = NewCPU(TRUE)
     \/ StatFails
  /\ Goto("net")
  /\ UNCHANGED <<kernel, bounds, primed, prevNet, prevNetAt, sample, netIn, netWin>>

\* cpuGroup is nil when it would be empty: no count (no /proc/stat, or no per-CPU lines in
\* it), no percentage and no load averages, which are there all three or not at all.
CPUGroup(count, load) == count \/ event.used # Missing \/ load

\* networkGroup returns, to collectAndPublish or to primeRates.
NetworkReturns(network) ==
  \/ ~primed /\ primed' = TRUE /\ Goto("startup") /\ UNCHANGED event
  \/ /\ primed /\ Goto("publish") /\ UNCHANGED primed
     /\ \E load \in BOOLEAN, perCPU \in BOOLEAN :
          event' = [event EXCEPT !.network = network, !.load = load,
                                 !.cpu = CPUGroup(perCPU /\ cpuWin # Missing, load)]

\* networkGroup, first part: /proc/net/dev; a file without interfaces is not parsed.
ReadNet ==
  /\ At("net")
  /\ \/ /\ Ok /\ DOMAIN net # {}
        /\ sample' = net
        /\ netWin' = netIn
        /\ netIn' = NewNet(TRUE)
        /\ Goto("sys") /\ UNCHANGED <<primed, event>>
     \/ /\ Fails \/ (Ok /\ DOMAIN net = {})
        /\ NetworkReturns(Missing)
        /\ UNCHANGED <<sample, netIn, netWin>>
  /\ UNCHANGED <<kernel, bounds, prevCPU, prevNet, prevNetAt, cpuIn, cpuWin>>

\* The interfaces read that still have a device link, which could be statted.
Linked(lost) == (DOMAIN sample \cap DOMAIN net \cap Physical) \ lost

KeepPhysical(lost) == [i \in Linked(lost) |-> sample[i]]

\* networkGroup, second part: the time, the device links, the rates.
Network ==
  /\ At("sys")
  /\ \E lost \in {{}} \cup {{i} : i \in Physical} :
       /\ IF lost = {} THEN Ok ELSE Fails
       /\ prevNet' = KeepPhysical(lost)
       /\ netIn' = [netIn EXCEPT !.kept = Linked(lost)]
  /\ prevNetAt' = clock
  /\ NetworkReturns(IF prevNet = Missing THEN Missing
                    ELSE Rates(prevNet, prevNet', clock - prevNetAt))
  /\ netWin' = IF primed THEN [netWin EXCEPT !.kept = @ \cap netIn'.kept,
                                             !.secs = clock - prevNetAt] ELSE Missing
  /\ sample' = Missing
  /\ UNCHANGED <<kernel, bounds, prevCPU, cpuIn, cpuWin>>

NewRound == event' = NoEvent /\ cpuWin' = Missing /\ netWin' = Missing

\* PublishBatch, whatever becomes of the event, and whether or not ctx is cancelled.
Publish ==
  /\ At("publish")
  /\ NewRound
  /\ Goto("select")
  /\ UNCHANGED <<kernel, bounds, errors, primed, rates, sinceThen>>

\* A panic in the publisher: runSupervised builds a new Collector.
Panic ==
  /\ At("publish")
  /\ restarts < MaxRestarts /\ restarts' = restarts + 1
  /\ NewRound
  /\ prevCPU' = Missing /\ prevNet' = Missing /\ prevNetAt' = 0
  /\ cpuIn' = NewCPU(FALSE) /\ netIn' = NewNet(FALSE)
  /\ primed' = FALSE
  /\ Goto("stat")
  /\ UNCHANGED <<kernel, ticks, errors, sample>>

-----------------------------------------------------------------------------
Init ==
  /\ stat = [user |-> 1, guest |-> 0, idle |-> 1, iowait |-> 1] /\ clock = 0
  /\ \E S \in SUBSET Ifaces : net = [i \in S |-> [rx |-> 1, tx |-> 1]]
  /\ moves = 0 /\ errors = 0 /\ ticks = 0 /\ restarts = 0
  /\ pc = "stat" /\ primed = FALSE
  /\ prevCPU = Missing /\ prevNet = Missing /\ prevNetAt = 0 /\ sample = Missing
  /\ event = NoEvent /\ cpuWin = Missing /\ netWin = Missing
  /\ cpuIn = NewCPU(FALSE) /\ netIn = NewNet(FALSE)

Collect == BeginRound \/ Return \/ ReadStat \/ ReadNet \/ Network \/ Publish

Kernel ==
  \/ (\E col \in DOMAIN stat : Jiffy(col)) \/ IowaitBack
  \/ (\E i \in Ifaces : Plug(i) \/ \E dir \in {"rx", "tx"} : Traffic(i, dir))

\* Run has returned.
Returned == At("done") /\ UNCHANGED vars

Next == Collect \/ Panic \/ Kernel \/ Returned

Spec == Init /\ [][Next]_vars

-----------------------------------------------------------------------------
\* The published CPU percentage is the share of the jiffies since the last reading that
\* succeeded that were not idle, however many readings failed or were refused in
\* between: no window overlaps another, guest time is not counted twice.  Only a window
\* in which iowait went back may give another figure, which is still a percentage.
PercentExact ==
  event.used # Missing =>
    /\ cpuWin.had
    /\ event.used.of > 0 /\ event.used.busy \in 0..event.used.of
    /\ event.used = [busy |-> cpuWin.busy, of |-> cpuWin.of] \/ cpuWin.back

Sum(dir) == SumFunction([i \in netWin.kept |-> netWin.bytes[i][dir]])

\* The published rates are the bytes that went through the physical interfaces present
\* at both readings, and no other, since the last reading that succeeded.  An interface
\* whose counters started anew in between may go unnoticed only if it is one of those.
RateExact ==
  event.network # Missing =>
    /\ netWin.had /\ netWin.kept # {} /\ event.network.secs > 0
    /\ \/ event.network.rx = Sum("rx") /\ event.network.tx = Sum("tx")
       \/ netWin.kept \cap netWin.renewed # {}

\* When an event is published a figure is missing from it only for the reasons that the
\* consumer contract lists: its own file failed (cpuWin, netWin), there was no earlier
\* reading, nothing to compare, or counters that went back.
AbsentForAReason ==
  At("publish") =>
    /\ cpuWin # Missing /\ event.used = Missing =>
         ~cpuWin.had \/ cpuWin.of = 0 \/ cpuWin.back
    /\ netWin # Missing /\ event.network = Missing =>
         \/ ~netWin.had \/ netWin.kept = {} \/ netWin.kept \cap netWin.renewed # {}
         \/ netWin.secs = 0
    /\ ~event.cpu => event.used = Missing /\ ~event.load

\* Whatever counts an event is made from, inconsistent ones included, no size or percentage
\* of memory, swap, a container or a disk wraps below zero or exceeds its total, and the
\* parts make up the whole.
SizesAddUp == At("publish") => MemoryAddsUp /\ ContainerAddsUp /\ DiskAddsUp
=============================================================================
