------------------------------- MODULE Usage -------------------------------
(***************************************************************************)
(* The arithmetic of the published sizes: memory/calculate.go,             *)
(* disk/calculate.go, and the memory of a container in docker's            *)
(* stats/calculate.go.  The counts are uint64: a difference is taken       *)
(* modulo Word, so that one that goes below zero shows as a huge size.  A  *)
(* percentage is the pair of its numerator and its denominator.            *)
(***************************************************************************)
EXTENDS Integers, SequencesExt

CONSTANTS
  Word,        \* 2^64
  Kb,          \* bytes in the unit of /proc/meminfo
  MaxCount,    \* bound: kB or blocks that the kernel reports
  Missing      \* the result of a calculation that reports false

ASSUME UsageAssumption ==
  /\ Word \in Nat \ {0} /\ Kb \in Nat \ {0} /\ MaxCount \in Nat
  /\ 5 * MaxCount * Kb < Word    \* no server comes near 2^64 bytes

Counts == 0..MaxCount

\* Mutant of Minus: arithmetic that is not clamped to zero.
MinusWrapped(a, b) == (a - b) % Word

\* The guarded subtractions: nothing is left where b is larger.
Minus(a, b) == IF a > b THEN (a - b) % Word ELSE 0

\* The defensive caps of Memory and Swap.
AtMost(n, total) == IF n > total THEN total ELSE n

(***************************************************************************)
(* memory: the lines of /proc/meminfo, and which of them were there.  The  *)
(* four lines that the estimate adds up are one number.                    *)
(***************************************************************************)
MemSample ==
  [total : Counts, available : Counts, reclaimable : 0..(2 * MaxCount), shmem : Counts,
   hasTotal : BOOLEAN, hasAvailable : BOOLEAN, hasEstimate : BOOLEAN]

AvailableKB(s) == IF s.hasAvailable THEN s.available ELSE Minus(s.reclaimable, s.shmem)

Memory(s) ==
  LET available == AtMost(AvailableKB(s), s.total)
      used == (s.total - available) % Word
  IN  IF ~s.hasTotal \/ s.total = 0 \/ ~(s.hasAvailable \/ s.hasEstimate) THEN Missing
      ELSE [total |-> s.total * Kb, used |-> used * Kb, available |-> available * Kb,
            usedPercent |-> <<used, s.total>>, estimated |-> ~s.hasAvailable]

SwapSample == [total : Counts, free : Counts, hasSwap : BOOLEAN]

Swap(s) ==
  LET used == (s.total - AtMost(s.free, s.total)) % Word
  IN  IF ~s.hasSwap THEN Missing
      ELSE [total |-> s.total * Kb, used |-> used * Kb, usedPercent |-> <<used, s.total>>]

(***************************************************************************)
(* stats: the memory group of a container, with the inactive file pages    *)
(* under the name of either cgroup version, or of neither.                 *)
(***************************************************************************)
ContainerSample ==
  [usage : Counts \cup {Missing}, limit : Counts,
   v1 : Counts \cup {Missing}, v2 : Counts \cup {Missing}]

MemCache(s) ==
  CASE s.v1 # Missing -> s.v1
    [] s.v1 = Missing /\ s.v2 # Missing -> s.v2
    [] OTHER -> 0

\* The cache is left out, unless the counters disagree.
LessCache(usage, cache) == IF cache < usage THEN (usage - cache) % Word ELSE usage

ContainerMemory(s) ==
  LET used == LessCache(s.usage, MemCache(s))
  IN  IF s.usage = Missing THEN Missing
      ELSE [used |-> used, limit |-> s.limit, usedPercent |-> <<used, s.limit>>]

(***************************************************************************)
(* disk: the block counts of a statfs result, and the sum of several.      *)
(***************************************************************************)
DiskSample == [blocks : Counts, free : Counts, available : Counts, size : 1..Kb]

ToBytes(s) ==
  LET used == Minus(s.blocks, s.free) * s.size
      free == s.available * s.size
  IN  [total |-> s.blocks * s.size, used |-> used, free |-> free,
       reserved |-> Minus(s.free, s.available) * s.size, usedPercent |-> <<used, used + free>>]

Add(t, u) ==
  [total |-> t.total + u.total, used |-> t.used + u.used, free |-> t.free + u.free,
   reserved |-> t.reserved + u.reserved,
   usedPercent |-> <<t.used + u.used, t.used + u.used + t.free + u.free>>]

NoUsage == [total |-> 0, used |-> 0, free |-> 0, reserved |-> 0, usedPercent |-> <<0, 0>>]

Total(usages) == FoldLeft(Add, NoUsage, usages)

-----------------------------------------------------------------------------
Share(p) == 0 <= p[1] /\ p[1] <= p[2]

\* Whatever the kernel reports, also available memory or free swap above the total, used
\* memory neither wraps nor exceeds the total, and used and available make up the total;
\* available memory is what the kernel says or the estimate, within 0 and the total.
MemoryAddsUp ==
  /\ \A s \in MemSample :
       LET m == Memory(s) IN
         m # Missing =>
           /\ m.used + m.available = m.total /\ m.used \in 0..m.total
           /\ Share(m.usedPercent) /\ m.usedPercent[2] > 0
           /\ \/ m.available = s.available * Kb /\ s.hasAvailable
              \/ m.available = (s.reclaimable - s.shmem) * Kb /\ m.estimated
              \/ m.available = 0 /\ m.estimated /\ s.shmem > s.reclaimable
              \/ m.available = m.total
  /\ \A s \in SwapSample :
       LET w == Swap(s) IN w # Missing => w.used \in 0..w.total /\ Share(w.usedPercent)

\* A container never shows more memory than its usage, nor none while it uses some.
ContainerAddsUp ==
  \A s \in ContainerSample :
    LET c == ContainerMemory(s) IN
      c # Missing => c.used \in 0..s.usage /\ (c.used = 0 => s.usage = 0)

Consistent(s) == s.available <= s.free /\ s.free <= s.blocks

\* Whatever statfs reports, the sizes do not wrap and the percentage is between 0 and
\* 100; when the counts are consistent, used, free and reserved bytes make up the total,
\* of one filesystem and of the sum of two.
DiskAddsUp ==
  \A s, t \in DiskSample :
    LET u == Total(<<ToBytes(s), ToBytes(t)>>) IN
      /\ u.used <= u.total /\ u.total < Word /\ u.reserved < Word
      /\ Share(u.usedPercent)
      /\ Consistent(s) /\ Consistent(t) => u.used + u.free + u.reserved = u.total
=============================================================================
