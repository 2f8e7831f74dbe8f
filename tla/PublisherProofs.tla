--------------------------- MODULE PublisherProofs ---------------------------
(***************************************************************************)
(* The throttled counters of module Publisher, for any number of callers,  *)
(* any size of batch and any intervals.  The mutex makes the holder the    *)
(* only caller in the critical section, and with that the counters, the    *)
(* log lines and the clock stay in step.                                   *)
(***************************************************************************)
EXTENDS Publisher, TLAPS

CritSection == {"add", "check", "log", "reset", "unlock"}

\* Whoever is in the critical section holds the mutex.
Excl == \A c \in Callers : pc[c] \in CritSection => mu = c

\* Nothing happened in the future, and the last line was written by the last reset.
Times ==
  \A k \in Kinds :
    /\ last[k] <= now /\ addedAt[k] <= now /\ lines[k][2] <= now
    /\ Resetting(k) \/ lines[k][2] <= last[k]

\* Who is about to log found the interval to be over.
LogDue == \A c \in Callers : At(c, "log") => Expired(Kind(c))

\* An old addition that is not logged is about to be looked at.
Looked(k) == \E c \in Callers : pc[c] \in {"check", "log", "reset"} /\ Kind(c) = k
Recent ==
  \A k \in Kinds : count[k] > 0 => addedAt[k] - last[k] < Interval[k] \/ Looked(k)

IInv == TypeOK /\ Excl /\ Conserved /\ Times /\ LogDue /\ Throttled /\ Recent

LEMMA KindInKinds == ASSUME NEW c PROVE Kind(c) \in Kinds
BY DEF Kind, Kinds

LEMMA KindStays == ASSUME got' = got, NEW c PROVE Kind(c)' = Kind(c)
BY DEF Kind, Due

LEMMA InitIInv == Init => IInv
<1> SUFFICES ASSUME Init PROVE IInv
  OBVIOUS
<1>1. Interval["failures"] \in Nat /\ Interval["noSubs"] \in Nat
  BY PublisherAssumption DEF Kinds
<1>2. TypeOK
  BY <1>1 DEF Init, TypeOK, PCs
<1>3. Conserved /\ Times
  BY <1>1 DEF Init, Conserved, Times, Resetting, At
<1> QED
  BY <1>2, <1>3 DEF Init, IInv, Excl, LogDue, At, Throttled, Recent, CritSection

\* The clock moves on: no window gets shorter.
LEMMA TickIInv == ASSUME IInv, Tick PROVE IInv'
<1> USE DEF IInv
<1>1. now' = now + 1 /\ UNCHANGED <<shared, pc, got, calls, history>> /\ now \in Nat
  BY DEF Tick, TypeOK
<1>2. \A c : Kind(c)' = Kind(c)
  BY <1>1, KindStays
<1>3. TypeOK'
  BY <1>1 DEF TypeOK, shared, history
<1>4. Excl' /\ Conserved' /\ Throttled' /\ Recent'
  BY <1>1, <1>2 DEF Excl, Conserved, Throttled, Recent, Looked, Resetting, At, shared, history
<1>5. Times'
  BY <1>1, <1>2 DEF Times, TypeOK, Resetting, At, shared, history
<1>6. LogDue'
  <2> SUFFICES ASSUME NEW c \in Callers, At(c, "log")' PROVE Expired(Kind(c))'
    BY DEF LogDue
  <2>1. Expired(Kind(c)) /\ Kind(c) \in Kinds
    BY <1>1, KindInKinds DEF LogDue, At
  <2> QED
    BY <1>1, <1>2, <2>1, PublisherAssumption DEF Expired, TypeOK, shared
<1> QED
  BY <1>3, <1>4, <1>5, <1>6

\* The steps of a caller outside the critical section, and into it.
LEMMA OutsideIInv ==
  ASSUME IInv, NEW c \in Callers, PublishBatch(c) \/ Exec(c) \/ Lock(c)
  PROVE  IInv'
<1> USE DEF IInv
<1>1. /\ pc[c] \in {"idle", "exec", "lock"}
      /\ pc'[c] \notin {"check", "log", "reset", "unlock"}
      /\ \A d \in Callers \ {c} : pc'[d] = pc[d] /\ got'[d] = got[d]
      /\ UNCHANGED <<now, count, last, history>>
  BY DEF PublishBatch, Exec, Lock, At, Goto, TypeOK, PCs, shared
<1>2. \A d \in Callers \ {c} : Kind(d)' = Kind(d)
  BY <1>1 DEF Kind, Due
<1>3. TypeOK'
  <2>1. CASE PublishBatch(c)
    BY <2>1 DEF PublishBatch, At, Goto, TypeOK, PCs, shared, history
  <2>2. CASE Exec(c)
    <3>1. got' \in [Callers -> [Kinds -> Nat]]
      BY <2>2 DEF Exec, TypeOK, Kinds
    <3>2. pc' \in [Callers -> PCs]
      BY <2>2 DEF Exec, Goto, TypeOK, PCs
    <3> QED
      BY <2>2, <3>1, <3>2 DEF Exec, TypeOK, shared, history
  <2>3. CASE Lock(c)
    BY <2>3 DEF Lock, Goto, TypeOK, PCs, history
  <2> QED
    BY <2>1, <2>2, <2>3
<1>4. Excl'
  <2> SUFFICES ASSUME NEW d \in Callers, pc'[d] \in CritSection PROVE mu' = d
    BY DEF Excl
  <2>1. CASE PublishBatch(c) \/ Exec(c)
    BY <1>1, <2>1 DEF PublishBatch, Exec, Goto, TypeOK, Excl, CritSection, shared
  <2>2. CASE Lock(c)
    BY <1>1, <2>2, PublisherAssumption DEF Lock, Free, Excl
  <2> QED
    BY <2>1, <2>2
<1>5. \A k \in Kinds : Resetting(k)' = Resetting(k) /\ Looked(k)' = Looked(k)
  BY <1>1, <1>2 DEF Resetting, Looked, At
<1>6. Conserved' /\ Times' /\ Throttled' /\ Recent'
  BY <1>1, <1>5 DEF Conserved, Times, Throttled, Recent, history
<1>7. LogDue'
  BY <1>1, <1>2 DEF LogDue, At, Expired
<1> QED
  BY <1>3, <1>4, <1>6, <1>7

\* In the critical section: nobody else is in it.
LEMMA Alone ==
  ASSUME IInv, NEW c \in Callers, pc[c] \in CritSection, NEW d \in Callers, d # c
  PROVE  pc[d] \notin CritSection
BY DEF IInv, Excl

\* A step from one place of the critical section to another, with the mutex held.
LEMMA InsideExcl ==
  ASSUME IInv, NEW c \in Callers, pc[c] \in CritSection, NEW l \in CritSection,
         Goto(c, l), mu' = mu
  PROVE  Excl'
BY DEF IInv, Excl, Goto, TypeOK

\* p.failures += count.
LEMMA AddIInv == ASSUME IInv, NEW c \in Callers, Add(c) PROVE IInv'
<1> USE DEF IInv
<1> DEFINE k == Kind(c)
<1>1. pc[c] = "add" /\ pc' = [pc EXCEPT ![c] = "check"] /\ pc \in [Callers -> PCs]
  BY DEF Add, At, Goto, TypeOK
<1>2. k \in Kinds /\ got[c][k] \in Nat
  BY KindInKinds DEF TypeOK
<1>3. \A d : Kind(d)' = Kind(d)
  BY KindStays DEF Add
<1>4. /\ UNCHANGED <<now, mu, last, got, calls, logged, lines>>
      /\ count' = [count EXCEPT ![k] = @ + got[c][k]]
      /\ added' = [added EXCEPT ![k] = @ + got[c][k]] /\ addedAt' = [addedAt EXCEPT ![k] = now]
  BY DEF Add
<1> HIDE DEF k
<1>5. TypeOK'
  BY <1>1, <1>2, <1>4 DEF TypeOK, PCs
<1>6. Excl'
  BY <1>1, <1>4, InsideExcl DEF CritSection, Goto
<1>7. \A d \in Callers : pc[d] # "reset" /\ pc[d] # "log" /\ pc'[d] # "reset" /\ pc'[d] # "log"
  BY <1>1, Alone DEF CritSection
<1>8. \A j \in Kinds : ~Resetting(j) /\ ~Resetting(j)'
  BY <1>7 DEF Resetting, At
<1>9. Conserved'
  BY <1>2, <1>4, <1>8 DEF Conserved, TypeOK
<1>10. Times'
  BY <1>2, <1>4, <1>8 DEF Times, TypeOK
<1>11. LogDue' /\ Throttled'
  BY <1>4, <1>7 DEF LogDue, At, Throttled
<1>12. Recent'
  <2> SUFFICES ASSUME NEW j \in Kinds, count'[j] > 0
               PROVE  addedAt'[j] - last'[j] < Interval[j] \/ Looked(j)'
    BY DEF Recent
  <2>1. CASE j = k
    BY <1>1, <1>3, <2>1 DEF Looked, k
  <2>2. CASE j # k
    <3>1. ~Looked(j)
      BY <1>1, Alone DEF Looked, CritSection
    <3> QED
      BY <1>4, <2>2, <3>1 DEF Recent, TypeOK
  <2> QED
    BY <2>1, <2>2
<1> QED
  BY <1>5, <1>6, <1>9, <1>10, <1>11, <1>12

\* The look at the clock.
LEMMA CheckIInv == ASSUME IInv, NEW c \in Callers, Check(c) PROVE IInv'
<1> USE DEF IInv
<1> DEFINE k == Kind(c)  l == IF Expired(k) THEN "log" ELSE "unlock"
<1>1. /\ pc[c] = "check" /\ pc' = [pc EXCEPT ![c] = l] /\ pc \in [Callers -> PCs]
      /\ UNCHANGED <<now, shared, got, calls, history>>
  BY DEF Check, At, Goto, TypeOK
<1>2. k \in Kinds
  BY KindInKinds
<1>3. \A d : Kind(d)' = Kind(d)
  BY <1>1, KindStays
<1>4. TypeOK'
  BY <1>1 DEF TypeOK, PCs, shared, history
<1>5. Excl'
  BY <1>1, InsideExcl DEF CritSection, Goto, shared
<1>6. \A d \in Callers : d # c => pc[d] \notin CritSection /\ pc'[d] = pc[d]
  BY <1>1, Alone DEF CritSection
<1>7. \A j \in Kinds : ~Resetting(j) /\ ~Resetting(j)'
  BY <1>1, <1>6 DEF Resetting, At, CritSection
<1>8. Conserved' /\ Times' /\ Throttled'
  BY <1>1, <1>7 DEF Conserved, Times, Throttled, shared, history
<1>9. LogDue'
  BY <1>1, <1>3, <1>6 DEF LogDue, At, Expired, CritSection, shared
<1>10. Recent'
  <2> SUFFICES ASSUME NEW j \in Kinds, count[j] > 0
               PROVE  addedAt[j] - last[j] < Interval[j] \/ Looked(j)'
    BY <1>1 DEF Recent, shared, history
  <2>1. CASE j = k /\ Expired(k)
    BY <1>1, <1>3, <2>1 DEF Looked
  <2>2. CASE j = k /\ ~Expired(k)
    BY <1>2, <2>2, PublisherAssumption DEF Expired, Times, TypeOK
  <2>3. CASE j # k
    <3>1. ~Looked(j)
      BY <1>1, <1>6, <2>3 DEF Looked, CritSection
    <3> QED
      BY <3>1 DEF Recent
  <2> QED
    BY <2>1, <2>2, <2>3
<1> QED
  BY <1>4, <1>5, <1>8, <1>9, <1>10

\* The log line: the counter is reported, and two lines are an interval apart.
LEMMA LogIInv == ASSUME IInv, NEW c \in Callers, Log(c) PROVE IInv'
<1> USE DEF IInv
<1>0. PICK k \in Kinds : k = Kind(c)
  BY KindInKinds
<1>1. pc[c] = "log" /\ pc' = [pc EXCEPT ![c] = "reset"] /\ pc \in [Callers -> PCs]
  BY DEF Log, At, Goto, TypeOK
<1>2. k \in Kinds /\ now - last[k] >= Interval[k]
  BY <1>0, <1>1 DEF LogDue, At, Expired
<1>3. \A d : Kind(d)' = Kind(d)
  BY KindStays DEF Log
<1>4. /\ UNCHANGED <<now, shared, got, calls, added, addedAt>>
      /\ logged' = [logged EXCEPT ![k] = @ + count[k]]
      /\ lines' = [lines EXCEPT ![k] = <<@[2], now>>]
  BY <1>0 DEF Log
<1>5. \A d \in Callers : d # c => pc[d] \notin CritSection /\ pc'[d] = pc[d]
  BY <1>1, Alone DEF CritSection
<1>6. Resetting(k)' /\ ~Resetting(k) /\ \A j \in Kinds \ {k} : ~Resetting(j) /\ ~Resetting(j)'
  BY <1>0, <1>1, <1>3, <1>5 DEF Resetting, At, CritSection
<1>7. \A j \in Kinds : Looked(j)' = Looked(j)
  BY <1>1, <1>3, <1>5 DEF Looked, CritSection
<1>8. TypeOK'
  <2>1. lines' \in [Kinds -> Nat \X Nat]
    BY <1>2, <1>4 DEF TypeOK
  <2>2. logged' \in [Kinds -> Nat]
    BY <1>2, <1>4 DEF TypeOK
  <2> QED
    BY <1>1, <1>4, <2>1, <2>2 DEF TypeOK, PCs, shared
<1>9. Excl'
  BY <1>1, <1>4, InsideExcl DEF CritSection, Goto, shared
<1>10. Conserved'
  <2>1. added'[k] = logged'[k]
    BY <1>2, <1>4, <1>6 DEF Conserved, TypeOK
  <2>2. \A j \in Kinds \ {k} : added'[j] = logged'[j] + count'[j]
    BY <1>4, <1>6 DEF Conserved, TypeOK, shared
  <2>3. logged'[k] \in Nat
    BY <1>2, <1>8 DEF TypeOK
  <2> QED
    BY <1>6, <2>1, <2>2, <2>3 DEF Conserved
<1>11. Times'
  <2>1. lines'[k][2] = now /\ \A j \in Kinds \ {k} : lines'[j] = lines[j]
    BY <1>2, <1>4 DEF TypeOK
  <2>2. UNCHANGED <<now, last, addedAt>> /\ now \in Nat
    BY <1>4 DEF shared, TypeOK
  <2> QED
    BY <1>6, <2>1, <2>2 DEF Times
<1>12. LogDue'
  BY <1>1, <1>5 DEF LogDue, At, CritSection
<1>13. Throttled'
  <2> SUFFICES ASSUME NEW j \in Kinds
               PROVE  lines'[j][1] = 0 \/ lines'[j][2] - lines'[j][1] >= Interval[j]
    BY DEF Throttled
  <2>1. CASE j = k
    <3>1. lines'[j][1] = lines[k][2] /\ lines'[j][2] = now
      BY <1>2, <1>4, <2>1 DEF TypeOK
    <3>2. lines[k][2] <= last[k] /\ lines[k][2] \in Nat /\ last[k] \in Nat /\ now \in Nat
      BY <1>2, <1>6 DEF Times, TypeOK
    <3> QED
      BY <1>2, <2>1, <3>1, <3>2, PublisherAssumption
  <2>2. CASE j # k
    BY <1>4, <2>2 DEF Throttled, TypeOK
  <2> QED
    BY <2>1, <2>2
<1>14. Recent'
  BY <1>4, <1>7 DEF Recent, shared
<1> QED
  BY <1>8, <1>9, <1>10, <1>11, <1>12, <1>13, <1>14

\* lastErrLog = now, failures = 0: what was reported is taken out of the counter.
LEMMA ResetIInv == ASSUME IInv, NEW c \in Callers, Reset(c) PROVE IInv'
<1> USE DEF IInv
<1> DEFINE k == Kind(c)
<1>1. pc[c] = "reset" /\ pc' = [pc EXCEPT ![c] = "unlock"] /\ pc \in [Callers -> PCs]
  BY DEF Reset, At, Goto, TypeOK
<1>2. k \in Kinds
  BY KindInKinds
<1>3. \A d : Kind(d)' = Kind(d)
  BY KindStays DEF Reset
<1>4. /\ UNCHANGED <<now, mu, got, calls, history>>
      /\ last' = [last EXCEPT ![k] = now] /\ count' = [count EXCEPT ![k] = 0]
  BY DEF Reset
<1>5. \A d \in Callers : d # c => pc[d] \notin CritSection /\ pc'[d] = pc[d]
  BY <1>1, Alone DEF CritSection
<1>6. Resetting(k) /\ ~Resetting(k)' /\ \A j \in Kinds \ {k} : ~Resetting(j) /\ ~Resetting(j)'
  BY <1>1, <1>3, <1>5 DEF Resetting, At, CritSection
<1>7. \A j \in Kinds \ {k} : ~Looked(j)
  BY <1>1, <1>5 DEF Looked, CritSection
<1> HIDE DEF k
<1>8. TypeOK'
  BY <1>1, <1>2, <1>4 DEF TypeOK, PCs, history
<1>9. Excl'
  BY <1>1, <1>4, InsideExcl DEF CritSection, Goto
<1>10. Conserved'
  BY <1>2, <1>4, <1>6 DEF Conserved, TypeOK, history
<1>11. Times'
  BY <1>2, <1>4, <1>6 DEF Times, TypeOK, history
<1>12. LogDue' /\ Throttled'
  BY <1>1, <1>4, <1>5 DEF LogDue, At, CritSection, Throttled, history
<1>13. Recent'
  BY <1>2, <1>4, <1>7 DEF Recent, TypeOK, history
<1> QED
  BY <1>8, <1>9, <1>10, <1>11, <1>12, <1>13

\* The deferred unlock.
LEMMA UnlockIInv == ASSUME IInv, NEW c \in Callers, Unlock(c) PROVE IInv'
<1> USE DEF IInv
<1>1. /\ pc[c] = "unlock" /\ pc'[c] \in {"idle", "lock"} /\ pc' \in [Callers -> PCs]
      /\ \A d \in Callers \ {c} : pc'[d] = pc[d] /\ got'[d] = got[d]
      /\ UNCHANGED <<now, count, last, calls, history>> /\ mu' = NoCaller
  BY DEF Unlock, Released, At, Goto, TypeOK, PCs
<1>2. \A d \in Callers : d # c => pc[d] \notin CritSection
  BY <1>1, Alone DEF CritSection
<1>3. \A d \in Callers : pc'[d] \notin CritSection
  BY <1>1, <1>2 DEF CritSection
<1>4. \A j \in Kinds : ~Resetting(j) /\ ~Resetting(j)' /\ ~Looked(j)
  BY <1>1, <1>2, <1>3 DEF Resetting, Looked, At, CritSection
<1>5. TypeOK'
  <2>1. got' \in [Callers -> [Kinds -> Nat]]
    BY KindInKinds DEF Unlock, TypeOK
  <2> QED
    BY <1>1, <2>1 DEF TypeOK, history
<1>6. Conserved' /\ Times' /\ Throttled'
  BY <1>1, <1>4 DEF Conserved, Times, Throttled, history
<1>7. Excl' /\ LogDue'
  BY <1>3 DEF Excl, LogDue, At, CritSection
<1>8. Recent'
  BY <1>1, <1>4 DEF Recent, history
<1> QED
  BY <1>5, <1>6, <1>7, <1>8

LEMMA NextIInv == IInv /\ [Next]_vars => IInv'
<1> SUFFICES ASSUME IInv, [Next]_vars PROVE IInv'
  OBVIOUS
<1>1. CASE Tick
  BY <1>1, TickIInv
<1>2. ASSUME NEW c \in Callers, Call(c) PROVE IInv'
  BY <1>2, OutsideIInv, AddIInv, CheckIInv, LogIInv, ResetIInv, UnlockIInv DEF Call, Step
<1>3. CASE UNCHANGED vars
  <2>1. got' = got
    BY <1>3 DEF vars
  <2>2. \A c : Kind(c)' = Kind(c)
    BY <2>1, KindStays
  <2>3. \A k : Resetting(k)' = Resetting(k) /\ Looked(k)' = Looked(k)
    BY <1>3, <2>2 DEF Resetting, Looked, At, vars
  <2>4. TypeOK' /\ Excl' /\ Throttled'
    BY <1>3 DEF IInv, TypeOK, Excl, Throttled, vars, shared, history
  <2>5. Conserved' /\ Times' /\ Recent'
    BY <1>3, <2>3 DEF IInv, Conserved, Times, Recent, vars, shared, history
  <2>6. LogDue'
    BY <1>3, <2>2 DEF IInv, LogDue, At, Expired, vars, shared
  <2> QED
    BY <2>4, <2>5, <2>6 DEF IInv
<1> QED
  BY <1>1, <1>2, <1>3 DEF Next, Quiet

LEMMA SpecIInv == Spec => []IInv
BY InitIInv, NextIInv, PTL DEF Spec

\* Whatever the callers and however they interleave, each failure that PublishBatch
\* counted is in exactly one log line or still in the counter.
THEOREM FailuresConserved == Spec => [](TypeOK /\ Conserved)
<1>1. IInv => TypeOK /\ Conserved
  BY DEF IInv
<1> QED
  BY <1>1, SpecIInv, PTL

\* Two lines about the same kind of trouble are at least errLogInterval
\* (noSubLogInterval) apart, so that a dead Redis cannot flood the log.
THEOREM LogIsThrottled == Spec => []Throttled
<1>1. IInv => Throttled
  BY DEF IInv
<1> QED
  BY <1>1, SpecIInv, PTL

\* What stays unreported was added within the interval after the last line.
THEOREM OnlyRecentUnlogged == Spec => []UnloggedIsRecent
<1>1. IInv => UnloggedIsRecent
  <2> SUFFICES ASSUME IInv, NEW k \in Kinds, Free, count[k] > 0
               PROVE  addedAt[k] - last[k] < Interval[k]
    BY DEF UnloggedIsRecent
  <2>1. ~Looked(k)
    BY PublisherAssumption DEF IInv, Excl, Looked, Free, CritSection
  <2> QED
    BY <2>1 DEF IInv, Recent
<1> QED
  BY <1>1, SpecIInv, PTL
=============================================================================
