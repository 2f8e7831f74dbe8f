------------------------------ MODULE Publisher ------------------------------
(***************************************************************************)
(* redis/publisher.go: one Publisher shared by every component.            *)
(*                                                                         *)
(* PublishBatch makes one round trip to Redis and then accounts for what   *)
(* was refused and for what nobody received, in two counters that a mutex  *)
(* protects and that are logged, and reset, at most once per interval.     *)
(* logFailure and logNoSubscribers are the same code on different fields:  *)
(* here they are one set of actions over the kind of the counter.  A step  *)
(* is one access to the shared fields, so callers interleave within the    *)
(* critical section if the mutex lets them.                                *)
(***************************************************************************)
EXTENDS Naturals

CONSTANTS
  Callers,      \* the goroutines that publish
  NoCaller,     \* the mutex is free
  Interval,     \* errLogInterval and noSubLogInterval, by kind of counter
  MaxBatch,     \* bound: payloads of one batch
  MaxTime,      \* bound: how far the clock runs
  MaxCalls      \* bound: batches published

Kinds == {"failures", "noSubs"}

ASSUME PublisherAssumption ==
  /\ NoCaller \notin Callers
  /\ Interval \in [Kinds -> Nat \ {0}]
  /\ MaxBatch \in Nat /\ MaxTime \in Nat /\ MaxCalls \in Nat

VARIABLES
  now,          \* the clock; it starts long after the zero time of lastErrLog
  mu,           \* the caller that holds p.mu
  count,        \* p.failures and p.noSubs
  last,         \* p.lastErrLog and p.lastSubLog
  pc,           \* where each caller is
  got,          \* per caller: how many payloads its batch adds to each counter
  calls,
  \* History, per kind: what was added to the counter, what the log lines have
  \* reported, the time of the latest addition, the times of the last two log lines.
  added, logged, addedAt, lines

shared == <<mu, count, last>>
history == <<added, logged, addedAt, lines>>
vars == <<now, shared, pc, got, calls, history>>

PCs == {"idle", "exec", "lock", "add", "check", "log", "reset", "unlock"}

\* The kind a caller accounts for next: failures before noSubs, none when both are 0.
Due(c) == {k \in Kinds : got[c][k] > 0}
Kind(c) == IF "failures" \in Due(c) THEN "failures" ELSE "noSubs"

At(c, l) == pc[c] = l
Goto(c, l) == pc' = [pc EXCEPT ![c] = l]

Tick ==
  /\ now < MaxTime + Interval["failures"] + Interval["noSubs"]
  /\ now' = now + 1
  /\ UNCHANGED <<shared, pc, got, calls, history>>

\* PublishBatch queues its payloads on a pipeline and sends it.
PublishBatch(c) ==
  /\ At(c, "idle") /\ calls < MaxCalls
  /\ calls' = calls + 1
  /\ Goto(c, "exec")
  /\ UNCHANGED <<now, shared, got, history>>

\* The round trip ends: some payloads failed, some of the others had no subscriber.
Exec(c) ==
  /\ At(c, "exec")
  /\ \E f, n \in 0..MaxBatch :
       /\ f + n <= MaxBatch
       /\ got' = [got EXCEPT ![c] = [failures |-> f, noSubs |-> n]]
       /\ Goto(c, IF f + n > 0 THEN "lock" ELSE "idle")
  /\ UNCHANGED <<now, shared, calls, history>>

\* Mutant of Free: the methods do not lock.
NoMutex == TRUE

Free == mu = NoCaller

\* p.mu.Lock()
Lock(c) ==
  /\ At(c, "lock") /\ Free
  /\ mu' = c
  /\ Goto(c, "add")
  /\ UNCHANGED <<now, count, last, got, calls, history>>

\* p.failures += count
Add(c) ==
  LET k == Kind(c) IN
  /\ At(c, "add")
  /\ count' = [count EXCEPT ![k] = @ + got[c][k]]
  /\ added' = [added EXCEPT ![k] = @ + got[c][k]]
  /\ addedAt' = [addedAt EXCEPT ![k] = now]
  /\ Goto(c, "check")
  /\ UNCHANGED <<now, mu, last, got, calls, logged, lines>>

\* Mutant of Expired: an interval too long by one.
ExpiredLate(k) == now - last[k] > Interval[k]

\* time.Since(p.lastErrLog) >= errLogInterval
Expired(k) == now - last[k] >= Interval[k]

Check(c) ==
  /\ At(c, "check")
  /\ Goto(c, IF Expired(Kind(c)) THEN "log" ELSE "unlock")
  /\ UNCHANGED <<now, shared, got, calls, history>>

\* slog.Error with the counter: the line may take any time to be written.
Log(c) ==
  LET k == Kind(c) IN
  /\ At(c, "log")
  /\ logged' = [logged EXCEPT ![k] = @ + count[k]]
  /\ lines' = [lines EXCEPT ![k] = <<@[2], now>>]
  /\ Goto(c, "reset")
  /\ UNCHANGED <<now, shared, got, calls, added, addedAt>>

\* p.lastErrLog = time.Now(); p.failures = 0
Reset(c) ==
  LET k == Kind(c) IN
  /\ At(c, "reset")
  /\ last' = [last EXCEPT ![k] = now]
  /\ count' = [count EXCEPT ![k] = 0]
  /\ Goto(c, "unlock")
  /\ UNCHANGED <<now, mu, got, calls, history>>

\* Mutant of Released: a path that returns without unlocking.
NotReleased == mu

Released == NoCaller

\* The deferred p.mu.Unlock(), then the other counter or the end of PublishBatch.
Unlock(c) ==
  /\ At(c, "unlock")
  /\ mu' = Released
  /\ got' = [got EXCEPT ![c][Kind(c)] = 0]
  /\ Goto(c, IF Due(c) = {Kind(c)} THEN "idle" ELSE "lock")
  /\ UNCHANGED <<now, count, last, calls, history>>

-----------------------------------------------------------------------------
\* The clock starts past every interval: the zero time is always long ago.
Init ==
  /\ now = Interval["failures"] + Interval["noSubs"]
  /\ mu = NoCaller
  /\ count = [k \in Kinds |-> 0] /\ last = [k \in Kinds |-> 0]
  /\ pc = [c \in Callers |-> "idle"]
  /\ got = [c \in Callers |-> [k \in Kinds |-> 0]]
  /\ calls = 0
  /\ added = [k \in Kinds |-> 0] /\ logged = [k \in Kinds |-> 0]
  /\ addedAt = [k \in Kinds |-> 0] /\ lines = [k \in Kinds |-> <<0, 0>>]

Step(c) ==
  \/ Exec(c) \/ Lock(c) \/ Add(c) \/ Check(c) \/ Log(c) \/ Reset(c) \/ Unlock(c)

Call(c) == PublishBatch(c) \/ Step(c)

Quiet == (\A c \in Callers : At(c, "idle")) /\ UNCHANGED vars

Next == Tick \/ (\E c \in Callers : Call(c)) \/ Quiet

Spec == Init /\ [][Next]_vars

\* A round trip ends by its timeouts, a goroutine keeps being scheduled, and
\* sync.Mutex hands itself over to a goroutine that has waited long.
FairSpec ==
  Spec /\ \A c \in Callers : WF_vars(Step(c)) /\ SF_vars(Lock(c))

-----------------------------------------------------------------------------
TypeOK ==
  /\ now \in Nat /\ mu \in Callers \cup {NoCaller}
  /\ count \in [Kinds -> Nat] /\ last \in [Kinds -> Nat]
  /\ pc \in [Callers -> PCs] /\ got \in [Callers -> [Kinds -> Nat]] /\ calls \in Nat
  /\ added \in [Kinds -> Nat] /\ logged \in [Kinds -> Nat]
  /\ addedAt \in [Kinds -> Nat] /\ lines \in [Kinds -> Nat \X Nat]

Resetting(k) == \E c \in Callers : At(c, "reset") /\ Kind(c) = k

\* Every failure that was counted is in exactly one log line or still in the counter,
\* however the callers interleave: failures_since_last_log neither misses nor repeats.
Conserved ==
  \A k \in Kinds :
    added[k] = logged[k] + (IF Resetting(k) THEN 0 ELSE count[k])

\* Two log lines of a kind are at least its interval apart.
Throttled ==
  \A k \in Kinds : lines[k][1] = 0 \/ lines[k][2] - lines[k][1] >= Interval[k]

\* What is counted and not logged was added within the interval after the last line.
\* When the failures stop there, nobody logs it until the next failure.
UnloggedIsRecent ==
  \A k \in Kinds :
    Free /\ count[k] > 0 => addedAt[k] - last[k] < Interval[k]

\* PublishBatch returns: nobody waits for the mutex for ever.
Returns == \A c \in Callers : At(c, "exec") ~> At(c, "idle")
=============================================================================
