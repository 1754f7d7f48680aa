----------------------------- MODULE ClocksProofs -----------------------------
(***************************************************************************)
(* The three components that live by a clock, proved for all their         *)
(* constants: a healthy worker keeps its lease, connection attempts keep   *)
(* to their rate, and ids are strictly monotonic.                          *)
(***************************************************************************)
EXTENDS MCClocks, FiniteSetTheorems, TLAPS

------------------------------------------------------------------------------
\* The lease of a run.

\* From its last renewal on, the time up to which a healthy worker is covered.
Covered(p) == wake[p] + Delay + Wait

\* Why the lease is kept: it outlives the next timer, its delay and the wait of
\* the renewal that follows.
Margin ==
  \A p \in Healthy :
    /\ call[p] = "start" => now <= stamp[p] + Wait
    /\ call[p] = "resume" => now <= stamp[p] + Wait
    /\ call[p] = "hold" => now <= wake[p] + Delay
    /\ call[p] = "renew" => /\ now <= stamp[p] + Wait
                          /\ stamp[p] <= wake[p] + Delay
    /\ call[p] \in {"hold", "renew"} =>
         /\ row.status = "RUNNING" /\ row.owner = p
         /\ row.expires > Covered(p)

LeaseInv == LeaseTypeOK /\ GatesAgree /\ Margin

LEMMA LeaseInvInit == LeaseInit => LeaseInv
  BY LeaseAssumption DEF LeaseInit, LeaseInv, LeaseTypeOK, GatesAgree, Margin

\* A row that Margin covers is not stale for any time that has been read.
LEMMA NotStale ==
  ASSUME LeaseInv, NEW p \in Healthy, call[p] \in {"hold", "renew"},
         NEW t \in Nat, t <= now
  PROVE  ~Stale(t)
<1>1. p \in Worker
  BY LeaseAssumption
<1>2. row.expires > Covered(p) /\ row.expires \in Nat
  BY DEF LeaseInv, LeaseTypeOK, Margin
<1>3. now <= Covered(p)
  <2>1. now \in Nat /\ stamp[p] \in Nat /\ wake[p] \in Nat
    BY <1>1 DEF LeaseInv, LeaseTypeOK
  <2>2. CASE call[p] = "hold"
    BY <2>1, <2>2, LeaseAssumption DEF LeaseInv, Margin, Covered
  <2>3. CASE call[p] = "renew"
    BY <2>1, <2>3, LeaseAssumption DEF LeaseInv, Margin, Covered
  <2> QED BY <2>2, <2>3
<1>4. now \in Nat /\ Covered(p) \in Nat
  BY <1>1, LeaseAssumption DEF LeaseInv, LeaseTypeOK, Covered
<1> QED
  BY <1>2, <1>3, <1>4 DEF Stale

\* The invariant implies the property.
LEMMA MarginKeepsLease == LeaseInv => HealthyKeepsLease
<1> SUFFICES ASSUME LeaseInv, NEW p \in Healthy, call[p] \in {"hold", "renew"}
             PROVE  Fenced(p)
  BY DEF HealthyKeepsLease
<1>1. ~Stale(now)
  BY NotStale DEF LeaseInv, LeaseTypeOK
<1>2. p \in Worker
  BY LeaseAssumption
<1>3. now \in Nat /\ stamp[p] \in Nat /\ wake[p] \in Nat /\ row.expires \in Nat
  BY <1>2 DEF LeaseInv, LeaseTypeOK
<1>4. row.status = "RUNNING" /\ row.owner = p /\ row.expires > Covered(p)
  BY DEF LeaseInv, Margin
<1>5. CASE call[p] = "hold"
  BY <1>3, <1>4, <1>5, LeaseAssumption DEF LeaseInv, Margin, Covered, Fenced
<1>6. CASE call[p] = "renew"
  BY <1>3, <1>4, <1>6, LeaseAssumption DEF LeaseInv, Margin, Covered, Fenced
<1> QED
  BY <1>5, <1>6

------------------------------------------------------------------------------
\* A call begins.
LEMMA CallStep ==
  ASSUME LeaseInv, NEW q \in Worker, NEW name \in {"start", "renew", "resume"},
         Call(q, name),
         name = "renew" => call[q] = "hold",
         name # "renew" => call[q] = "off"
  PROVE  LeaseInv'
<1>1. LeaseTypeOK'
  BY DEF LeaseInv, LeaseTypeOK, Call
<1>2. GatesAgree'
  BY DEF LeaseInv, GatesAgree, Call
<1>3. Margin'
  <2> SUFFICES ASSUME NEW p \in Healthy
               PROVE  /\ call'[p] \in {"start", "renew", "resume"}
                           => now' <= stamp'[p] + Wait
                      /\ call'[p] = "hold" => now' <= wake'[p] + Delay
                      /\ call'[p] = "renew" => stamp'[p] <= wake'[p] + Delay
                      /\ call'[p] \in {"hold", "renew"} =>
                           /\ row'.status = "RUNNING" /\ row'.owner = p
                           /\ row'.expires > wake'[p] + Delay + Wait
    BY DEF Margin, Covered
  <2>1. p \in Worker
    BY LeaseAssumption
  <2>2. CASE p = q
    BY <2>1, <2>2, LeaseAssumption DEF LeaseInv, LeaseTypeOK, Margin, Covered, Call
  <2>3. CASE p # q
    BY <2>1, <2>3, LeaseAssumption DEF LeaseInv, LeaseTypeOK, Margin, Covered, Call
  <2> QED BY <2>2, <2>3
<1> QED
  BY <1>1, <1>2, <1>3 DEF LeaseInv

\* A worker leaves the run: nobody else is disturbed.
LEMMA GiveUpStep ==
  ASSUME LeaseInv, NEW q \in Worker, GiveUp(q), UNCHANGED <<now, stamp>>
  PROVE  LeaseInv'
<1>1. LeaseTypeOK' /\ GatesAgree'
  BY DEF LeaseInv, LeaseTypeOK, GatesAgree, GiveUp
<1>2. \A p \in Healthy : p \in Worker
  BY LeaseAssumption
<1>3. Margin'
  BY <1>2 DEF LeaseInv, LeaseTypeOK, Margin, Covered, GiveUp
<1> QED
  BY <1>1, <1>3 DEF LeaseInv

\* A worker gets a row with the time it has read, nobody healthy holding it:
\* start and takeover.
LEMMA LeasedStep ==
  ASSUME LeaseInv, NEW q \in Worker, call[q] \in {"start", "resume"},
         row' = Leased(q), Hold(q), UNCHANGED <<now, stamp>>,
         \A p \in Healthy : call[p] \notin {"hold", "renew"}
  PROVE  LeaseInv'
<1>1. LeaseTypeOK'
  BY LeaseAssumption DEF LeaseInv, LeaseTypeOK, Leased, Hold
<1>2. GatesAgree'
  BY DEF GatesAgree, Leased
<1>3. Margin'
  <2> SUFFICES ASSUME NEW p \in Healthy
               PROVE  /\ call'[p] \in {"start", "renew", "resume"}
                           => now' <= stamp'[p] + Wait
                      /\ call'[p] = "hold" => now' <= wake'[p] + Delay
                      /\ call'[p] = "renew" => stamp'[p] <= wake'[p] + Delay
                      /\ call'[p] \in {"hold", "renew"} =>
                           /\ row'.status = "RUNNING" /\ row'.owner = p
                           /\ row'.expires > wake'[p] + Delay + Wait
    BY DEF Margin, Covered
  <2>1. p \in Worker
    BY LeaseAssumption
  <2>2. CASE p = q
    <3>1. call'[p] = "hold" /\ wake'[p] = now + HeartbeatInterval
      BY <2>1, <2>2 DEF LeaseInv, LeaseTypeOK, Hold
    <3>2. now <= stamp[p] + Wait
      BY <2>2 DEF LeaseInv, Margin
    <3>3. row' = [status |-> "RUNNING", heartbeat |-> stamp[p], owner |-> p,
                  expires |-> stamp[p] + LeaseTime]
      BY <2>2 DEF Leased
    <3> QED
      BY <2>1, <3>1, <3>2, <3>3, LeaseAssumption DEF LeaseInv, LeaseTypeOK
  <2>3. CASE p # q
    BY <2>1, <2>3 DEF LeaseInv, LeaseTypeOK, Margin, Hold
  <2> QED BY <2>2, <2>3
<1> QED
  BY <1>1, <1>2, <1>3 DEF LeaseInv

\* The owner renews: everybody else is no holder.
LEMMA RenewedStep ==
  ASSUME LeaseInv, NEW q \in Worker, call[q] = "renew", row.owner = q,
         row' = Renewed(q), Hold(q), UNCHANGED <<now, stamp>>
  PROVE  LeaseInv'
<1>1. LeaseTypeOK'
  <2>1. row' \in [status : {"QUEUED", "RUNNING", "ENDED"}, heartbeat : Nat,
                  owner : Worker \cup {NoOwner}, expires : Nat]
    <3>1. stamp[q] \in Nat /\ stamp[q] + LeaseTime \in Nat
      BY LeaseAssumption DEF LeaseInv, LeaseTypeOK
    <3> QED
      BY <3>1 DEF LeaseInv, LeaseTypeOK, Renewed
  <2>2. row'.heartbeat = stamp[q]
    BY DEF LeaseInv, LeaseTypeOK, Renewed
  <2>3. call' \in [Worker -> {"off", "start", "hold", "renew", "resume"}]
        /\ wake' \in [Worker -> Nat]
    BY LeaseAssumption DEF LeaseInv, LeaseTypeOK, Hold
  <2> QED
    BY <2>1, <2>2, <2>3 DEF LeaseInv, LeaseTypeOK
<1>2. GatesAgree'
  BY DEF LeaseInv, LeaseTypeOK, GatesAgree, Renewed
<1>3. Margin'
  <2> SUFFICES ASSUME NEW p \in Healthy
               PROVE  /\ call'[p] \in {"start", "renew", "resume"}
                           => now' <= stamp'[p] + Wait
                      /\ call'[p] = "hold" => now' <= wake'[p] + Delay
                      /\ call'[p] = "renew" => stamp'[p] <= wake'[p] + Delay
                      /\ call'[p] \in {"hold", "renew"} =>
                           /\ row'.status = "RUNNING" /\ row'.owner = p
                           /\ row'.expires > wake'[p] + Delay + Wait
    BY DEF Margin, Covered
  <2>1. p \in Worker
    BY LeaseAssumption
  <2>2. CASE p = q
    <3>1. call'[p] = "hold" /\ wake'[p] = now + HeartbeatInterval
      BY <2>1, <2>2 DEF LeaseInv, LeaseTypeOK, Hold
    <3>2. now <= stamp[p] + Wait /\ row.status = "RUNNING"
      BY <2>2 DEF LeaseInv, Margin
    <3>3. row'.expires = stamp[p] + LeaseTime /\ row'.owner = row.owner
            /\ row'.status = row.status
      BY <2>2 DEF LeaseInv, LeaseTypeOK, Renewed
    <3> QED
      BY <2>1, <2>2, <3>1, <3>2, <3>3, LeaseAssumption DEF LeaseInv, LeaseTypeOK
  <2>3. CASE p # q
    BY <2>1, <2>3 DEF LeaseInv, LeaseTypeOK, Margin, Hold
  <2> QED BY <2>2, <2>3
<1> QED
  BY <1>1, <1>2, <1>3 DEF LeaseInv

\* A fenced write is accepted and ends the run.
LEMMA EndStep ==
  ASSUME LeaseInv, NEW q \in Worker, FencedWrite(q)
  PROVE  LeaseInv'
<1>1. LeaseTypeOK' /\ GatesAgree'
  BY DEF LeaseInv, LeaseTypeOK, GatesAgree, FencedWrite
<1>2. Margin'
  <2> SUFFICES ASSUME NEW p \in Healthy
               PROVE  /\ call'[p] \in {"start", "renew", "resume"}
                           => now' <= stamp'[p] + Wait
                      /\ call'[p] = "hold" => now' <= wake'[p] + Delay
                      /\ call'[p] = "renew" => stamp'[p] <= wake'[p] + Delay
                      /\ call'[p] \in {"hold", "renew"} =>
                           /\ row'.status = "RUNNING" /\ row'.owner = p
                           /\ row'.expires > wake'[p] + Delay + Wait
    BY DEF Margin, Covered
  <2>1. p \in Worker
    BY LeaseAssumption
  <2>2. CASE p = q
    BY <2>1, <2>2 DEF LeaseInv, LeaseTypeOK, FencedWrite
  <2>3. CASE p # q /\ Fenced(q)
    BY <2>1, <2>3 DEF LeaseInv, LeaseTypeOK, Margin, Covered, FencedWrite, Fenced
  <2>4. CASE p # q /\ ~Fenced(q)
    BY <2>1, <2>4 DEF LeaseInv, LeaseTypeOK, Margin, Covered, FencedWrite
  <2> QED BY <2>2, <2>3, <2>4
<1> QED
  BY <1>1, <1>2 DEF LeaseInv

\* Time passes: OnTime is what keeps it within the margin.
LEMMA LeaseTickStep ==
  ASSUME LeaseInv, LeaseTick
  PROVE  LeaseInv'
<1>1. LeaseTypeOK' /\ GatesAgree'
  BY DEF LeaseInv, LeaseTypeOK, GatesAgree, LeaseTick
<1>2. \A p \in Healthy : p \in Worker
  BY LeaseAssumption
<1>3. Margin'
  BY <1>2, LeaseAssumption DEF LeaseInv, LeaseTypeOK, Margin, Covered, LeaseTick, OnTime
<1> QED
  BY <1>1, <1>3 DEF LeaseInv

------------------------------------------------------------------------------
LEMMA LeaseInvStep == LeaseInv /\ [LeaseNext]_leaseVars => LeaseInv'
<1> SUFFICES ASSUME LeaseInv, [LeaseNext]_leaseVars
             PROVE  LeaseInv'
  OBVIOUS
<1>1. ASSUME NEW p \in Worker, BeginStart(p) PROVE LeaseInv'
  BY <1>1, CallStep DEF BeginStart
<1>2. ASSUME NEW p \in Worker, BeginRenew(p) PROVE LeaseInv'
  BY <1>2, CallStep DEF BeginRenew
<1>3. ASSUME NEW p \in Worker, BeginResume(p) PROVE LeaseInv'
  BY <1>3, CallStep DEF BeginResume
<1>4. ASSUME NEW p \in Worker, StartRun(p) PROVE LeaseInv'
  <2>1. CASE row.status = "QUEUED" /\ row' = Leased(p) /\ Hold(p)
    <3>1. \A q \in Healthy : call[q] \notin {"hold", "renew"}
      BY <2>1 DEF LeaseInv, Margin
    <3> QED
      BY <1>4, <2>1, <3>1, LeasedStep DEF StartRun
  <2>2. CASE GiveUp(p)
    BY <1>4, <2>2, GiveUpStep DEF StartRun
  <2> QED
    BY <1>4, <2>1, <2>2 DEF StartRun
<1>5. ASSUME NEW p \in Worker, RenewLease(p) PROVE LeaseInv'
  BY <1>5, RenewedStep, GiveUpStep DEF RenewLease
<1>6. ASSUME NEW p \in Worker, ResumeRun(p) PROVE LeaseInv'
  <2>1. CASE Stale(stamp[p]) /\ row' = Leased(p) /\ Hold(p)
    <3>1. stamp[p] \in Nat /\ stamp[p] <= now
      BY DEF LeaseInv, LeaseTypeOK
    <3>2. \A q \in Healthy : call[q] \notin {"hold", "renew"}
      BY <2>1, <3>1, NotStale
    <3> QED
      BY <1>6, <2>1, <3>2, LeasedStep DEF ResumeRun
  <2>2. CASE GiveUp(p)
    BY <1>6, <2>2, GiveUpStep DEF ResumeRun
  <2> QED
    BY <1>6, <2>1, <2>2 DEF ResumeRun
<1>7. ASSUME NEW p \in Worker, FencedWrite(p) PROVE LeaseInv'
  BY <1>7, EndStep
<1>8. CASE LeaseTick
  BY <1>8, LeaseTickStep
<1>9. CASE UNCHANGED leaseVars
  BY <1>9 DEF LeaseInv, LeaseTypeOK, GatesAgree, Margin, Covered, leaseVars
<1> QED
  BY <1>1, <1>2, <1>3, <1>4, <1>5, <1>6, <1>7, <1>8, <1>9 DEF LeaseNext

\* The rows, the clock and the calls have their types.
THEOREM LeaseTypes == LeaseSpec => []LeaseTypeOK
<1>1. LeaseInv => LeaseTypeOK
  BY DEF LeaseInv
<1> QED
  BY <1>1, LeaseInvInit, LeaseInvStep, PTL DEF LeaseSpec

\* A run is never taken from a healthy worker, and its writes are not refused.
THEOREM HealthyWorkersKeepTheirLease == LeaseSpec => []HealthyKeepsLease
  BY LeaseInvInit, LeaseInvStep, MarginKeepsLease, PTL DEF LeaseSpec

\* The two halves of the stale gate never disagree.
THEOREM HeartbeatAndExpiryAgree == LeaseSpec => []GatesAgree
<1>1. LeaseInv => GatesAgree
  BY DEF LeaseInv
<1> QED
  BY <1>1, LeaseInvInit, LeaseInvStep, PTL DEF LeaseSpec

------------------------------------------------------------------------------
\* The generator of ids.

Counters == [ms |-> lastMs, counter |-> counter]

\* One thread at most is inside the lock.
Mutex == \A t, u \in Thread : phase[t] # "out" /\ phase[u] # "out" => t = u

\* The state repeats the newest id, or is that of an id about to be issued.
InStep ==
  /\ \A t \in Thread : phase[t] = "issue" =>
       ts[t] = lastMs /\ Before(newest, Counters)
  /\ (\A t \in Thread : phase[t] # "issue") => newest = Counters

UuidInv == UuidTypeOK /\ Mutex /\ InStep

LEMMA UuidInvInit == UuidInit => UuidInv
  BY UuidAssumption DEF UuidInit, UuidInv, UuidTypeOK, Mutex, InStep, Counters

\* What NextId returns is an id with room for its counter, after the last one.
LEMMA NextIdAfter ==
  ASSUME UuidTypeOK, NEW ms \in Nat, ms >= lastMs
  PROVE  /\ NextId(ms).ms \in Nat
         /\ NextId(ms).counter \in 0..(CounterSize - 1)
         /\ Before(Counters, NextId(ms))
<1>1. lastMs \in Nat /\ counter \in 0..(CounterSize - 1) /\ CounterSize \in Nat \ {0}
  BY UuidAssumption DEF UuidTypeOK
<1>2. CASE ms # lastMs
  BY <1>1, <1>2 DEF NextId, Before, Counters
<1>3. CASE ms = lastMs /\ Full(counter + 1)
  BY <1>1, <1>3 DEF NextId, Filled, Full, Before, Counters
<1>4. CASE ms = lastMs /\ ~Full(counter + 1)
  BY <1>1, <1>4 DEF NextId, Full, Before, Counters
<1> QED
  BY <1>2, <1>3, <1>4

LEMMA ReadClockStep ==
  ASSUME UuidInv, NEW t \in Thread, ReadClock(t)
  PROVE  UuidInv'
<1>1. UuidTypeOK'
  BY DEF UuidInv, UuidTypeOK, ReadClock
<1>2. Mutex'
  BY DEF UuidInv, UuidTypeOK, ReadClock, Unlocked, Mutex
<1>3. InStep'
  <2>1. \A u \in Thread : phase'[u] # "issue"
    BY DEF UuidInv, UuidTypeOK, ReadClock, Unlocked
  <2>2. newest = Counters
    BY DEF UuidInv, InStep, ReadClock, Unlocked
  <2>3. newest' = newest /\ Counters' = Counters
    BY DEF ReadClock, Counters
  <2> QED
    BY <2>1, <2>2, <2>3 DEF InStep
<1> QED
  BY <1>1, <1>2, <1>3 DEF UuidInv

LEMMA AdvanceStep ==
  ASSUME UuidInv, NEW t \in Thread, Advance(t)
  PROVE  UuidInv'
<1> DEFINE id == NextId(Held(ts[t]))
<1>1. phase[t] = "read" /\ ts[t] \in Nat /\ lastMs \in Nat
  BY DEF UuidInv, UuidTypeOK, Advance
<1>2. Held(ts[t]) \in Nat /\ Held(ts[t]) >= lastMs
  BY <1>1 DEF Held
<1>3. /\ id.ms \in Nat /\ id.counter \in 0..(CounterSize - 1)
      /\ Before(Counters, id)
  BY <1>2, NextIdAfter DEF UuidInv
<1>4. /\ lastMs' = id.ms /\ counter' = id.counter
      /\ ts' = [ts EXCEPT ![t] = id.ms] /\ phase' = [phase EXCEPT ![t] = "issue"]
      /\ newest' = newest /\ clock' = clock /\ issued' = issued
  BY DEF Advance
<1>5. newest = Counters
  BY <1>1 DEF UuidInv, Mutex, InStep
<1>6. Before(newest, Counters)'
  BY <1>3, <1>4, <1>5 DEF Before, Counters
<1> HIDE DEF id
<1>7. UuidTypeOK'
  BY <1>3, <1>4 DEF UuidInv, UuidTypeOK
<1>8. Mutex'
  BY <1>1, <1>4 DEF UuidInv, UuidTypeOK, Mutex
<1>9. InStep'
  <2>1. \A u \in Thread : phase'[u] = "issue" => u = t
    BY <1>1, <1>4 DEF UuidInv, UuidTypeOK, Mutex
  <2>2. phase'[t] = "issue" /\ ts'[t] = lastMs'
    BY <1>4 DEF UuidInv, UuidTypeOK
  <2> QED
    BY <1>6, <2>1, <2>2 DEF InStep
<1> QED
  BY <1>7, <1>8, <1>9 DEF UuidInv

LEMMA IssueStep ==
  ASSUME UuidInv, NEW t \in Thread, Issue(t)
  PROVE  UuidInv' /\ Before(newest, newest')
<1>1. phase[t] = "issue" /\ ts[t] = lastMs /\ Before(newest, Counters)
  BY DEF UuidInv, InStep, Issue
<1>2. newest' = Counters /\ Counters' = Counters
  BY <1>1 DEF Issue, Counters
<1>3. UuidTypeOK'
  BY <1>2 DEF UuidInv, UuidTypeOK, Issue, Counters
<1>4. Mutex'
  BY DEF UuidInv, UuidTypeOK, Mutex, Issue
<1>5. \A u \in Thread : phase'[u] # "issue"
  BY <1>1 DEF UuidInv, UuidTypeOK, Mutex, Issue
<1>6. InStep'
  BY <1>2, <1>5 DEF InStep
<1> QED
  BY <1>1, <1>2, <1>3, <1>4, <1>6 DEF UuidInv

LEMMA SetClockStep ==
  ASSUME UuidInv, SetClock
  PROVE  UuidInv'
<1>1. UuidTypeOK'
  BY UuidAssumption DEF UuidInv, UuidTypeOK, SetClock
<1>2. Mutex' /\ InStep'
  BY DEF UuidInv, Mutex, InStep, SetClock, Counters, Before
<1> QED
  BY <1>1, <1>2 DEF UuidInv

LEMMA UuidInvStep == UuidInv /\ [UuidNext]_uuidVars => UuidInv'
<1> SUFFICES ASSUME UuidInv, [UuidNext]_uuidVars
             PROVE  UuidInv'
  OBVIOUS
<1>1. CASE SetClock
  BY <1>1, SetClockStep
<1>2. ASSUME NEW t \in Thread, ReadClock(t) \/ Advance(t) \/ Issue(t)
      PROVE  UuidInv'
  BY <1>2, ReadClockStep, AdvanceStep, IssueStep
<1>3. CASE UNCHANGED uuidVars
  BY <1>3 DEF UuidInv, UuidTypeOK, Mutex, InStep, Counters, Before, uuidVars
<1> QED
  BY <1>1, <1>2, <1>3 DEF UuidNext

\* Every id that is issued comes after the one before.
LEMMA NextMonotonic ==
  UuidInv /\ [UuidNext]_uuidVars => [issued' # issued => Before(newest, newest')]_uuidVars
<1> SUFFICES ASSUME UuidInv, UuidNext, issued' # issued
             PROVE  Before(newest, newest')
  BY DEF uuidVars
<1>1. PICK t \in Thread : Issue(t)
  BY DEF UuidNext, SetClock, ReadClock, Advance
<1> QED
  BY <1>1, IssueStep

\* Clock, counters and ids have their types; the counter fits its field.
THEOREM UuidTypes == UuidSpec => []UuidTypeOK
<1>1. UuidInv => UuidTypeOK
  BY DEF UuidInv
<1> QED
  BY <1>1, UuidInvInit, UuidInvStep, PTL DEF UuidSpec

\* Ids are strictly monotonic, hence unique, whatever the clock does.
THEOREM IdsStrictlyMonotonic == UuidSpec => StrictlyMonotonic
<1>1. UuidSpec => []UuidInv
  BY UuidInvInit, UuidInvStep, PTL DEF UuidSpec
<1> QED
  BY <1>1, NextMonotonic, PTL DEF UuidSpec, StrictlyMonotonic

------------------------------------------------------------------------------
\* Ids run ahead of the clock only by what was issued.

\* Ids in their order, counted through.
Rank(id) == id.ms * CounterSize + id.counter
Ceiling  == (MaxClock + 1) * CounterSize

\* Ids begin below every clock that was read, and each is at most one further
\* than the one before it.
AheadInv ==
  /\ clock <= MaxClock + 1
  /\ \A t \in Thread :
       /\ phase[t] = "read" => ts[t] <= MaxClock + 1
       /\ phase[t] = "issue" => Rank(Counters) <= Ceiling + issued + 1
  /\ Rank(newest) <= Ceiling + issued

LEMMA Product == \A m, c \in Nat : m * c \in Nat /\ (m + 1) * c = m * c + c
  OBVIOUS

LEMMA ProductMonotonic ==
  ASSUME NEW m \in Nat, NEW n \in Nat, NEW c \in Nat, m <= n
  PROVE  m * c <= n * c
  OBVIOUS

LEMMA AheadInit ==
  ASSUME UuidInit
  PROVE  AheadInv
<1>1. newest.ms = 0 /\ newest.counter = 0 /\ issued = 0
  BY DEF UuidInit
<1>2. Ceiling \in Nat /\ 0 * CounterSize = 0
  BY UuidAssumption DEF Ceiling
<1>3. Rank(newest) <= Ceiling + issued
  BY <1>1, <1>2 DEF Rank
<1>4. clock <= MaxClock + 1 /\ \A t \in Thread : phase[t] = "out"
  BY UuidAssumption DEF UuidInit
<1> QED
  BY <1>3, <1>4 DEF AheadInv

\* The rank of what follows the last id.
LEMMA NextRank ==
  ASSUME UuidTypeOK, NEW ms \in Nat, ms <= MaxClock + 1,
         Rank(Counters) <= Ceiling + issued
  PROVE  Rank(NextId(Held(ms))) <= Ceiling + issued + 1
<1>1. /\ lastMs \in Nat /\ counter \in 0..(CounterSize - 1)
      /\ CounterSize \in Nat \ {0} /\ MaxClock \in Nat /\ issued \in Nat
  BY UuidAssumption DEF UuidTypeOK
<1>2. Rank(Counters) = lastMs * CounterSize + counter
  BY DEF Rank, Counters
<1>3. Ceiling \in Nat /\ lastMs * CounterSize \in Nat
  BY <1>1, Product DEF Ceiling
<1>4. CASE Held(ms) # lastMs
  <2>1. Held(ms) = ms
    BY <1>4 DEF Held
  <2>2. NextId(Held(ms)) = [ms |-> ms, counter |-> 0]
    BY <1>4, <2>1 DEF NextId
  <2>3. ms * CounterSize <= Ceiling
    BY <1>1, ProductMonotonic DEF Ceiling
  <2>4. ms * CounterSize \in Nat
    BY <1>1, Product
  <2> QED
    BY <1>1, <1>3, <2>2, <2>3, <2>4 DEF Rank
<1>5. CASE Held(ms) = lastMs /\ Full(counter + 1)
  <2>1. NextId(Held(ms)) = [ms |-> lastMs + 1, counter |-> 0]
    BY <1>5 DEF NextId, Filled
  <2>2. counter = CounterSize - 1
    BY <1>1, <1>5 DEF Full
  <2>3. (lastMs + 1) * CounterSize = lastMs * CounterSize + CounterSize
    BY <1>1, Product
  <2> QED
    BY <1>1, <1>2, <1>3, <2>1, <2>2, <2>3 DEF Rank
<1>6. CASE Held(ms) = lastMs /\ ~Full(counter + 1)
  <2>1. NextId(Held(ms)) = [ms |-> lastMs, counter |-> counter + 1]
    BY <1>6 DEF NextId
  <2> QED
    BY <1>1, <1>2, <1>3, <2>1 DEF Rank
<1> QED
  BY <1>4, <1>5, <1>6

LEMMA AheadStep ==
  ASSUME UuidInv, AheadInv, [UuidNext]_uuidVars
  PROVE  AheadInv'
<1>1. /\ lastMs \in Nat /\ counter \in Nat /\ issued \in Nat
      /\ phase \in [Thread -> {"out", "read", "issue"}]
      /\ ts \in [Thread -> Nat] /\ clock \in Nat
      /\ MaxClock \in Nat /\ CounterSize \in Nat
      /\ Ceiling \in Nat
      /\ newest.ms \in Nat /\ newest.counter \in Nat
  <2>1. UuidTypeOK /\ CounterSize \in Nat \ {0} /\ MaxClock \in Nat
    BY UuidAssumption DEF UuidInv
  <2>2. Ceiling \in Nat
    BY <2>1, Product DEF Ceiling
  <2> QED
    BY <2>1, <2>2 DEF UuidTypeOK
<1>2. CASE SetClock
  <2>1. clock' <= MaxClock + 1
    BY <1>1, <1>2 DEF SetClock
  <2> QED
    BY <1>2, <2>1 DEF SetClock, AheadInv, Rank, Counters
<1>3. ASSUME NEW t \in Thread, ReadClock(t) PROVE AheadInv'
  <2>1. /\ phase' = [phase EXCEPT ![t] = "read"]
        /\ ts' = [ts EXCEPT ![t] = clock]
        /\ UNCHANGED <<clock, lastMs, counter, issued, newest>>
    BY <1>3 DEF ReadClock
  <2> QED
    BY <1>1, <2>1 DEF AheadInv, Rank, Counters
<1>4. ASSUME NEW t \in Thread, Advance(t) PROVE AheadInv'
  <2> DEFINE id == NextId(Held(ts[t]))
  <2>1. /\ phase[t] = "read"
        /\ lastMs' = id.ms /\ counter' = id.counter
        /\ phase' = [phase EXCEPT ![t] = "issue"]
        /\ ts' = [ts EXCEPT ![t] = id.ms]
        /\ UNCHANGED <<clock, issued, newest>>
    BY <1>4 DEF Advance
  <2>2. \A u \in Thread : phase[u] # "issue"
    BY <2>1 DEF UuidInv, Mutex
  <2>3. newest = Counters
    BY <2>2 DEF UuidInv, InStep
  <2>4. ts[t] <= MaxClock + 1 /\ ts[t] \in Nat
    BY <1>1, <2>1 DEF AheadInv
  <2>5. Rank(id) <= Ceiling + issued + 1
    BY <2>3, <2>4, NextRank DEF UuidInv, AheadInv
  <2>6. Rank(Counters)' = Rank(id)
    BY <2>1 DEF Rank, Counters
  <2> HIDE DEF id
  <2> QED
    BY <1>1, <2>1, <2>5, <2>6 DEF AheadInv, Rank
<1>5. ASSUME NEW t \in Thread, Issue(t) PROVE AheadInv'
  <2>1. /\ phase[t] = "issue"
        /\ newest' = [ms |-> ts[t], counter |-> counter]
        /\ issued' = issued + 1
        /\ phase' = [phase EXCEPT ![t] = "out"]
        /\ UNCHANGED <<clock, lastMs, counter, ts>>
    BY <1>5 DEF Issue
  <2>2. ts[t] = lastMs /\ Rank(Counters) <= Ceiling + issued + 1
    BY <2>1 DEF UuidInv, InStep, AheadInv
  <2>3. Rank(newest') <= Ceiling + issued'
    BY <1>1, <2>1, <2>2 DEF Rank, Counters
  <2>4. \A u \in Thread : u # t => phase[u] # "issue"
    BY <2>1 DEF UuidInv, Mutex
  <2> QED
    BY <1>1, <2>1, <2>3, <2>4 DEF AheadInv, Rank
<1>6. CASE UNCHANGED uuidVars
  BY <1>6 DEF uuidVars, AheadInv, Rank, Counters
<1> QED
  BY <1>2, <1>3, <1>4, <1>5, <1>6 DEF UuidNext

LEMMA AheadIsLittle ==
  ASSUME UuidTypeOK, AheadInv
  PROVE  LittleAhead
<1> DEFINE d == issued \div CounterSize
<1>1. /\ newest.ms \in Nat /\ newest.counter \in Nat /\ issued \in Nat
      /\ MaxClock \in Nat /\ CounterSize \in Nat \ {0}
  BY UuidAssumption DEF UuidTypeOK
<1>2. d \in Nat /\ issued < (d + 1) * CounterSize
  BY <1>1
<1> HIDE DEF d
<1>3. newest.ms * CounterSize <= Ceiling + issued
  <2>1. newest.ms * CounterSize \in Nat /\ Ceiling \in Nat
    BY <1>1, Product DEF Ceiling
  <2> QED
    BY <1>1, <2>1 DEF AheadInv, Rank
<1>4. SUFFICES ASSUME MaxClock + 1 + (d + 1) <= newest.ms PROVE FALSE
  BY <1>1, <1>2 DEF LittleAhead, d
<1>5. (MaxClock + 1 + (d + 1)) * CounterSize <= newest.ms * CounterSize
  BY <1>1, <1>2, <1>4, ProductMonotonic
<1>6. (MaxClock + 1 + (d + 1)) * CounterSize
        = Ceiling + (d + 1) * CounterSize
  BY <1>1, <1>2 DEF Ceiling
<1> QED
  <2>1. Ceiling \in Nat /\ (d + 1) * CounterSize \in Nat
        /\ newest.ms * CounterSize \in Nat
    BY <1>1, <1>2, Product DEF Ceiling
  <2> QED
    BY <1>1, <1>2, <1>3, <1>5, <1>6, <2>1

\* Ids run ahead of every clock that was read only by the milliseconds that
\* were filled, whatever the clock does.
THEOREM IdsLittleAhead == UuidSpec => []LittleAhead
<1>1. UuidInit => UuidInv /\ AheadInv
  BY UuidInvInit, AheadInit
<1>2. (UuidInv /\ AheadInv) /\ [UuidNext]_uuidVars => (UuidInv /\ AheadInv)'
  BY UuidInvStep, AheadStep
<1>3. UuidInv /\ AheadInv => LittleAhead
  BY AheadIsLittle DEF UuidInv
<1> QED
  BY <1>1, <1>2, <1>3, PTL DEF UuidSpec

------------------------------------------------------------------------------
\* The pace of connection attempts.

\* At least one spacing lies between two slots.
Apart(a, b) == a + Spacing <= b \/ b + Spacing <= a

\* Attempts are numbered, within the budget of their node.
Numbered ==
  /\ IsFiniteSet(starts)
  /\ \A s \in starts : s.number <= Begun(s.node)
  /\ \A n \in Node :
       /\ Begun(n) <= MaxAttempts
       /\ task[n] = "queued" => Begun(n) = 0
       /\ task[n] \in {"ready", "sleeping"} => Begun(n) < MaxAttempts

\* The slots that are waited for lie apart, before the next one, and not
\* further back than the event loop may be late.
Reserved ==
  \A n \in InState("sleeping") :
    /\ slot[n] + Spacing <= nextAt
    /\ loopTime <= slot[n] + MaxLate
    /\ \A m \in InState("sleeping") : m # n => Apart(slot[m], slot[n])

\* The slots that the attempts were begun on.
Slots(f) ==
  /\ \A s \in starts :
       /\ f[s] <= s.time /\ s.time <= f[s] + MaxLate
       /\ f[s] + Spacing <= nextAt
       /\ \A n \in InState("sleeping") : Apart(f[s], slot[n])
  /\ \A s, t \in starts : s # t => Apart(f[s], f[t])

\* Attempts do not record their slots, but there is one for each.
ThrottleInv ==
  /\ ThrottleTypeOK
  /\ Numbered
  /\ Reserved
  /\ \E f \in [starts -> 0..LoopHorizon] : Slots(f)

TaskState == {"queued", "ready", "sleeping", "connected", "left"}
Start     == [node : Node, number : 1..MaxAttempts, time : 0..LoopHorizon]

LEMMA ThrottleFacts ==
  ASSUME ThrottleInv
  PROVE  /\ Spacing \in Nat \ {0} /\ MaxLate \in Nat /\ LoopHorizon \in Nat
         /\ MaxAttempts \in Nat \ {0} /\ Permits \in Nat \ {0}
         /\ loopTime \in 0..LoopHorizon /\ nextAt \in Nat
         /\ task \in [Node -> TaskState] /\ slot \in [Node -> Nat]
         /\ starts \subseteq Start
         /\ \A n \in InState("connected") : loopTime >= slot[n]
BY ThrottleAssumption DEF ThrottleInv, ThrottleTypeOK, TaskState, Start

LEMMA BegunIsNat ==
  ASSUME IsFiniteSet(starts), NEW n
  PROVE  Begun(n) \in Nat /\ IsFiniteSet({s \in starts : s.node = n})
<1>1. {s \in starts : s.node = n} \in SUBSET starts
  OBVIOUS
<1>2. IsFiniteSet({s \in starts : s.node = n})
  BY <1>1, FS_Subset
<1> QED
  BY <1>2, FS_CardinalityType DEF Begun

LEMMA ThrottleInvInit ==
  ASSUME ThrottleInit
  PROVE  ThrottleInv
<1>1. /\ loopTime = 0 /\ nextAt = 0 /\ starts = {}
      /\ task = [n \in Node |-> "queued"] /\ slot = [n \in Node |-> 0]
  BY DEF ThrottleInit
<1>2. InState("sleeping") = {} /\ InState("connected") = {}
  BY <1>1 DEF InState
<1>3. \A n : Begun(n) = 0
  <2>1. \A n : {s \in starts : s.node = n} = {}
    BY <1>1
  <2> QED
    BY <2>1, FS_EmptySet DEF Begun
<1>4. ThrottleTypeOK
  BY <1>1, <1>2, ThrottleAssumption DEF ThrottleTypeOK
<1>5. Numbered
  BY <1>1, <1>3, FS_EmptySet, ThrottleAssumption DEF Numbered
<1>6. Reserved
  BY <1>2 DEF Reserved
<1>7. Slots([s \in starts |-> 0])
  BY <1>1 DEF Slots
<1>8. [s \in starts |-> 0] \in [starts -> 0..LoopHorizon]
  BY <1>1
<1> QED
  BY <1>4, <1>5, <1>6, <1>7, <1>8 DEF ThrottleInv

\* A step that begins no attempt and reserves no slot: those who sleep slept
\* before, the others have their budget.
LEMMA QuietStep ==
  ASSUME ThrottleInv, NEW n \in Node, NEW state \in TaskState \ {"sleeping"},
         task' = [task EXCEPT ![n] = state],
         UNCHANGED <<loopTime, nextAt, slot, starts>>,
         state = "connected" => task[n] = "connected",
         state = "queued" => Begun(n) = 0,
         state = "ready" => Begun(n) < MaxAttempts
  PROVE  ThrottleInv'
<1>1. /\ task \in [Node -> TaskState] /\ task' \in [Node -> TaskState]
      /\ loopTime' = loopTime /\ nextAt' = nextAt /\ slot' = slot
      /\ starts' = starts
  BY ThrottleFacts
<1>2. /\ InState("sleeping")' \subseteq InState("sleeping")
      /\ InState("connected")' \subseteq InState("connected")
  BY <1>1 DEF InState
<1>3. ThrottleTypeOK'
  BY <1>1, <1>2, ThrottleFacts DEF ThrottleTypeOK, TaskState, Start
<1>4. \A m : Begun(m)' = Begun(m)
  BY <1>1 DEF Begun
<1>5. Numbered'
  BY <1>1, <1>4 DEF ThrottleInv, Numbered
<1>6. Reserved'
  BY <1>1, <1>2 DEF ThrottleInv, Reserved, Apart
<1>7. PICK f \in [starts -> 0..LoopHorizon] : Slots(f)
  BY DEF ThrottleInv
<1>8. Slots(f)'
  BY <1>1, <1>2, <1>7 DEF Slots, Apart
<1> QED
  BY <1>1, <1>3, <1>5, <1>6, <1>7, <1>8 DEF ThrottleInv

\* A slot that is reserved lies after all the others.
LEMMA ReserveStep ==
  ASSUME ThrottleInv, NEW n \in Node, Reserve(n)
  PROVE  ThrottleInv'
<1> DEFINE start == Later(loopTime, nextAt)
<1>1. /\ task[n] = "ready"
      /\ slot' = [slot EXCEPT ![n] = start] /\ nextAt' = After(start)
      /\ task' = [task EXCEPT ![n] = "sleeping"]
      /\ loopTime' = loopTime /\ starts' = starts
  BY DEF Reserve
<1>2. /\ Spacing \in Nat \ {0} /\ MaxLate \in Nat /\ LoopHorizon \in Nat
      /\ loopTime \in 0..LoopHorizon /\ nextAt \in Nat
      /\ task \in [Node -> TaskState] /\ slot \in [Node -> Nat]
      /\ starts \subseteq Start
      /\ \A m \in InState("connected") : loopTime >= slot[m]
  BY ThrottleFacts
<1>3. /\ start \in Nat /\ start >= loopTime /\ start >= nextAt
      /\ nextAt' = start + Spacing
  BY <1>1, <1>2 DEF Later, After
<1> HIDE DEF start
<1>4. /\ InState("sleeping")' = InState("sleeping") \cup {n}
      /\ InState("connected")' = InState("connected")
      /\ n \notin InState("sleeping") /\ n \notin InState("connected")
      /\ InState("sleeping") \subseteq Node
      /\ InState("connected") \subseteq Node
  BY <1>1, <1>2 DEF InState, TaskState
<1>5. slot'[n] = start /\ \A m \in Node : m # n => slot'[m] = slot[m]
  BY <1>1, <1>2
<1>6. ThrottleTypeOK'
  <2>1. task' \in [Node -> TaskState] /\ slot' \in [Node -> Nat]
    BY <1>1, <1>2, <1>3 DEF TaskState
  <2>2. \A m \in InState("connected")' : loopTime' >= slot'[m]
    BY <1>1, <1>2, <1>4, <1>5
  <2> QED
    BY <1>1, <1>2, <1>3, <2>1, <2>2 DEF ThrottleTypeOK, TaskState, Start
<1>7. Numbered'
  <2>1. \A m : Begun(m)' = Begun(m)
    BY <1>1 DEF Begun
  <2> QED
    BY <1>1, <1>2, <2>1 DEF ThrottleInv, Numbered
<1>8. Reserved'
  <2>1. ASSUME NEW m \in InState("sleeping")
        PROVE  /\ slot'[m] = slot[m] /\ slot[m] \in Nat
               /\ slot[m] + Spacing <= nextAt
               /\ loopTime <= slot[m] + MaxLate
               /\ Apart(slot[m], start) /\ Apart(start, slot[m])
    BY <1>2, <1>3, <1>4, <1>5 DEF ThrottleInv, Reserved, Apart
  <2>2. ASSUME NEW m \in InState("sleeping")'
        PROVE  /\ slot'[m] + Spacing <= nextAt'
               /\ loopTime' <= slot'[m] + MaxLate
    BY <1>1, <1>2, <1>3, <1>4, <1>5, <2>1
  <2>3. ASSUME NEW m \in InState("sleeping")', NEW l \in InState("sleeping")',
               m # l
        PROVE  Apart(slot'[m], slot'[l])
    <3>1. CASE m = n
      BY <1>4, <1>5, <2>1, <2>3, <3>1
    <3>2. CASE l = n
      BY <1>4, <1>5, <2>1, <2>3, <3>2
    <3>3. CASE m # n /\ l # n
      BY <1>4, <2>1, <2>3, <3>3 DEF ThrottleInv, Reserved
    <3> QED
      BY <3>1, <3>2, <3>3
  <2> QED
    BY <2>2, <2>3 DEF Reserved, Apart
<1>9. PICK f \in [starts -> 0..LoopHorizon] : Slots(f)
  BY DEF ThrottleInv
<1>10. Slots(f)'
  <2>1. ASSUME NEW s \in starts
        PROVE  /\ f[s] \in Nat
               /\ f[s] <= s.time /\ s.time <= f[s] + MaxLate
               /\ f[s] + Spacing <= nextAt
               /\ \A m \in InState("sleeping") : Apart(f[s], slot[m])
               /\ \A t \in starts : s # t => Apart(f[s], f[t])
    BY <1>9 DEF Slots
  <2>2. ASSUME NEW s \in starts
        PROVE  /\ f[s] + Spacing <= nextAt'
               /\ \A m \in InState("sleeping")' : Apart(f[s], slot'[m])
    <3>1. Apart(f[s], start) /\ f[s] + Spacing <= nextAt'
      BY <1>2, <1>3, <2>1 DEF Apart
    <3> QED
      BY <1>4, <1>5, <2>1, <3>1
  <2> QED
    BY <1>1, <2>1, <2>2 DEF Slots, Apart
<1> QED
  BY <1>1, <1>6, <1>7, <1>8, <1>9, <1>10 DEF ThrottleInv

\* An attempt begins on the slot that its task has waited for.
LEMMA BeginStep ==
  ASSUME ThrottleInv, NEW n \in Node, Begin(n)
  PROVE  ThrottleInv'
<1> DEFINE new == [node |-> n, number |-> Begun(n) + 1, time |-> loopTime]
<1>1. /\ task[n] = "sleeping" /\ loopTime >= slot[n]
      /\ starts' = starts \cup {new}
      /\ task' = [task EXCEPT ![n] = "connected"]
      /\ loopTime' = loopTime /\ nextAt' = nextAt /\ slot' = slot
  BY DEF Begin, Due
<1>2. /\ Spacing \in Nat \ {0} /\ MaxLate \in Nat /\ LoopHorizon \in Nat
      /\ MaxAttempts \in Nat \ {0}
      /\ loopTime \in 0..LoopHorizon /\ nextAt \in Nat
      /\ task \in [Node -> TaskState] /\ slot \in [Node -> Nat]
      /\ starts \subseteq Start
      /\ \A m \in InState("connected") : loopTime >= slot[m]
  BY ThrottleFacts
<1>3. /\ InState("sleeping")' = InState("sleeping") \ {n}
      /\ InState("connected")' = InState("connected") \cup {n}
      /\ n \in InState("sleeping") /\ InState("sleeping") \subseteq Node
  BY <1>1, <1>2 DEF InState, TaskState
<1>4. /\ IsFiniteSet(starts)
      /\ Begun(n) \in Nat /\ Begun(n) < MaxAttempts
      /\ \A s \in starts : s.number <= Begun(s.node)
  BY <1>1, BegunIsNat DEF ThrottleInv, Numbered
<1>5. /\ new.node = n /\ new.number = Begun(n) + 1 /\ new.time = loopTime
      /\ new \in Start
  BY <1>2, <1>4 DEF Start
<1> HIDE DEF new
<1>6. new \notin starts
  <2> SUFFICES ASSUME new \in starts PROVE FALSE
    OBVIOUS
  <2>1. new.number <= Begun(n)
    BY <1>4, <1>5
  <2> QED
    BY <1>4, <1>5, <2>1
<1>7. Begun(n)' = Begun(n) + 1
  <2>1. {s \in starts' : s.node = n} = {s \in starts : s.node = n} \cup {new}
    BY <1>1, <1>5
  <2>2. new \notin {s \in starts : s.node = n}
    BY <1>6
  <2>3. IsFiniteSet({s \in starts : s.node = n})
    BY <1>4, BegunIsNat
  <2> QED
    BY <2>1, <2>2, <2>3, FS_AddElement DEF Begun
<1>8. \A m : m # n => Begun(m)' = Begun(m)
  <2>1. \A m : m # n =>
          {s \in starts' : s.node = m} = {s \in starts : s.node = m}
    BY <1>1, <1>5
  <2> QED
    BY <2>1 DEF Begun
<1>9. ThrottleTypeOK'
  <2>1. task' \in [Node -> TaskState]
    BY <1>1, <1>2 DEF TaskState
  <2>2. starts' \subseteq Start
    BY <1>1, <1>2, <1>5
  <2>3. \A m \in InState("connected")' : loopTime' >= slot'[m]
    BY <1>1, <1>2, <1>3
  <2> QED
    BY <1>1, <1>2, <2>1, <2>2, <2>3 DEF ThrottleTypeOK, TaskState, Start
<1>10. Numbered'
  <2>1. IsFiniteSet(starts')
    BY <1>1, <1>4, FS_AddElement
  <2>2. ASSUME NEW s \in starts' PROVE s.number <= Begun(s.node)'
    <3>1. CASE s = new
      BY <1>4, <1>5, <1>7, <3>1
    <3>2. CASE s \in starts /\ s.node = n
      <4>1. s.number \in Nat /\ s.number <= Begun(n)
        BY <1>2, <1>4, <3>2 DEF Start
      <4> QED
        BY <1>4, <1>7, <3>2, <4>1
    <3>3. CASE s \in starts /\ s.node # n
      BY <1>4, <1>8, <3>3
    <3> QED
      BY <1>1, <3>1, <3>2, <3>3
  <2>3. ASSUME NEW m \in Node
        PROVE  /\ Begun(m)' <= MaxAttempts
               /\ task'[m] = "queued" => Begun(m)' = 0
               /\ task'[m] \in {"ready", "sleeping"} => Begun(m)' < MaxAttempts
    <3>1. CASE m = n
      BY <1>1, <1>2, <1>4, <1>7, <3>1
    <3>2. CASE m # n
      <4>1. task'[m] = task[m] /\ Begun(m)' = Begun(m)
        BY <1>1, <1>2, <1>8, <3>2
      <4> QED
        BY <4>1 DEF ThrottleInv, Numbered
    <3> QED
      BY <3>1, <3>2
  <2> QED
    BY <2>1, <2>2, <2>3 DEF Numbered
<1>11. Reserved'
  BY <1>1, <1>3 DEF ThrottleInv, Reserved, Apart
<1>12. PICK f \in [starts -> 0..LoopHorizon] : Slots(f)
  BY DEF ThrottleInv
<1>13. /\ slot[n] \in 0..LoopHorizon
       /\ slot[n] + Spacing <= nextAt
       /\ loopTime <= slot[n] + MaxLate
       /\ \A m \in InState("sleeping") :
            m # n => Apart(slot[n], slot[m])
  BY <1>1, <1>2, <1>3 DEF ThrottleInv, Reserved
<1>14. PICK g \in [starts' -> 0..LoopHorizon] :
         g[new] = slot[n] /\ \A s \in starts : g[s] = f[s]
  <2> DEFINE h == [s \in starts' |-> IF s = new THEN slot[n] ELSE f[s]]
  <2>1. /\ h \in [starts' -> 0..LoopHorizon]
        /\ h[new] = slot[n] /\ \A s \in starts : h[s] = f[s]
    BY <1>1, <1>6, <1>12, <1>13
  <2> HIDE DEF h
  <2> QED
    BY <2>1
<1>15. Slots(g)'
  <2>1. ASSUME NEW s \in starts
        PROVE  /\ f[s] <= s.time /\ s.time <= f[s] + MaxLate
               /\ f[s] + Spacing <= nextAt
               /\ \A m \in InState("sleeping") : Apart(f[s], slot[m])
               /\ \A t \in starts : s # t => Apart(f[s], f[t])
    BY <1>12 DEF Slots
  <2>2. ASSUME NEW s \in starts'
        PROVE  /\ g[s] <= s.time /\ s.time <= g[s] + MaxLate
               /\ g[s] + Spacing <= nextAt'
               /\ \A m \in InState("sleeping")' : Apart(g[s], slot'[m])
    <3>1. CASE s = new
      BY <1>1, <1>3, <1>5, <1>13, <1>14, <3>1
    <3>2. CASE s \in starts
      BY <1>1, <1>3, <1>14, <2>1, <3>2
    <3> QED
      BY <1>1, <3>1, <3>2
  <2>3. ASSUME NEW s \in starts', NEW t \in starts', s # t
        PROVE  Apart(g[s], g[t])
    <3>1. CASE s \in starts /\ t \in starts
      BY <1>14, <2>1, <2>3, <3>1
    <3>2. CASE s \in starts /\ t = new
      BY <1>3, <1>14, <2>1, <3>2
    <3>3. CASE s = new /\ t \in starts
      <4>1. Apart(f[t], slot[n])
        BY <1>3, <2>1, <3>3
      <4> QED
        BY <1>14, <3>3, <4>1 DEF Apart
    <3> QED
      BY <1>1, <2>3, <3>1, <3>2, <3>3
  <2> QED
    BY <2>2, <2>3 DEF Slots, Apart
<1> QED
  BY <1>9, <1>10, <1>11, <1>14, <1>15 DEF ThrottleInv

\* The event loop wakes who sleeps in time.
LEMMA LoopTickStep ==
  ASSUME ThrottleInv, LoopTick
  PROVE  ThrottleInv'
<1>1. /\ loopTime < LoopHorizon
      /\ \A n \in InState("sleeping") : loopTime < slot[n] + MaxLate
      /\ loopTime' = loopTime + 1
      /\ nextAt' = nextAt /\ task' = task /\ slot' = slot /\ starts' = starts
  BY DEF LoopTick
<1>2. /\ MaxLate \in Nat /\ LoopHorizon \in Nat
      /\ loopTime \in 0..LoopHorizon /\ nextAt \in Nat
      /\ task \in [Node -> TaskState] /\ slot \in [Node -> Nat]
      /\ starts \subseteq Start
      /\ \A m \in InState("connected") : loopTime >= slot[m]
  BY ThrottleFacts
<1>3. \A s : InState(s)' = InState(s) /\ InState(s) \subseteq Node
  BY <1>1 DEF InState
<1>4. ThrottleTypeOK'
  BY <1>1, <1>2, <1>3 DEF ThrottleTypeOK, TaskState, Start
<1>5. Numbered'
  BY <1>1 DEF ThrottleInv, Numbered, Begun
<1>6. Reserved'
  BY <1>1, <1>2, <1>3 DEF ThrottleInv, Reserved, Apart
<1>7. PICK f \in [starts -> 0..LoopHorizon] : Slots(f)
  BY DEF ThrottleInv
<1>8. Slots(f)'
  BY <1>1, <1>3, <1>7 DEF Slots, Apart
<1> QED
  BY <1>1, <1>4, <1>5, <1>6, <1>7, <1>8 DEF ThrottleInv

LEMMA ThrottleInvStep ==
  ASSUME ThrottleInv, [ThrottleNext]_throttleVars
  PROVE  ThrottleInv'
<1>1. ASSUME NEW n \in Node, Enter(n) PROVE ThrottleInv'
  <2>1. Begun(n) = 0 /\ Begun(n) < MaxAttempts
    BY <1>1, ThrottleFacts DEF Enter, ThrottleInv, Numbered
  <2> QED
    BY <1>1, <2>1, QuietStep DEF Enter, TaskState
<1>2. ASSUME NEW n \in Node, RetryAttempt(n) PROVE ThrottleInv'
  BY <1>2, QuietStep DEF RetryAttempt, TaskState
<1>3. ASSUME NEW n \in Node, Leave(n) PROVE ThrottleInv'
  BY <1>3, QuietStep DEF Leave, TaskState
<1>4. ASSUME NEW n \in Node, Cancel(n) PROVE ThrottleInv'
  BY <1>4, QuietStep DEF Cancel, TaskState
<1>5. CASE UNCHANGED throttleVars
  <2>1. /\ loopTime' = loopTime /\ nextAt' = nextAt /\ task' = task
        /\ slot' = slot /\ starts' = starts
    BY <1>5 DEF throttleVars
  <2>2. ThrottleTypeOK' /\ Numbered' /\ Reserved'
    BY <2>1
    DEF ThrottleInv, ThrottleTypeOK, Numbered, Reserved, InState, Begun
  <2>3. PICK f \in [starts -> 0..LoopHorizon] : Slots(f)
    BY DEF ThrottleInv
  <2>4. Slots(f)'
    BY <2>1, <2>3 DEF Slots, InState
  <2> QED
    BY <2>1, <2>2, <2>3, <2>4 DEF ThrottleInv
<1> QED
  BY <1>1, <1>2, <1>3, <1>4, <1>5, ReserveStep, BeginStep, LoopTickStep
  DEF ThrottleNext

\* Which of the slots of a window, Spacing apart from each other, lies at or
\* before x.
Place(first, x) == (x - first) \div Spacing

LEMMA ApartInPlaces ==
  ASSUME NEW first \in Int, NEW a \in Int, NEW b \in Int,
         Spacing \in Nat \ {0}, first <= a, first <= b, Apart(a, b)
  PROVE  Place(first, a) # Place(first, b)
<1>1. ASSUME NEW x \in Int, NEW y \in Int, first <= x, x + Spacing <= y
      PROVE  Place(first, x) < Place(first, y)
  <2> DEFINE q == Place(first, x)
             r == Place(first, y)
  <2>1. /\ q \in Int /\ q * Spacing <= x - first
        /\ r \in Int /\ y - first < (r + 1) * Spacing
    BY <1>1 DEF Place
  <2> HIDE DEF q, r
  <2>2. q * Spacing + Spacing < (r + 1) * Spacing
    BY <1>1, <2>1
  <2>3. (q + 1) * Spacing < (r + 1) * Spacing
    BY <2>1, <2>2
  <2>4. q + 1 < r + 1
    BY <2>1, <2>3
  <2> QED
    BY <2>1, <2>4 DEF q, r
<1> QED
  <2>1. CASE a + Spacing <= b
    BY <1>1, <2>1 DEF Place
  <2>2. CASE b + Spacing <= a
    BY <1>1, <2>2 DEF Place
  <2> QED
    BY <2>1, <2>2 DEF Apart

LEMMA PlaceInWindow ==
  ASSUME NEW first \in Int, NEW x \in Int, NEW width \in Nat,
         Spacing \in Nat \ {0}, first <= x, x <= first + width
  PROVE  Place(first, x) \in 0..(width \div Spacing)
<1> DEFINE q == Place(first, x)
           r == width \div Spacing
<1>1. /\ q \in Int /\ q * Spacing <= x - first
      /\ x - first < (q + 1) * Spacing
      /\ r \in Int /\ width < (r + 1) * Spacing
  BY DEF Place
<1> HIDE DEF q, r
<1>2. 0 < (q + 1) * Spacing /\ q * Spacing < (r + 1) * Spacing
  BY <1>1
<1>3. 0 < q + 1 /\ q < r + 1
  BY <1>1, <1>2
<1> QED
  BY <1>1, <1>3 DEF q, r

\* The attempts of a window go to different slots of a window that is longer
\* by what the event loop may be late, and of these there are so many.
LEMMA SlotsBound ==
  ASSUME ThrottleInv
  PROVE  RateBounded
<1> SUFFICES ASSUME NEW s \in starts, NEW length \in 0..LoopHorizon
             PROVE  Cardinality({t \in starts : /\ t.time >= s.time
                                                /\ t.time <= s.time + length})
                      <= (length + MaxLate) \div Spacing + 1
  BY DEF RateBounded
<1> DEFINE window == {t \in starts : /\ t.time >= s.time
                                     /\ t.time <= s.time + length}
           first  == s.time - MaxLate
           width  == length + MaxLate
<1>1. /\ Spacing \in Nat \ {0} /\ MaxLate \in Nat /\ LoopHorizon \in Nat
      /\ starts \subseteq Start /\ length \in Nat /\ width \in Nat
      /\ s.time \in Int /\ first \in Int
  BY ThrottleFacts DEF Start
<1>2. PICK f \in [starts -> 0..LoopHorizon] : Slots(f)
  BY DEF ThrottleInv
<1> DEFINE h == [t \in window |-> Place(first, f[t])]
           places == 0..(width \div Spacing)
<1>3. ASSUME NEW t \in window
      PROVE  /\ f[t] \in Int /\ first <= f[t] /\ f[t] <= first + width
             /\ h[t] = Place(first, f[t]) /\ h[t] \in places
  <2>1. /\ t \in starts /\ t.time \in Int
        /\ t.time >= s.time /\ t.time <= s.time + length
        /\ f[t] \in Int /\ f[t] <= t.time /\ t.time <= f[t] + MaxLate
    BY <1>1, <1>2 DEF Slots, Start
  <2>2. first <= f[t] /\ f[t] <= first + width
    BY <1>1, <2>1
  <2> HIDE DEF first, width
  <2> QED
    BY <1>1, <2>1, <2>2, PlaceInWindow
<1>4. ASSUME NEW t \in window, NEW u \in window, t # u
      PROVE  h[t] # h[u]
  <2>1. Apart(f[t], f[u])
    BY <1>2, <1>4 DEF Slots
  <2> HIDE DEF first, width, places
  <2> QED
    BY <1>1, <1>3, <2>1, ApartInPlaces
<1>5. h \in Injection(window, places)
  <2>1. h \in [window -> places]
    BY <1>3
  <2> QED
    BY <1>4, <2>1 DEF Injection, IsInjective
<1>6. /\ width \div Spacing \in Int /\ 0 <= width \div Spacing
      /\ IsFiniteSet(places) /\ Cardinality(places) = width \div Spacing + 1
  <2>1. width \div Spacing \in Nat
    BY <1>1
  <2> HIDE DEF width
  <2> QED
    BY <2>1, FS_Interval
<1>7. Cardinality(window) <= Cardinality(places)
  BY <1>5, <1>6, FS_Injection
<1> QED
  BY <1>6, <1>7

\* Attempts, slots and the clock of the loop have their types, and no node
\* begins more attempts than it may.
THEOREM ThrottleTypes == ThrottleSpec => []ThrottleTypeOK
<1>1. ThrottleInit => ThrottleInv
  BY ThrottleInvInit
<1>2. ThrottleInv /\ [ThrottleNext]_throttleVars => ThrottleInv'
  BY ThrottleInvStep
<1>3. ThrottleInv => ThrottleTypeOK
  BY DEF ThrottleInv
<1> QED
  BY <1>1, <1>2, <1>3, PTL DEF ThrottleSpec

\* For any number of nodes, every rate and every delay of the event loop: as
\* many attempts begin in a window as it has slots, but for those that a late
\* event loop pushes into it.
THEOREM RateHolds == ThrottleSpec => []RateBounded
<1>1. ThrottleInit => ThrottleInv
  BY ThrottleInvInit
<1>2. ThrottleInv /\ [ThrottleNext]_throttleVars => ThrottleInv'
  BY ThrottleInvStep
<1>3. ThrottleInv => RateBounded
  BY SlotsBound
<1> QED
  BY <1>1, <1>2, <1>3, PTL DEF ThrottleSpec

------------------------------------------------------------------------------
\* The instance that is model-checked runs the three side by side.

LEMMA PartsRun ==
  MCSpec => LeaseSpec /\ ThrottleSpec /\ UuidSpec
<1>1. MCInit => LeaseInit /\ ThrottleInit /\ UuidInit
  BY DEF MCInit
<1>2. [MCNext]_MCVars => /\ [LeaseNext]_leaseVars
                         /\ [ThrottleNext]_throttleVars
                         /\ [UuidNext]_uuidVars
  BY DEF MCNext, MCVars, LeaseStep, ThrottleStep, UuidStep
<1> QED
  BY <1>1, <1>2, PTL DEF MCSpec, LeaseSpec, ThrottleSpec, UuidSpec

\* Clocks, rows, slots, counters and ids have their types, and ids stay near
\* the clock.
THEOREM ClocksWellFormed == MCSpec => []ClockTypes
  BY PartsRun, LeaseTypes, ThrottleTypes, UuidTypes, IdsLittleAhead, PTL
  DEF ClockTypes
==============================================================================
