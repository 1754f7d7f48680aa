-------------------------------- MODULE Lease --------------------------------
(***************************************************************************)
(* The lease of a run in time: what RunStore keeps as one Boolean.  A call *)
(* of the store reads the clock, waits for the database, and commits with  *)
(* the time it has read; the fence alone reads the clock inside.           *)
(*                                                                         *)
(* Abstractions.  Time is a natural number, the same for every process, as *)
(* on one machine whose clock is not set back.  A worker in Healthy runs   *)
(* its timers at most Delay late and waits at most Wait for the database   *)
(* (its busy timeout); any other may be suspended at any point.  A process *)
(* makes its calls of the store one after another, for they block its      *)
(* event loop.                                                             *)
(***************************************************************************)
EXTENDS Integers

CONSTANTS Worker, Healthy,
          LeaseTime,   \* LEASE_SECONDS
          HeartbeatInterval,    \* HEARTBEAT_INTERVAL_SEC
          Wait,        \* busy_timeout
          Delay,       \* how late a healthy worker's timer may run
          NoOwner,
          Horizon      \* bound: the last instant

\* With the values of the code, 60 > 10 + 2 * 5 + Delay: a healthy worker may
\* be up to 39 seconds late.
ASSUME LeaseAssumption ==
  /\ {LeaseTime, HeartbeatInterval, Wait, Delay, Horizon} \subseteq Nat
  /\ LeaseTime > HeartbeatInterval + Delay + 2 * Wait
  /\ Healthy \subseteq Worker /\ NoOwner \notin Worker

VARIABLES
  now,
  row,    \* status, heartbeat_at, lease_owner and lease_expires_at of the run
  call,     \* by worker: the call of the store it is in
  stamp,  \* by worker: the time that call has read
  wake    \* by worker: when the heartbeat's timer is due

leaseVars == <<now, row, call, stamp, wake>>

LeaseInit ==
  /\ now = LeaseTime
  /\ row = [status |-> "QUEUED", heartbeat |-> 0, owner |-> NoOwner,
            expires |-> 0]
  /\ call = [p \in Worker |-> "off"]
  /\ stamp = [p \in Worker |-> 0]
  /\ wake = [p \in Worker |-> 0]

------------------------------------------------------------------------------
\* A call begins: the clock is read.
Call(p, name) ==
  /\ call' = [call EXCEPT ![p] = name]
  /\ stamp' = [stamp EXCEPT ![p] = now]
  /\ UNCHANGED <<now, row, wake>>

\* The worker holds the lease; its timer is set.
Hold(p) ==
  /\ call' = [call EXCEPT ![p] = "hold"]
  /\ wake' = [wake EXCEPT ![p] = now + HeartbeatInterval]

GiveUp(p) == call' = [call EXCEPT ![p] = "off"] /\ UNCHANGED <<row, wake>>

\* Mutant: heartbeat and expiry are swapped.
LeasedSwapped(p) ==
  [status |-> "RUNNING", heartbeat |-> stamp[p] + LeaseTime, owner |-> p,
   expires |-> stamp[p]]

Leased(p) ==
  [status |-> "RUNNING", heartbeat |-> stamp[p], owner |-> p,
   expires |-> stamp[p] + LeaseTime]

BeginStart(p) == call[p] = "off" /\ Call(p, "start")

StartRun(p) ==
  /\ call[p] = "start"
  /\ \/ row.status = "QUEUED" /\ row' = Leased(p) /\ Hold(p)
     \/ row.status # "QUEUED" /\ GiveUp(p)
  /\ UNCHANGED <<now, stamp>>

Renewed(p) ==
  [row EXCEPT !.heartbeat = stamp[p], !.expires = stamp[p] + LeaseTime]

\* The heartbeat's timer has fired.
BeginRenew(p) == call[p] = "hold" /\ now >= wake[p] /\ Call(p, "renew")

\* renew_lease: the status is not asked for.
RenewLease(p) ==
  /\ call[p] = "renew"
  /\ \/ /\ row.owner = p /\ row.expires > stamp[p]
        /\ row' = Renewed(p)
        /\ Hold(p)
     \/ /\ ~(row.owner = p /\ row.expires > stamp[p])
        /\ GiveUp(p)
  /\ UNCHANGED <<now, stamp>>

\* Mutant: a worker that is slow to heartbeat is taken for dead.
StaleHeartbeat(t) ==
  row.status = "RUNNING" /\ row.heartbeat < t - HeartbeatInterval

\* The gate of is_resume_eligible and of resume_run, at the time t.
Stale(t) ==
  /\ row.status = "RUNNING"
  /\ row.heartbeat < t - LeaseTime
  /\ row.expires < t

\* The pre-check has passed.
BeginResume(p) == call[p] = "off" /\ Stale(now) /\ Call(p, "resume")

ResumeRun(p) ==
  /\ call[p] = "resume"
  /\ \/ Stale(stamp[p]) /\ row' = Leased(p) /\ Hold(p)
     \/ ~Stale(stamp[p]) /\ GiveUp(p)
  /\ UNCHANGED <<now, stamp>>

\* _assert_lease_owner
Fenced(p) == row.status = "RUNNING" /\ row.owner = p /\ row.expires > now

\* A fenced write that is refused, and the last one, which ends the run; the
\* others leave this state as it is.
FencedWrite(p) ==
  /\ call[p] = "hold"
  /\ call' = [call EXCEPT ![p] = "off"]
  /\ \/ ~Fenced(p) /\ UNCHANGED row
     \/ Fenced(p) /\ row' = [row EXCEPT !.status = "ENDED"]
  /\ UNCHANGED <<now, stamp, wake>>

\* No healthy worker is late.
OnTime(t) ==
  \A p \in Healthy :
    /\ call[p] = "hold" => t <= wake[p] + Delay
    /\ call[p] \in {"start", "renew", "resume"} => t <= stamp[p] + Wait

LeaseTick ==
  /\ now < Horizon
  /\ OnTime(now + 1)
  /\ now' = now + 1
  /\ UNCHANGED <<row, call, stamp, wake>>

LeaseNext ==
  \/ \E p \in Worker :
       \/ BeginStart(p) \/ StartRun(p)
       \/ BeginRenew(p) \/ RenewLease(p)
       \/ BeginResume(p) \/ ResumeRun(p)
       \/ FencedWrite(p)
  \/ LeaseTick

LeaseSpec == LeaseInit /\ [][LeaseNext]_leaseVars

------------------------------------------------------------------------------
\* Correctness.

\* Clock, row and workers have their types; no time lies ahead of the clock.
LeaseTypeOK ==
  /\ now \in Nat
  /\ row \in [status : {"QUEUED", "RUNNING", "ENDED"}, heartbeat : Nat,
              owner : Worker \cup {NoOwner}, expires : Nat]
  /\ call \in [Worker -> {"off", "start", "hold", "renew", "resume"}]
  /\ stamp \in [Worker -> Nat] /\ wake \in [Worker -> Nat]
  /\ row.heartbeat <= now
  /\ \A p \in Worker : stamp[p] <= now

\* A healthy worker keeps its lease: whatever the other workers try and however
\* the clock reads and the commits interleave, no run is taken from a worker
\* that is merely slow, and none of its fenced writes is refused.
HealthyKeepsLease ==
  \A p \in Healthy : call[p] \in {"hold", "renew"} => Fenced(p)

\* The two halves of the stale gate are one: heartbeat and expiry move together,
\* so that a lapsed lease is never held up by the heartbeat, nor the reverse.
GatesAgree ==
  row.status = "RUNNING" => row.expires = row.heartbeat + LeaseTime
==============================================================================
