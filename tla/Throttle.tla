------------------------------- MODULE Throttle -------------------------------
(***************************************************************************)
(* The pace of connection attempts: a node's task holds one of the global  *)
(* permits from its first attempt to its last, and before each attempt it  *)
(* reserves the next slot of the rate limiter and sleeps until then.       *)
(*                                                                         *)
(* Abstractions.  Time is counted in instants from 0, the slot that is     *)
(* never reserved (-inf) being 0.  The event loop may wake a sleeper up to *)
(* MaxLate instants after its slot.                                        *)
(***************************************************************************)
EXTENDS Integers, FiniteSets

CONSTANTS Node,        \* one task each
          Permits,     \* global_concurrency
          Spacing,    \* 1 / rate_per_sec
          MaxLate,     \* how late the event loop wakes a sleeper
          MaxAttempts, \* bound: attempts of one node
          LoopHorizon      \* bound: the last instant

ASSUME ThrottleAssumption ==
  /\ {Permits, Spacing, MaxAttempts} \subseteq Nat \ {0}
  /\ MaxLate \in Nat /\ LoopHorizon \in Nat

VARIABLES
  loopTime,
  nextAt,   \* _next_at
  task,       \* by node: its task
  slot,     \* by node: the slot it has reserved
  starts    \* the attempts begun: node, number and time

throttleVars == <<loopTime, nextAt, task, slot, starts>>

ThrottleInit ==
  /\ loopTime = 0 /\ nextAt = 0
  /\ task = [n \in Node |-> "queued"]
  /\ slot = [n \in Node |-> 0]
  /\ starts = {}

InState(s) == {n \in Node : task[n] = s}
Active == InState("ready") \cup InState("sleeping") \cup InState("connected")
Begun(n) == Cardinality({s \in starts : s.node = n})

\* async with global_semaphore
Enter(n) ==
  /\ task[n] = "queued" /\ Cardinality(Active) < Permits
  /\ task' = [task EXCEPT ![n] = "ready"]
  /\ UNCHANGED <<loopTime, nextAt, slot, starts>>

\* Mutant: the next slot is counted from the call, not from the slot.
AfterCall(start) == loopTime + Spacing

After(start) == start + Spacing

Later(a, b) == IF a > b THEN a ELSE b

\* wait, up to the sleep: no other task runs in between.
Reserve(n) ==
  /\ task[n] = "ready"
  /\ LET start == Later(loopTime, nextAt)
     IN /\ slot' = [slot EXCEPT ![n] = start]
        /\ nextAt' = After(start)
  /\ task' = [task EXCEPT ![n] = "sleeping"]
  /\ UNCHANGED <<loopTime, starts>>

\* Mutant: one instant early.
DueEarly(n) == loopTime + 1 >= slot[n]

Due(n) == loopTime >= slot[n]

\* The sleep is over, or there was none: the attempt begins.
Begin(n) ==
  /\ task[n] = "sleeping" /\ Due(n)
  /\ starts' = starts \cup
       {[node |-> n, number |-> Begun(n) + 1, time |-> loopTime]}
  /\ task' = [task EXCEPT ![n] = "connected"]
  /\ UNCHANGED <<loopTime, nextAt, slot>>

\* A transient failure: the permit is kept.
RetryAttempt(n) ==
  /\ task[n] = "connected" /\ Begun(n) < MaxAttempts
  /\ task' = [task EXCEPT ![n] = "ready"]
  /\ UNCHANGED <<loopTime, nextAt, slot, starts>>

Leave(n) ==
  /\ task[n] = "connected"
  /\ task' = [task EXCEPT ![n] = "left"]
  /\ UNCHANGED <<loopTime, nextAt, slot, starts>>

\* The lease is lost: the slot is not given back.
Cancel(n) ==
  /\ task[n] \in {"ready", "sleeping", "connected"}
  /\ task' = [task EXCEPT ![n] = "left"]
  /\ UNCHANGED <<loopTime, nextAt, slot, starts>>

LoopTick ==
  /\ loopTime < LoopHorizon
  /\ \A n \in InState("sleeping") : loopTime < slot[n] + MaxLate
  /\ loopTime' = loopTime + 1
  /\ UNCHANGED <<nextAt, task, slot, starts>>

ThrottleNext ==
  \/ \E n \in Node :
       \/ Enter(n) \/ Reserve(n) \/ Begin(n) \/ RetryAttempt(n) \/ Leave(n)
       \/ Cancel(n)
  \/ LoopTick

ThrottleSpec == ThrottleInit /\ [][ThrottleNext]_throttleVars

------------------------------------------------------------------------------
\* Correctness.

\* Clock, slots and starts have their types; no attempt begins before its slot.
ThrottleTypeOK ==
  /\ loopTime \in 0..LoopHorizon /\ nextAt \in Nat
  /\ task \in [Node -> {"queued", "ready", "sleeping", "connected", "left"}]
  /\ slot \in [Node -> Nat]
  /\ starts \subseteq [node : Node, number : 1..MaxAttempts, time : 0..LoopHorizon]
  /\ \A n \in InState("connected") : loopTime >= slot[n]

\* The rate holds over every window, retries included: as many attempts begin
\* in it as it has slots, but for those that a late event loop pushes into it.
RateBounded ==
  \A s \in starts, length \in 0..LoopHorizon :
    LET window == {t \in starts : t.time >= s.time /\ t.time <= s.time + length}
    IN Cardinality(window) <= (length + MaxLate) \div Spacing + 1
==============================================================================
