-------------------------------- MODULE Uuid7 --------------------------------
(***************************************************************************)
(* The generator of execution and attempt ids: a timestamp and, within one *)
(* millisecond, a counter, issued under a lock by the threads of a         *)
(* process.                                                                *)
(*                                                                         *)
(* Abstractions.  An id is its timestamp and its counter: the random bits  *)
(* are not needed within one process.  The clock goes wherever it likes,   *)
(* also back.  The 48 bits of the timestamp do not run out.                *)
(***************************************************************************)
EXTENDS Integers

CONSTANTS Thread,
          CounterSize,  \* 1 << 12
          MaxClock,     \* bound: the last millisecond
          MaxIssued     \* bound: ids

ASSUME UuidAssumption ==
  CounterSize \in Nat \ {0} /\ MaxClock \in Nat /\ MaxIssued \in Nat

VARIABLES
  clock,    \* the system clock in milliseconds
  lastMs,   \* _last_ms
  counter,  \* _counter
  phase,       \* by thread: where it is in generate
  ts,       \* by thread: its ts_ms
  issued,   \* number of ids so far
  newest    \* the id issued last, [ms, counter]

uuidVars == <<clock, lastMs, counter, phase, ts, issued, newest>>

UuidInit ==
  /\ clock \in 1..(MaxClock + 1)
  /\ lastMs = 0 /\ counter = 0
  /\ phase = [t \in Thread |-> "out"] /\ ts = [t \in Thread |-> 0]
  /\ issued = 0
  /\ newest = [ms |-> 0, counter |-> 0]

\* Mutant: no lock.
UnlockedAlways == TRUE

Unlocked == \A t \in Thread : phase[t] = "out"

\* The lock is taken and the clock read.
ReadClock(t) ==
  /\ issued < MaxIssued
  /\ phase[t] = "out" /\ Unlocked
  /\ phase' = [phase EXCEPT ![t] = "read"]
  /\ ts' = [ts EXCEPT ![t] = clock]
  /\ UNCHANGED <<clock, lastMs, counter, issued, newest>>

\* A clock that went back is held at the last timestamp.
Held(ms) == IF ms < lastMs THEN lastMs ELSE ms

\* The counter has filled the millisecond: the timestamp runs ahead.
Filled(ms) == [ms |-> ms + 1, counter |-> 0]

\* Mutant: one count too many.
CountsOver(n) == n > CounterSize

\* Mutant: one count too few.
CountsUnder(n) == n >= CounterSize - 1

Full(n) == n >= CounterSize

\* What follows the last id at the time ms.
NextId(ms) ==
  IF ms # lastMs THEN [ms |-> ms, counter |-> 0]
  ELSE IF Full(counter + 1) THEN Filled(ms)
  ELSE [ms |-> ms, counter |-> counter + 1]

Advance(t) ==
  /\ phase[t] = "read"
  /\ LET id == NextId(Held(ts[t]))
     IN /\ lastMs' = id.ms /\ counter' = id.counter
        /\ ts' = [ts EXCEPT ![t] = id.ms]
  /\ phase' = [phase EXCEPT ![t] = "issue"]
  /\ UNCHANGED <<clock, issued, newest>>

\* The id is put together and the lock released.
Issue(t) ==
  /\ phase[t] = "issue"
  /\ newest' = [ms |-> ts[t], counter |-> counter]
  /\ issued' = issued + 1
  /\ phase' = [phase EXCEPT ![t] = "out"]
  /\ UNCHANGED <<clock, lastMs, counter, ts>>

SetClock ==
  /\ clock' \in 1..(MaxClock + 1)
  /\ UNCHANGED <<lastMs, counter, phase, ts, issued, newest>>

UuidNext == SetClock \/ \E t \in Thread : ReadClock(t) \/ Advance(t) \/ Issue(t)

UuidSpec == UuidInit /\ [][UuidNext]_uuidVars

------------------------------------------------------------------------------
\* Correctness.

\* An id has room for its counter.
UuidTypeOK ==
  /\ clock \in Nat /\ issued \in Nat
  /\ lastMs \in Nat /\ counter \in 0..(CounterSize - 1)
  /\ phase \in [Thread -> {"out", "read", "issue"}] /\ ts \in [Thread -> Nat]
  /\ newest \in [ms : Nat, counter : 0..(CounterSize - 1)]

Before(a, b) == a.ms < b.ms \/ (a.ms = b.ms /\ a.counter < b.counter)

\* "many ids in the same millisecond and a backwards-moving system clock still
\* yield strictly monotonic, unique ids"
StrictlyMonotonic == [][issued' # issued => Before(newest, newest')]_uuidVars

\* The timestamp runs ahead of every clock that was read only by the
\* milliseconds that were filled.
LittleAhead == newest.ms <= MaxClock + 1 + issued \div CounterSize
==============================================================================
