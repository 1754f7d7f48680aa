------------------------------ MODULE BatchRun ------------------------------
(***************************************************************************)
(* execute_run: the CLI processes that start and resume one run against    *)
(* the RunStore tables.  Each Owner is one process, which starts or        *)
(* resumes the run at most once; a start or resume that the store refuses  *)
(* writes nothing, its uuid reaches no table, and so it is a stuttering    *)
(* step that leaves the process "idle".                                    *)
(*                                                                         *)
(* A process is one asyncio loop: a node job runs from one await to the    *)
(* next without interruption by its siblings or by the heartbeat.  A job   *)
(* inside such a segment is at a Mid program counter and the loop takes no *)
(* other step (LoopFree), while the other processes go on: each database   *)
(* transaction of the segment is a step of its own.                        *)
(***************************************************************************)
EXTENDS RunStore

CONSTANTS Concurrency,  \* Contract-02 limits.global_concurrency
          FaultClass,   \* error classes execute_script returns
          OutputKind,   \* how the streams of a script that ended come out
          Faults        \* TRUE: database calls and SSH steps may also raise

ASSUME BatchAssumption ==
  /\ Concurrency \in Nat \ {0}
  /\ FaultClass \subseteq ErrorClass \ (DegradingClasses \cup {"exec_nonzero"})
  /\ OutputKind \subseteq StreamKind
  /\ Faults \in BOOLEAN

VARIABLES
  phase,      \* per process: how far execute_run is
  resumed,    \* per process: the resume argument
  snap,       \* per process: the snapshot task_by_id
  job,        \* per process and node: the asyncio task run_one
  leaseLost,  \* per process: the lease_lost event
  pending,    \* per process: the summary about to be finalized
  exit        \* per process: the exit code it reported

procVars == <<phase, resumed, snap, job, leaseLost, pending, exit>>
vars     == <<dbVars, procVars>>

Mid     == {"block", "checkpoint", "plan", "commit"}
Awaits  == {"queued", "connect", "ssh"}
Settled == {"absent", "done", "blocked", "lost", "cancelled", "raised"}

Phase == {"idle", "claimed", "running", "finalizing", "exited", "dead"}

NoExit == 3

NoResult == [status |-> "FAILED", count |-> 1, class |-> NoError,
             secondary |-> {}, degraded |-> FALSE]

NoJob  == [pc |-> "absent", seq |-> 0, result |-> NoResult]
NoTask == [status |-> "PENDING", uid |-> NoUid, attemptCount |-> 0,
           class |-> NoError]

Job == [pc : Mid \cup Awaits \cup Settled, seq : 0..AttemptCap,
        result : Result]

Init ==
  /\ DbInit
  /\ phase     = [p \in Owner |-> "idle"]
  /\ resumed   = [p \in Owner |-> FALSE]
  /\ snap      = [p \in Owner |-> [n \in Node |-> NoTask]]
  /\ job       = [p \in Owner |-> [n \in Node |-> NoJob]]
  /\ leaseLost = [p \in Owner |-> FALSE]
  /\ pending   = [p \in Owner |-> NoSummary]
  /\ exit      = [p \in Owner |-> NoExit]

LoopFree(p) == phase[p] = "running" /\ \A n \in Node : job[p][n].pc \notin Mid

\* The job of n runs: it is at pc, and no sibling is inside a segment.
At(p, n, pc) ==
  /\ phase[p] = "running"
  /\ job[p][n].pc = pc
  /\ pc \in Mid \/ LoopFree(p)

Goto(p, n, pc) == job' = [job EXCEPT ![p][n].pc = pc]

\* Mutant: recovery mints a new uid.
UidForFresh(p, n) == <<p, n>>

\* The uid of the snapshot, or else one that this process mints.
UidFor(p, n) == IF snap[p][n].uid # NoUid THEN snap[p][n].uid ELSE <<p, n>>

ResumedNode(p, n) == snap[p][n].status = "UNKNOWN"

\* A step of a job that changes nothing else of its process.
JobStep == UNCHANGED <<phase, resumed, snap, leaseLost, pending, exit>>

\* Mutant: a job that has committed does not give its permit back.
RunningLeaked(p) ==
  {n \in Node : job[p][n].pc \in Mid \cup {"connect", "ssh", "done"}}

\* Permits of the global semaphore: a job keeps its permit from acquire to the
\* end of run_one, the backoff between two attempts included.
Running(p) == {n \in Node : job[p][n].pc \in Mid \cup {"connect", "ssh"}}

------------------------------------------------------------------------------
\* Claiming the run.

Start(p) ==
  /\ phase[p] = "idle"
  /\ StartRun(p)
  /\ phase' = [phase EXCEPT ![p] = "claimed"]
  /\ UNCHANGED <<resumed, snap, job, leaseLost, pending, exit>>

Resume(p) ==
  /\ phase[p] = "idle"
  /\ ResumeRun(p)
  /\ phase'   = [phase EXCEPT ![p] = "claimed"]
  /\ resumed' = [resumed EXCEPT ![p] = TRUE]
  /\ UNCHANGED <<snap, job, leaseLost, pending, exit>>

\* The snapshot is read in a transaction of its own, after the claim, and only
\* writable checkpoints are dispatched.
ReadTasks(p) ==
  /\ phase[p] = "claimed"
  /\ phase' = [phase EXCEPT ![p] = "running"]
  /\ snap'  = [snap EXCEPT ![p] = task]
  /\ job'   = [job EXCEPT ![p] = [n \in Node |->
                 IF task[n].status \in {"PENDING", "UNKNOWN"}
                 THEN [NoJob EXCEPT !.pc = "queued"] ELSE NoJob]]
  /\ UNCHANGED <<dbVars, resumed, leaseLost, pending, exit>>

------------------------------------------------------------------------------
\* Losing the lease.

\* lease_lost is set and the siblings are cancelled.  A sibling at an await
\* ends there; one whose script ends in the same loop iteration can still
\* answer, because asyncio.wait_for prefers the result to the cancellation.
Cancelled(jobs, late) ==
  [n \in Node |-> IF jobs[n].pc \in Awaits /\ n \notin late
                  THEN [jobs[n] EXCEPT !.pc = "cancelled"] ELSE jobs[n]]

LoseLease(p, jobs) ==
  /\ leaseLost' = [leaseLost EXCEPT ![p] = TRUE]
  /\ \E late \in SUBSET {n \in Node : jobs[n].pc = "ssh"} :
       job' = [job EXCEPT ![p] = Cancelled(jobs, late)]
  /\ UNCHANGED <<dbVars, phase, resumed, snap, pending, exit>>

\* A WFTLeaseLostError in the job of n.
FencedOut(p, n) == LoseLease(p, [job[p] EXCEPT ![n].pc = "lost"])

\* The heartbeat stops at the first renewal that fails, whatever the reason.
HeartbeatLost(p) ==
  /\ LoopFree(p)
  /\ ~leaseLost[p]
  /\ Faults \/ ~CanRenew(p)
  /\ LoseLease(p, job[p])

------------------------------------------------------------------------------
\* run_one

\* Mutant: a resume looks at the cap and not at the error matrix.
DispositionByCap(uid) ==
  LET last == LastAttempt(uid)
  IN IF AttemptsOf(uid) = {} \/ last.seq < AttemptCap THEN "proceed"
     ELSE IF last.status # "FAILED" \/ last.class = NoError THEN "blocked"
     ELSE "reconstruct"

\* Mutant: an attempt that failed is always tried again.
DispositionRetries(uid) ==
  LET last == LastAttempt(uid)
  IN IF AttemptsOf(uid) = {} \/ last.status = "FAILED" THEN "proceed"
     ELSE IF last.seq >= AttemptCap THEN "blocked" ELSE "proceed"

\* The three answers of _resume_disposition.
Disposition(uid) ==
  LET last == LastAttempt(uid)
  IN IF AttemptsOf(uid) = {} THEN "proceed"
     ELSE IF last.status # "FAILED" \/ last.class = NoError
       THEN IF last.seq >= AttemptCap THEN "blocked" ELSE "proceed"
     ELSE IF last.seq >= AttemptCap \/ ~ShouldRetry(last.class, last.seq)
       THEN "reconstruct" ELSE "proceed"

Acquire(p, n) ==
  /\ At(p, n, "queued")
  /\ Cardinality(Running(p)) < Concurrency
  /\ Goto(p, n, IF leaseLost[p] THEN "lost"
                ELSE IF /\ ResumedNode(p, n)
                        /\ Disposition(UidFor(p, n)) = "blocked"
                THEN "block" ELSE "checkpoint")
  /\ JobStep /\ UNCHANGED dbVars

Block(p, n) ==
  /\ At(p, n, "block")
  /\ \/ /\ RecordNodeBlocked(p, n, UidFor(p, n))
        /\ Goto(p, n, "blocked")
        /\ JobStep
     \/ /\ ~Holds(p)
        /\ FencedOut(p, n)

Checkpoint(p, n) ==
  /\ At(p, n, "checkpoint")
  /\ \/ /\ Holds(p)
        /\ IF task[n].status \in Writable
           THEN SetRunning(p, n, UidFor(p, n)) /\ Goto(p, n, "plan")
           ELSE Goto(p, n, "raised") /\ UNCHANGED dbVars
        /\ JobStep
     \/ /\ ~Holds(p)
        /\ FencedOut(p, n)

\* The head of _execute_node.  Its reads are one step: what another process
\* could write between two of them it writes as the new owner, and then every
\* later write of this one is fenced out.
Plan(p, n) ==
  LET uid  == UidFor(p, n)
      last == LastAttempt(uid)
      seq  == MaxSeq(uid) + 1
  IN /\ At(p, n, "plan")
     /\ \/ /\ ResumedNode(p, n) /\ Disposition(uid) = "reconstruct"
           /\ job' = [job EXCEPT ![p][n].pc = "commit", ![p][n].result =
                        BuildResult("FAILED", last.class, last.seq,
                                    "stored", "stored")]
        \/ /\ ~(ResumedNode(p, n) /\ Disposition(uid) = "reconstruct")
           /\ IF seq > AttemptCap
              THEN Goto(p, n, "raised")
              ELSE job' = [job EXCEPT ![p][n].pc = "connect",
                                      ![p][n].seq = seq]
     /\ JobStep /\ UNCHANGED dbVars

\* The rate limiter, and after a failed attempt the backoff, let the job go on.
Connect(p, n) ==
  LET uid == UidFor(p, n)  seq == job[p][n].seq
  IN /\ At(p, n, "connect")
     /\ \/ /\ AttemptStart(p, n, uid, seq)
           /\ Goto(p, n, "ssh")
           /\ JobStep
        \/ /\ ~(/\ Holds(p) /\ Checkpointed(n, uid)
                /\ task[n].attemptCount < seq)
           /\ FencedOut(p, n)

\* What execute_script can return: a mapped error, or an exit code with output.
Answer ==
  {[error |-> c, expected |-> FALSE, out |-> "stored", err |-> "stored"] :
     c \in FaultClass}
  \cup [error : {NoError}, expected : BOOLEAN, out : OutputKind,
        err : OutputKind]

AttemptStatus(a) ==
  IF a.error = NoError /\ a.expected THEN "SUCCEEDED" ELSE "FAILED"

AttemptClass(a) ==
  IF a.error = NoError /\ ~a.expected THEN "exec_nonzero" ELSE a.error

\* The session ends and the END of the attempt is recorded; then the loop goes
\* round again or the result is built.
Answered(p, n, a) ==
  LET uid == UidFor(p, n)  seq == job[p][n].seq
      again == a.error # NoError /\ ShouldRetry(a.error, seq)
  IN /\ At(p, n, "ssh")
     /\ \/ /\ AttemptEnd(p, n, uid, seq, AttemptStatus(a), AttemptClass(a))
           /\ IF again
              THEN job' = [job EXCEPT ![p][n].pc = "connect",
                                      ![p][n].seq = seq + 1]
              ELSE job' = [job EXCEPT ![p][n].pc = "commit",
                             ![p][n].result =
                               BuildResult(AttemptStatus(a), AttemptClass(a),
                                           seq, a.out, a.err)]
           /\ JobStep
        \/ /\ ~(/\ Holds(p) /\ Checkpointed(n, uid)
                /\ AttemptOf(p, uid, seq, "RUNNING", NoError) \in attempts)
           /\ FencedOut(p, n)

CommitResult(p, n) ==
  LET uid == UidFor(p, n)
  IN /\ At(p, n, "commit")
     /\ \/ /\ leaseLost[p]
           /\ Goto(p, n, "lost")
           /\ JobStep /\ UNCHANGED dbVars
        \/ /\ ~leaseLost[p] /\ Holds(p)
           /\ IF Committable(n, uid)
              THEN Commit(p, n, uid, job[p][n].result) /\ Goto(p, n, "done")
              ELSE Goto(p, n, "raised") /\ UNCHANGED dbVars
           /\ JobStep
        \/ /\ ~leaseLost[p] /\ ~Holds(p)
           /\ FencedOut(p, n)

\* Any other exception: a database call that fails and rolls back, a result
\* the contract refuses, an SSH step outside the mapped ones.  The siblings
\* run on, since gather collects exceptions.
NodeRaises(p, n) ==
  /\ Faults
  /\ \E pc \in Mid \cup {"connect", "ssh"} : At(p, n, pc)
  /\ Goto(p, n, "raised")
  /\ JobStep /\ UNCHANGED dbVars

------------------------------------------------------------------------------
\* The end of the run.

\* _NodeOutcome: what a node contributes to the summary.
LiveOutcome(p, n) ==
  LET r == job[p][n].result
  IN [node |-> n, status |-> r.status, degraded |-> r.degraded,
      classes |-> ({r.class} \cup r.secondary) \ {NoError}]

\* The secondary_errors in a node's node_finished event.
FinishedData(n) ==
  UNION {nodeEvents[n][i].secondary : i \in Finished(n)}

\* Mutant: only the error of the checkpoint is counted again.
TerminalOutcomePrimary(p, n) ==
  LET classes == {snap[p][n].class} \ {NoError}
  IN [node |-> n, status |-> snap[p][n].status,
      degraded |-> classes \cap DegradingClasses # {}, classes |-> classes]

\* _outcome_from_terminal, for a node of the snapshot that was terminal.
TerminalOutcome(p, n) ==
  LET classes == ({snap[p][n].class} \cup FinishedData(n)) \ {NoError}
  IN [node |-> n, status |-> snap[p][n].status,
      degraded |-> classes \cap DegradingClasses # {}, classes |-> classes]

Completed(p) ==
  {LiveOutcome(p, n) : n \in {m \in Node : job[p][m].pc = "done"}}
  \cup (IF resumed[p]
        THEN {TerminalOutcome(p, n) :
                n \in {m \in Node : snap[p][m].status \in NodeTerminal}}
        ELSE {})

\* _aggregate, _batch_status and build_batch_summary over a set of outcomes.
Aggregate(outcomes) ==
  LET with(status) == {o \in outcomes : o.status = status}
      succeeded == Cardinality(with("SUCCEEDED"))
      failed    == Cardinality(with("FAILED"))
  IN [runStatus   |-> IF \E o \in outcomes : o.degraded
                      THEN "DEGRADED" ELSE "SUCCESS",
      batchStatus |-> IF failed = 0 THEN "success"
                      ELSE IF succeeded = 0 THEN "failed" ELSE "partial",
      targeted    |-> Cardinality(Node),
      succeeded   |-> succeeded,
      failed      |-> failed,
      unknown     |-> Cardinality(outcomes) - succeeded - failed,
      errorCounts |-> [c \in ErrorClass |->
                        Cardinality({o \in outcomes : c \in o.classes})]]

\* Mutant: the exit code only says whether the run itself was trustworthy.
ExitCodeOfRun(s) == IF s.runStatus = "SUCCESS" THEN 0 ELSE 1

ExitCode(s) ==
  IF s.runStatus = "SUCCESS" /\ s.batchStatus = "success" THEN 0 ELSE 1

\* The process is gone: only the tables survive.
Forget(p) ==
  /\ resumed'   = [resumed EXCEPT ![p] = FALSE]
  /\ snap'      = [snap EXCEPT ![p] = [n \in Node |-> NoTask]]
  /\ job'       = [job EXCEPT ![p] = [n \in Node |-> NoJob]]
  /\ leaseLost' = [leaseLost EXCEPT ![p] = FALSE]
  /\ pending'   = [pending EXCEPT ![p] = NoSummary]

Leave(p, code) ==
  /\ phase' = [phase EXCEPT ![p] = "exited"]
  /\ exit'  = [exit EXCEPT ![p] = code]
  /\ Forget(p)

Ended(p, pc) == \E n \in Node : job[p][n].pc = pc

\* Mutant: a blocked node does not keep the run open.
AbandonedLease(p) == leaseLost[p]

\* No authoritative summary can be given.
Abandoned(p) == leaseLost[p] \/ Ended(p, "blocked")

\* gather has every job: an exception ends the command, a lost lease or a
\* blocked node leaves the run RUNNING, and otherwise the summary is built.
Gather(p) ==
  /\ phase[p] = "running"
  /\ \A n \in Node : job[p][n].pc \in Settled
  /\ IF Ended(p, "raised") \/ Abandoned(p)
     THEN Leave(p, 2)
     ELSE /\ pending' = [pending EXCEPT ![p] = Aggregate(Completed(p))]
          /\ phase' = [phase EXCEPT ![p] = "finalizing"]
          /\ UNCHANGED <<resumed, snap, job, leaseLost, exit>>
  /\ UNCHANGED dbVars

Finalize(p) ==
  /\ phase[p] = "finalizing"
  /\ \/ /\ FinalizeRun(p, pending[p])
        /\ Leave(p, ExitCode(pending[p]))
     \/ /\ Faults \/ ~Holds(p)
        /\ Leave(p, 2)
        /\ UNCHANGED dbVars

\* kill -9 between any two steps.
Crash(p) ==
  /\ phase[p] \in {"claimed", "running", "finalizing"}
  /\ phase' = [phase EXCEPT ![p] = "dead"]
  /\ Forget(p)
  /\ UNCHANGED <<dbVars, exit>>

LeaseLapses == Lapse /\ UNCHANGED procVars

NodeStep(p, n) ==
  \/ Acquire(p, n)
  \/ Block(p, n)
  \/ Checkpoint(p, n)
  \/ Plan(p, n)
  \/ Connect(p, n)
  \/ \E a \in Answer : Answered(p, n, a)
  \/ CommitResult(p, n)
  \/ NodeRaises(p, n)

ProcessStep(p) ==
  \/ Start(p)
  \/ Resume(p)
  \/ ReadTasks(p)
  \/ HeartbeatLost(p)
  \/ \E n \in Node : NodeStep(p, n)
  \/ Gather(p)
  \/ Finalize(p)
  \/ Crash(p)

Next == LeaseLapses \/ \E p \in Owner : ProcessStep(p)

Spec == Init /\ [][Next]_vars
==============================================================================
