------------------------- MODULE BatchRunProperties -------------------------
(***************************************************************************)
(* What the processes of BatchRun must never do to the tables, and what    *)
(* they must eventually achieve.                                           *)
(***************************************************************************)
EXTENDS BatchRun

ProcTypeOK ==
  /\ phase \in [Owner -> Phase]
  /\ resumed \in [Owner -> BOOLEAN]
  /\ snap \in [Owner -> [Node -> TaskRow]]
  /\ job \in [Owner -> [Node -> Job]]
  /\ leaseLost \in [Owner -> BOOLEAN]
  /\ pending \in [Owner -> Summary \cup {NoSummary}]
  /\ exit \in [Owner -> {0, 1, 2, NoExit}]

\* The tables hold well-formed rows and the processes well-formed states; in
\* particular no execution is ever tried more than AttemptCap times.
TypeOK == StoreTypeOK /\ ProcTypeOK

\* The attempts of a node are numbered 1, 2, ... up to its checkpoint's
\* attempt_count, one row each, all under the checkpoint's execution_uid:
\* crashes, resumes and a stale owner that is still running never reset,
\* skip, duplicate or fork the ledger (record_attempt, get_attempt_max_seq).
AttemptLedger ==
  \A n \in Node :
    LET rows == {a \in attempts : a.uid \in UidsOf(n)}
    IN /\ {a.seq : a \in rows} = 1..task[n].attemptCount
       /\ \A a \in rows : a.uid = task[n].uid
       /\ \A a, b \in rows : a.seq = b.seq => a = b

\* An attempt follows another one only if the error matrix allows a retry
\* after that error, or if the earlier attempt was cut off by the end of its
\* process before a result was committed: a resume never buys a node more
\* retries than the matrix gives it (_resume_disposition, should_retry).
RetryBudget ==
  \A a, b \in attempts :
    a.uid = b.uid /\ b.seq = a.seq + 1 =>
      \/ a.status = "FAILED" /\ ShouldRetry(a.class, a.seq)
      \/ a.status \in {"RUNNING", "SUCCEEDED"} /\ a.by # b.by

\* A committed result tells what the ledger tells: its attempt_count is the
\* last attempt's number, and its status and primary error are those of that
\* attempt, except that a success whose output was lost is FAILED with
\* blob_write_failed (build_execution_result, _synthesize_exhausted).
ResultMatchesLedger ==
  \A e \in executions :
    LET last == LastAttempt(e.uid)
    IN /\ AttemptsOf(e.uid) # {}
       /\ e.count = last.seq /\ e.count = task[e.node].attemptCount
       /\ \/ last.status = "FAILED" /\ e.status = "FAILED"
               /\ e.class = last.class
          \/ last.status = "SUCCEEDED" /\ e.status = "SUCCEEDED"
               /\ e.class \in DegradingClasses \cup {NoError}
          \/ last.status = "SUCCEEDED" /\ e.status = "FAILED"
               /\ e.class = "blob_write_failed"

\* Replaying the events of a node gives its checkpoint: no state change ever
\* lands without its audit event or the other way round, across owners.
AuditReplay ==
  \A n \in Node :
    LET log == nodeEvents[n]
    IN IF log = <<>>
       THEN task[n].status = "PENDING" /\ task[n].uid = NoUid
       ELSE /\ task[n].status = log[Len(log)].status
            /\ task[n].uid = log[Len(log)].uid

\* No process ever works on a host without a durable RUNNING attempt of its
\* own, and while it still owns the lease the node's checkpoint mirrors that
\* attempt, so that a kill at this moment is seen by the next owner.
SessionOnRecord ==
  \A p \in Owner, n \in Node :
    job[p][n].pc = "ssh" =>
      /\ AttemptOf(p, UidFor(p, n), job[p][n].seq, "RUNNING", NoError)
           \in attempts
      /\ Holds(p) => /\ Checkpointed(n, UidFor(p, n))
                     /\ task[n].attemptCount = job[p][n].seq

\* Without faults, an owner whose lease is live is never stopped by any of
\* the refusals: no WFTLeaseLostError, no cap guard, no illegal transition, no
\* replay conflict.  Every refusal in the code hits a stale process only.
LiveOwnerUndisturbed ==
  ~Faults => \A p \in Owner : Holds(p) =>
    /\ ~leaseLost[p]
    /\ \A n \in Node : job[p][n].pc \notin {"lost", "cancelled", "raised"}

BlockedNode(n) == \E i \in DOMAIN nodeEvents[n] :
                    nodeEvents[n][i].type = "checkpoint_blocked"

\* Once a node is reported blocked, nothing decides it behind the operator's
\* back: it stays UNKNOWN with its attempts used up, and the run stays RUNNING.
BlockedStaysOpen ==
  \A n \in Node : BlockedNode(n) =>
    /\ task[n].status = "UNKNOWN"
    /\ task[n].attemptCount = AttemptCap
    /\ runStatus = "RUNNING"

\* An exit code other than 2 is given once, by the process that finalized the
\* run, and 0 only if every node has succeeded with nothing to report.
ExitTruthful ==
  /\ \A p, q \in Owner :
       exit[p] \in {0, 1} /\ exit[q] \in {0, 1} => p = q
  /\ \A p \in Owner :
       /\ exit[p] \in {0, 1} => runStatus \in RunTerminal
       /\ exit[p] = 0 => \A e \in executions : e.status = "SUCCEEDED"
                                            /\ e.class = NoError
       /\ exit[p] = 0 => \A n \in Node : \E e \in executions : e.node = n

\* What is written stays written: a node keeps its first execution_uid, its
\* attempt_count never decreases, and ended attempts, executions and terminal
\* checkpoints are never changed or removed, whoever owns the run.
HistoryKept ==
  [][ /\ executions \subseteq executions'
      /\ {a \in attempts : a.status # "RUNNING"} \subseteq attempts'
      /\ \A n \in Node :
           /\ task[n].uid # NoUid => task'[n].uid = task[n].uid
           /\ task[n].attemptCount <= task'[n].attemptCount
           /\ task[n].status \in NodeTerminal => task'[n] = task[n]
    ]_vars

------------------------------------------------------------------------------
\* The run implements its contract.

\* The verdict of a node is its committed execution with the classes of its
\* node_finished event.
VerdictOf(n) ==
  IF \E e \in executions : e.node = n
  THEN LET e == CHOOSE x \in executions : x.node = n
       IN [status  |-> e.status,
           classes |-> ({e.class} \cup FinishedData(n)) \ {NoError}]
  ELSE [status |-> "UNDECIDED", classes |-> {}]

Contract == INSTANCE RunContract WITH
              NoReport <- NoSummary,
              verdict  <- [n \in Node |-> VerdictOf(n)],
              report   <- summary

\* The run publishes at most one summary, after every node has its one result,
\* and the summary is the tally of those results, whether a node was committed
\* by the process that finalizes or by one that died before.
ImplementsContract == Contract!Spec

Life == INSTANCE RunLife WITH
          status <- runStatus,
          owner  <- leaseOwner,
          live   <- leaseLive,
          exit   <- IF summary = NoSummary THEN 99 ELSE ExitCode(summary)

\* To the commands around it, a run is created, started once, taken over only
\* when its lease has lapsed, and ended once by a live owner with the exit code
\* that its summary implies.
ImplementsLife == Life!Spec

------------------------------------------------------------------------------
\* Liveness.

\* The steps a live process keeps taking.  SSH sessions end: connect and exec
\* have timeouts; that upload and verification end is assumed.
Progress(p) ==
  \/ ReadTasks(p)
  \/ \E n \in Node :
       \/ Acquire(p, n) \/ Block(p, n) \/ Checkpoint(p, n) \/ Plan(p, n)
       \/ Connect(p, n) \/ CommitResult(p, n)
       \/ \E a \in Answer : Answered(p, n, a)
  \/ Gather(p)
  \/ Finalize(p)

\* A lease that nobody renews any more lapses.
LapsesUnrenewed ==
  /\ \A p \in Owner : leaseOwner = p => phase[p] \in {"exited", "dead"}
  /\ LeaseLapses

\* Operators start the run and, as long as it is stale, resume it.
FairSpec ==
  /\ Spec
  /\ \A p \in Owner : WF_vars(Progress(p)) /\ WF_vars(Start(p))
                        /\ WF_vars(Resume(p))
  /\ WF_vars(LapsesUnrenewed)

\* Every process that has claimed the run ends: no interleaving of awaits,
\* permits, cancellations and fenced writes leaves a job waiting for ever.
ProcessEnds ==
  \A p \in Owner : phase[p] = "claimed" ~> phase[p] \in {"exited", "dead"}

\* Somebody works on the run for p.
Working(p) == phase[p] \in {"claimed", "running", "finalizing"}

\* Whatever mixture of checkpoints, attempts and commits the earlier owners
\* left behind, an owner that is not killed and whose lease does not lapse
\* while it works brings the run to its summary, unless a node is blocked:
\* no leftover state makes a start or a resume give up.
UndisturbedOwnerFinishes ==
  \A p \in Owner :
    phase[p] = "claimed" /\ Holds(p) ~>
      \/ runStatus \in RunTerminal
      \/ \E n \in Node : BlockedNode(n)
      \/ phase[p] = "dead"
      \/ Working(p) /\ ~Holds(p)

\* A RUNNING run whose owner is gone does not stay with that owner while an
\* operator is there to resume it.
StaleRunReclaimed ==
  \A p, q \in Owner :
    /\ runStatus = "RUNNING" /\ leaseOwner = p
    /\ ~Working(p) /\ phase[q] = "idle"
    ~> leaseOwner # p

\* run.py and store.py say that a blocked node's last attempt "has no outcome
\* (interrupted by the crash)".
BlockedOnlyInterrupted ==
  \A n \in Node : BlockedNode(n) =>
    LastAttempt(task[n].uid).status = "RUNNING"
==============================================================================
