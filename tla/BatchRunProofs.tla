--------------------------- MODULE BatchRunProofs ---------------------------
(***************************************************************************)
(* Proofs about execute_run for any number of processes and nodes, any     *)
(* concurrency, and any errors, outputs and faults.  The processes keep    *)
(* well-formed states and write to the tables through the transactions of  *)
(* the Store only, so that every invariant of RunStore holds of a run.     *)
(***************************************************************************)
EXTENDS BatchRunProperties, RunStoreProofs, FiniteSetTheorems

\* A job that is about to open a session, or has one, has numbered its attempt.
Ready(j) == j.pc \in {"connect", "ssh"} => j.seq # 0

GoodJob == {j \in Job : Ready(j)}

SnapUidsBelong ==
  \A p \in Owner, n \in Node : snap[p][n].uid \in UidsOf(n) \cup {NoUid}

JobsReady == job \in [Owner -> [Node -> GoodJob]]

SummaryPending ==
  \A p \in Owner : phase[p] = "finalizing" => pending[p] \in Summary

ProcInv == ProcTypeOK /\ SnapUidsBelong /\ JobsReady /\ SummaryPending

BatchInv == StoreTypeOK /\ UidsBelong /\ ProcInv

------------------------------------------------------------------------------
\* What the helpers return.

\* UidFor: the uid a process uses for a node is one minted for that node.
LEMMA UidForBelongs ==
  ASSUME SnapUidsBelong, NEW p \in Owner, NEW n \in Node
  PROVE  UidFor(p, n) \in UidsOf(n)
BY DEF UidFor, SnapUidsBelong, UidsOf

\* get_attempt_max_seq and get_last_attempt: a number within the cap, and the
\* attempt with that number.
LEMMA LastAttemptExists ==
  ASSUME StoreTypeOK, NEW uid
  PROVE  /\ MaxSeq(uid) \in 0..AttemptCap
         /\ AttemptsOf(uid) # {} => /\ LastAttempt(uid) \in attempts
                                    /\ LastAttempt(uid).seq = MaxSeq(uid)
<1> DEFINE seqs == {a.seq : a \in AttemptsOf(uid)}
<1>1. AttemptsOf(uid) \subseteq attempts /\ seqs \subseteq {1, 2, 3}
  BY DEF AttemptsOf, StoreTypeOK, AttemptRow, AttemptCap
<1>2. CASE AttemptsOf(uid) = {}
  <2>1. MaxSeq(uid) = 0
    BY <1>2 DEF MaxSeq
  <2> QED
    BY <1>2, <2>1 DEF AttemptCap
<1>3. CASE AttemptsOf(uid) # {}
  <2>1. seqs # {}
    BY <1>3
  <2>2. MaxSeq(uid) = CHOOSE k \in seqs : \A j \in seqs : j <= k
    BY <2>1 DEF MaxSeq
  <2> HIDE DEF seqs
  <2>3. \E k \in seqs : \A j \in seqs : j <= k
    <3> USE <1>1
    <3>1. CASE 3 \in seqs
      <4>1. \A j \in seqs : j <= 3
        OBVIOUS
      <4> QED
        BY <3>1, <4>1
    <3>2. CASE 3 \notin seqs /\ 2 \in seqs
      <4>1. \A j \in seqs : j <= 2
        BY <3>2
      <4> QED
        BY <3>2, <4>1
    <3>3. CASE 3 \notin seqs /\ 2 \notin seqs
      <4>1. seqs = {1}
        BY <2>1, <3>3
      <4> QED
        BY <4>1
    <3> QED
      BY <3>1, <3>2, <3>3
  <2>4. MaxSeq(uid) \in seqs
    BY <2>2, <2>3
  <2>5. PICK a \in AttemptsOf(uid) : a.seq = MaxSeq(uid)
    BY <2>4 DEF seqs
  <2>6. /\ LastAttempt(uid) \in AttemptsOf(uid)
        /\ LastAttempt(uid).seq = MaxSeq(uid)
    BY <2>5 DEF LastAttempt
  <2>7. MaxSeq(uid) \in 0..AttemptCap
    <3>1. MaxSeq(uid) \in {1, 2, 3}
      BY <1>1, <2>4
    <3> QED
      BY <3>1 DEF AttemptCap
  <2> QED
    BY <1>1, <2>6, <2>7
<1> QED
  BY <1>2, <1>3

\* build_execution_result always returns a well-formed result.
LEMMA BuildResultType ==
  ASSUME NEW status \in NodeTerminal, NEW class \in MaybeError,
         NEW seq \in 1..AttemptCap, NEW out \in StreamKind,
         NEW err \in StreamKind
  PROVE  BuildResult(status, class, seq, out, err) \in Result
<1>1. /\ "blob_write_failed" \in ErrorClass
      /\ "output_decode_failed" \in ErrorClass
  BY DEF ErrorClass, Resource, Data
<1>2. Secondary(class, out, err) \subseteq ErrorClass
  BY <1>1 DEF Secondary
<1>3. Primary(class, out, err) \in MaybeError
  BY <1>1 DEF Primary, MaybeError
<1>4. (IF "lost" \in {out, err} THEN "FAILED" ELSE status)
        \in {"SUCCEEDED", "FAILED"}
  BY DEF NodeTerminal
<1> QED
  BY <1>2, <1>3, <1>4 DEF BuildResult, Result

\* should_retry never lets an attempt pass the Contract-03 cap.
LEMMA RetryWithinCap ==
  ASSUME NEW class, NEW seq \in 1..AttemptCap, ShouldRetry(class, seq)
  PROVE  seq + 1 \in 1..AttemptCap
<1>1. MaxAttempts(class) \in {1, 2, 3}
  BY DEF MaxAttempts
<1> QED
  BY <1>1 DEF ShouldRetry, AttemptCap

\* What ends a session is a mapped error or an exit code: its status and its
\* error fit the attempts table.
LEMMA AnswerType ==
  ASSUME NEW a \in Answer
  PROVE  /\ AttemptStatus(a) \in NodeTerminal
         /\ AttemptClass(a) \in MaybeError
         /\ a.out \in StreamKind /\ a.err \in StreamKind
<1>1. PICK c \in FaultClass \cup {NoError}, x \in BOOLEAN,
           out \in StreamKind, err \in StreamKind :
        a = [error |-> c, expected |-> x, out |-> out, err |-> err]
  <2>1. CASE a \in [error : {NoError}, expected : BOOLEAN, out : OutputKind,
                    err : OutputKind]
    BY <2>1, BatchAssumption
  <2>2. CASE a \in {[error |-> c, expected |-> FALSE, out |-> "stored",
                     err |-> "stored"] : c \in FaultClass}
    BY <2>2 DEF StreamKind
  <2> QED
    BY <2>1, <2>2 DEF Answer
<1>2. FaultClass \cup {NoError} \subseteq MaybeError
  BY BatchAssumption DEF MaybeError
<1>3. "exec_nonzero" \in MaybeError
  BY DEF MaybeError, ErrorClass, Permanent
<1>4. AttemptClass(a) \in MaybeError
  BY <1>1, <1>2, <1>3 DEF AttemptClass
<1>5. AttemptStatus(a) \in NodeTerminal
  BY DEF AttemptStatus, NodeTerminal
<1> QED
  BY <1>1, <1>4, <1>5

\* Every node contributes at most one outcome, so there are finitely many.
LEMMA CompletedFinite ==
  ASSUME NEW p \in Owner
  PROVE  IsFiniteSet(Completed(p))
<1> DEFINE live == {LiveOutcome(p, n) : n \in {m \in Node :
                                                 job[p][m].pc = "done"}}
           old  == {TerminalOutcome(p, n) : n \in {m \in Node :
                                    snap[p][m].status \in NodeTerminal}}
<1>1. \A S \in SUBSET Node : IsFiniteSet(S)
  BY StoreAssumption, FS_Subset
<1>2. IsFiniteSet(live)
  <2> DEFINE N == {m \in Node : job[p][m].pc = "done"}
             f == [n \in N |-> LiveOutcome(p, n)]
  <2>1. IsFiniteSet(N)
    BY <1>1
  <2>2. f \in Surjection(N, live)
    BY DEF Surjection
  <2> QED
    BY <2>1, <2>2, FS_Surjection
<1>3. IsFiniteSet(old)
  <2> DEFINE N == {m \in Node : snap[p][m].status \in NodeTerminal}
             f == [n \in N |-> TerminalOutcome(p, n)]
  <2>1. IsFiniteSet(N)
    BY <1>1
  <2>2. f \in Surjection(N, old)
    BY DEF Surjection
  <2> QED
    BY <2>1, <2>2, FS_Surjection
<1>4. IsFiniteSet(live \cup old) /\ IsFiniteSet(live \cup {})
  BY <1>2, <1>3, FS_Union, FS_EmptySet
<1> QED
  BY <1>4 DEF Completed

\* _aggregate, _batch_status and build_batch_summary build a well-formed
\* Contract-05 payload from any outcomes.
LEMMA AggregateType ==
  ASSUME NEW outcomes, IsFiniteSet(outcomes)
  PROVE  Aggregate(outcomes) \in Summary
<1> DEFINE ok  == {o \in outcomes : o.status = "SUCCEEDED"}
           bad == {o \in outcomes : o.status = "FAILED"}
<1>1. /\ Cardinality(outcomes) \in Nat
      /\ Cardinality(ok) \in Nat /\ Cardinality(bad) \in Nat
      /\ IsFiniteSet(ok) /\ IsFiniteSet(bad)
  BY FS_Subset, FS_CardinalityType
<1>2. ok \cap bad = {} /\ ok \cup bad \subseteq outcomes
  OBVIOUS
<1> HIDE DEF ok, bad
<1>3. Cardinality(outcomes) - Cardinality(ok) - Cardinality(bad) \in Nat
  <2>1. Cardinality(ok \cup bad) = Cardinality(ok) + Cardinality(bad)
    <3>1. Cardinality(ok \cap bad) = 0
      BY <1>2, FS_EmptySet
    <3>2. Cardinality(ok \cup bad) =
            Cardinality(ok) + Cardinality(bad) - Cardinality(ok \cap bad)
      BY <1>1, FS_Union
    <3> QED
      BY <1>1, <3>1, <3>2
  <2>2. Cardinality(ok \cup bad) <= Cardinality(outcomes)
    BY <1>2, FS_Subset
  <2> QED
    BY <1>1, <2>1, <2>2
<1>4. \A c \in ErrorClass :
        Cardinality({o \in outcomes : c \in o.classes}) \in Nat
  BY FS_Subset, FS_CardinalityType
<1>5. Cardinality(Node) \in Nat
  BY StoreAssumption, FS_CardinalityType
<1> QED
  <2>1. Aggregate(outcomes) =
          [runStatus   |-> IF \E o \in outcomes : o.degraded
                           THEN "DEGRADED" ELSE "SUCCESS",
           batchStatus |-> IF Cardinality(bad) = 0 THEN "success"
                           ELSE IF Cardinality(ok) = 0 THEN "failed"
                           ELSE "partial",
           targeted    |-> Cardinality(Node),
           succeeded   |-> Cardinality(ok),
           failed      |-> Cardinality(bad),
           unknown     |-> Cardinality(outcomes) - Cardinality(ok)
                             - Cardinality(bad),
           errorCounts |-> [c \in ErrorClass |->
                        Cardinality({o \in outcomes : c \in o.classes})]]
    BY DEF Aggregate, ok, bad
  <2> QED
    BY <1>1, <1>3, <1>4, <1>5, <2>1 DEF Summary, RunTerminal

------------------------------------------------------------------------------
\* The processes go through the Store.

\* A job that is at connect or ssh carries the number of an attempt.
LEMMA NumberedJob ==
  ASSUME JobsReady, NEW p \in Owner, NEW n \in Node
  PROVE  /\ job[p][n] \in Job
         /\ job[p][n].result \in Result
         /\ job[p][n].seq \in 0..AttemptCap
         /\ job[p][n].pc \in {"connect", "ssh"} =>
              job[p][n].seq \in 1..AttemptCap
<1>1. job[p][n] \in Job /\ Ready(job[p][n])
  BY DEF JobsReady, GoodJob
<1> QED
  BY <1>1 DEF Job, Ready, AttemptCap

\* Whatever a process does, it changes the tables by one fenced transaction
\* with well-formed arguments, or not at all.
LEMMA StoreStep == BatchInv /\ [Next]_vars => [StoreNext]_dbVars
<1> SUFFICES ASSUME BatchInv, [Next]_vars
             PROVE  StoreNext \/ UNCHANGED dbVars
  OBVIOUS
<1> USE DEF BatchInv, ProcInv
<1>1. CASE LeaseLapses
  BY <1>1 DEF LeaseLapses, StoreNext
<1>2. ASSUME NEW p \in Owner, Start(p) \/ Resume(p)
      PROVE  StoreNext
  BY <1>2 DEF Start, Resume, StoreNext
<1>3. ASSUME NEW p \in Owner,
             ReadTasks(p) \/ HeartbeatLost(p) \/ Gather(p) \/ Crash(p)
      PROVE  UNCHANGED dbVars
  BY <1>3 DEF ReadTasks, HeartbeatLost, LoseLease, Gather, Crash
<1>4. ASSUME NEW p \in Owner, Finalize(p) PROVE StoreNext \/ UNCHANGED dbVars
  <2>1. pending[p] \in Summary
    BY <1>4 DEF Finalize, SummaryPending
  <2> QED
    BY <1>4, <2>1 DEF Finalize, StoreNext
<1>5. ASSUME NEW p \in Owner, NEW n \in Node, NodeStep(p, n)
      PROVE  NodeWrite(p, n) \/ UNCHANGED dbVars
  <2> DEFINE uid == UidFor(p, n)
  <2>1. uid \in UidsOf(n)
    BY UidForBelongs
  <2> HIDE DEF uid
  <2>2. CASE Acquire(p, n) \/ Plan(p, n) \/ NodeRaises(p, n)
    BY <2>2 DEF Acquire, Plan, NodeRaises
  <2>3. CASE Block(p, n)
    BY <2>1, <2>3 DEF Block, FencedOut, LoseLease, NodeWrite, uid
  <2>4. CASE Checkpoint(p, n)
    BY <2>1, <2>4 DEF Checkpoint, FencedOut, LoseLease, NodeWrite, uid
  <2>5. CASE Connect(p, n)
    <3>1. job[p][n].seq \in 1..AttemptCap
      BY <2>5, NumberedJob DEF Connect, At
    <3> QED
      BY <2>1, <2>5, <3>1 DEF Connect, FencedOut, LoseLease, NodeWrite, uid
  <2>6. ASSUME NEW a \in Answer, Answered(p, n, a)
        PROVE  NodeWrite(p, n) \/ UNCHANGED dbVars
    <3>1. job[p][n].seq \in 1..AttemptCap
      BY <2>6, NumberedJob DEF Answered, At
    <3>2. AttemptStatus(a) \in NodeTerminal /\ AttemptClass(a) \in MaybeError
      BY AnswerType
    <3>3. \/ AttemptEnd(p, n, uid, job[p][n].seq, AttemptStatus(a),
                        AttemptClass(a))
          \/ UNCHANGED dbVars
      BY <2>6 DEF Answered, FencedOut, LoseLease, uid
    <3> QED
      BY <2>1, <3>1, <3>2, <3>3 DEF NodeWrite
  <2>7. CASE CommitResult(p, n)
    <3>1. job[p][n].result \in Result
      BY NumberedJob
    <3>2. \/ Commit(p, n, uid, job[p][n].result)
          \/ UNCHANGED dbVars
      BY <2>7 DEF CommitResult, FencedOut, LoseLease, uid
    <3> QED
      BY <2>1, <3>1, <3>2 DEF NodeWrite
  <2> QED
    BY <1>5, <2>2, <2>3, <2>4, <2>5, <2>6, <2>7 DEF NodeStep
<1>6. CASE UNCHANGED vars
  BY <1>6 DEF vars
<1> QED
  BY <1>1, <1>2, <1>3, <1>4, <1>5, <1>6 DEF Next, ProcessStep, StoreNext

------------------------------------------------------------------------------
\* The processes keep well-formed states.

\* A job may go to any pc, to connect and ssh only with an attempt number.
LEMMA GotoKeeps ==
  ASSUME JobsReady, NEW p \in Owner, NEW n \in Node,
         NEW pc \in Mid \cup Awaits \cup Settled,
         pc \in {"connect", "ssh"} => job[p][n].seq # 0,
         Goto(p, n, pc)
  PROVE  JobsReady'
<1> DEFINE j == [job[p][n] EXCEPT !.pc = pc]
<1>1. job[p][n] \in Job
  BY NumberedJob
<1>2. j \in Job /\ j.pc = pc /\ j.seq = job[p][n].seq
  BY <1>1 DEF Job
<1>3. j \in GoodJob
  BY <1>2 DEF GoodJob, Ready
<1>4. job' = [job EXCEPT ![p][n] = j]
  BY DEF Goto
<1> QED
  BY <1>3, <1>4 DEF JobsReady

\* A job that goes for its next attempt has numbered it.
LEMMA NextAttemptKeeps ==
  ASSUME JobsReady, NEW p \in Owner, NEW n \in Node, NEW k \in 1..AttemptCap,
         job' = [job EXCEPT ![p][n].pc = "connect", ![p][n].seq = k]
  PROVE  JobsReady'
<1> DEFINE j == [job[p][n] EXCEPT !.pc = "connect", !.seq = k]
<1>1. k \in 0..AttemptCap /\ k # 0
  BY DEF AttemptCap
<1>2. job[p][n] \in Job
  BY NumberedJob
<1>3. j \in Job /\ j.seq = k
  BY <1>1, <1>2 DEF Job, Awaits
<1>4. j \in GoodJob
  BY <1>1, <1>3 DEF GoodJob, Ready
<1> QED
  BY <1>4 DEF JobsReady

\* A job that goes to commit carries a well-formed result.
LEMMA ToCommitKeeps ==
  ASSUME JobsReady, NEW p \in Owner, NEW n \in Node, NEW r \in Result,
         job' = [job EXCEPT ![p][n].pc = "commit", ![p][n].result = r]
  PROVE  JobsReady'
<1> DEFINE j == [job[p][n] EXCEPT !.pc = "commit", !.result = r]
<1>1. j \in GoodJob
  BY NumberedJob DEF GoodJob, Job, Ready, Mid
<1> QED
  BY <1>1 DEF JobsReady

\* A step of one job keeps the rest of its process.
LEMMA JobStepKeeps ==
  ASSUME ProcInv, JobStep, JobsReady'
  PROVE  ProcInv'
<1>1. job' \in [Owner -> [Node -> Job]]
  BY DEF JobsReady, GoodJob
<1> QED
  BY <1>1 DEF ProcInv, ProcTypeOK, JobStep, SnapUidsBelong, SummaryPending

\* Cancelling jobs leaves well-formed jobs.
LEMMA CancelledGood ==
  ASSUME NEW jobs \in [Node -> GoodJob], NEW late
  PROVE  Cancelled(jobs, late) \in [Node -> GoodJob]
<1> SUFFICES ASSUME NEW n \in Node
             PROVE  Cancelled(jobs, late)[n] \in GoodJob
  BY DEF Cancelled
<1>1. jobs[n] \in GoodJob
  OBVIOUS
<1>2. [jobs[n] EXCEPT !.pc = "cancelled"] \in GoodJob
  BY <1>1 DEF GoodJob, Ready, Job, Settled
<1> QED
  BY <1>1, <1>2 DEF Cancelled

\* Losing the lease leaves a well-formed process.
LEMMA LoseLeaseKeeps ==
  ASSUME ProcInv, NEW p \in Owner, NEW jobs \in [Node -> GoodJob],
         LoseLease(p, jobs)
  PROVE  ProcInv'
<1>1. PICK late : job' = [job EXCEPT ![p] = Cancelled(jobs, late)]
  BY DEF LoseLease
<1>2. JobsReady'
  BY <1>1, CancelledGood DEF ProcInv, JobsReady
<1>3. job' \in [Owner -> [Node -> Job]]
  BY <1>2 DEF JobsReady, GoodJob
<1>4. leaseLost' \in [Owner -> BOOLEAN]
  BY DEF LoseLease, ProcInv, ProcTypeOK
<1> QED
  BY <1>2, <1>3, <1>4
     DEF LoseLease, ProcInv, ProcTypeOK, SnapUidsBelong, SummaryPending

\* So does losing it in a write of a job.
LEMMA FencedOutKeeps ==
  ASSUME ProcInv, NEW p \in Owner, NEW n \in Node, FencedOut(p, n)
  PROVE  ProcInv'
<1>1. job[p] \in [Node -> GoodJob] /\ job[p][n] \in GoodJob
  BY DEF ProcInv, JobsReady
<1>2. [job[p][n] EXCEPT !.pc = "lost"] \in GoodJob
  BY <1>1 DEF GoodJob, Ready, Job, Settled
<1>3. [job[p] EXCEPT ![n].pc = "lost"] \in [Node -> GoodJob]
  BY <1>1, <1>2
<1> QED
  BY <1>3, LoseLeaseKeeps DEF FencedOut

\* A process that is gone keeps nothing but its exit code.
LEMMA ForgetKeeps ==
  ASSUME ProcInv, NEW p \in Owner, Forget(p),
         phase' = [phase EXCEPT ![p] = "exited"]
           \/ phase' = [phase EXCEPT ![p] = "dead"],
         exit' \in [Owner -> {0, 1, 2, NoExit}]
  PROVE  ProcInv'
<1> USE DEF ProcInv, ProcTypeOK, Forget
<1>1. phase' \in [Owner -> Phase]
  BY DEF Phase
<1>2. resumed' \in [Owner -> BOOLEAN] /\ leaseLost' \in [Owner -> BOOLEAN]
  OBVIOUS
<1>3. NoTask \in TaskRow /\ NoTask.uid = NoUid
  BY DEF NoTask, TaskRow, Writable, MaybeError, AttemptCap
<1>4. snap' \in [Owner -> [Node -> TaskRow]] /\ SnapUidsBelong'
  BY <1>3 DEF SnapUidsBelong
<1>5. NoJob \in GoodJob
  <2>1. NoResult \in Result
    BY DEF NoResult, Result, AttemptCap, MaybeError
  <2> QED
    BY <2>1 DEF NoJob, GoodJob, Job, Ready, Settled, AttemptCap
<1>6. JobsReady' /\ job' \in [Owner -> [Node -> Job]]
  BY <1>5 DEF JobsReady, GoodJob
<1>7. pending' \in [Owner -> Summary \cup {NoSummary}]
  OBVIOUS
<1>8. SummaryPending'
  BY DEF SummaryPending
<1> QED
  BY <1>1, <1>2, <1>4, <1>6, <1>7, <1>8

\* Every segment of run_one keeps its process well formed.
LEMMA NodeStepKeeps ==
  ASSUME StoreTypeOK, ProcInv, NEW p \in Owner, NEW n \in Node, NodeStep(p, n)
  PROVE  ProcInv'
<1> USE DEF ProcInv
<1>1. CASE Acquire(p, n)
  <2>1. JobsReady'
    BY <1>1, GotoKeeps DEF Acquire, Mid, Settled
  <2> QED
    BY <1>1, <2>1, JobStepKeeps DEF Acquire
<1>2. CASE Block(p, n)
  <2>1. CASE Goto(p, n, "blocked") /\ JobStep
    BY <2>1, GotoKeeps, JobStepKeeps DEF Settled
  <2> QED
    BY <1>2, <2>1, FencedOutKeeps DEF Block
<1>3. CASE Checkpoint(p, n)
  <2>1. CASE (Goto(p, n, "plan") \/ Goto(p, n, "raised")) /\ JobStep
    BY <2>1, GotoKeeps, JobStepKeeps DEF Mid, Settled
  <2> QED
    BY <1>3, <2>1, FencedOutKeeps DEF Checkpoint
<1>4. CASE Plan(p, n)
  <2> DEFINE uid  == UidFor(p, n)
             last == LastAttempt(uid)
             seq  == MaxSeq(uid) + 1
  <2>1. JobStep
    BY <1>4 DEF Plan
  <2>2. CASE Goto(p, n, "raised")
    BY <2>1, <2>2, GotoKeeps, JobStepKeeps DEF Settled
  <2>3. ASSUME Disposition(uid) = "reconstruct",
               job' = [job EXCEPT ![p][n].pc = "commit", ![p][n].result =
                         BuildResult("FAILED", last.class, last.seq,
                                     "stored", "stored")]
        PROVE  ProcInv'
    <3>1. AttemptsOf(uid) # {}
      BY <2>3 DEF Disposition
    <3>2. last \in AttemptRow
      BY <3>1, LastAttemptExists DEF StoreTypeOK
    <3>3. last.class \in MaybeError /\ last.seq \in 1..AttemptCap
      BY <3>2 DEF AttemptRow
    <3>4. BuildResult("FAILED", last.class, last.seq, "stored", "stored")
            \in Result
      BY <3>3, BuildResultType DEF NodeTerminal, StreamKind
    <3>5. JobsReady'
      BY <2>3, <3>4, ToCommitKeeps
    <3> QED
      BY <2>1, <3>5, JobStepKeeps
  <2>4. ASSUME ~(seq > AttemptCap),
               job' = [job EXCEPT ![p][n].pc = "connect", ![p][n].seq = seq]
        PROVE  ProcInv'
    <3>1. seq \in 1..AttemptCap
      BY <2>4, LastAttemptExists DEF AttemptCap
    <3>2. JobsReady'
      BY <2>4, <3>1, NextAttemptKeeps
    <3> QED
      BY <2>1, <3>2, JobStepKeeps
  <2> QED
    BY <1>4, <2>2, <2>3, <2>4 DEF Plan
<1>5. CASE Connect(p, n)
  <2>1. job[p][n].seq # 0
    BY <1>5, NumberedJob DEF Connect, At, AttemptCap
  <2>2. CASE Goto(p, n, "ssh") /\ JobStep
    BY <2>1, <2>2, GotoKeeps, JobStepKeeps DEF Awaits
  <2> QED
    BY <1>5, <2>2, FencedOutKeeps DEF Connect
<1>6. ASSUME NEW a \in Answer, Answered(p, n, a) PROVE ProcInv'
  <2> DEFINE seq == job[p][n].seq
  <2>1. seq \in 1..AttemptCap
    BY <1>6, NumberedJob DEF Answered, At
  <2>2. ASSUME ShouldRetry(a.error, seq), JobStep,
               job' = [job EXCEPT ![p][n].pc = "connect",
                                  ![p][n].seq = seq + 1]
        PROVE  ProcInv'
    <3>1. seq + 1 \in 1..AttemptCap
      BY <2>1, <2>2, RetryWithinCap
    <3>2. JobsReady'
      BY <2>2, <3>1, NextAttemptKeeps
    <3> QED
      BY <2>2, <3>2, JobStepKeeps
  <2>3. ASSUME JobStep,
               job' = [job EXCEPT ![p][n].pc = "commit", ![p][n].result =
                         BuildResult(AttemptStatus(a), AttemptClass(a), seq,
                                     a.out, a.err)]
        PROVE  ProcInv'
    <3>1. BuildResult(AttemptStatus(a), AttemptClass(a), seq, a.out, a.err)
            \in Result
      BY <2>1, AnswerType, BuildResultType
    <3>2. JobsReady'
      BY <2>3, <3>1, ToCommitKeeps
    <3> QED
      BY <2>3, <3>2, JobStepKeeps
  <2> QED
    BY <1>6, <2>2, <2>3, FencedOutKeeps DEF Answered
<1>7. CASE CommitResult(p, n)
  <2>1. CASE /\ \E pc \in {"lost", "done", "raised"} : Goto(p, n, pc)
             /\ JobStep
    BY <2>1, GotoKeeps, JobStepKeeps DEF Settled
  <2> QED
    BY <1>7, <2>1, FencedOutKeeps DEF CommitResult
<1>8. CASE NodeRaises(p, n)
  BY <1>8, GotoKeeps, JobStepKeeps DEF NodeRaises, Settled
<1> QED
  BY <1>1, <1>2, <1>3, <1>4, <1>5, <1>6, <1>7, <1>8 DEF NodeStep

\* Every step of a run keeps all processes well formed.
LEMMA ProcStep ==
  StoreTypeOK /\ UidsBelong /\ ProcInv /\ [Next]_vars => ProcInv'
<1> SUFFICES ASSUME StoreTypeOK, UidsBelong, ProcInv, [Next]_vars
             PROVE  ProcInv'
  OBVIOUS
<1> USE DEF ProcInv
<1>1. CASE LeaseLapses \/ UNCHANGED vars
  BY <1>1 DEF LeaseLapses, vars, procVars, ProcTypeOK, SnapUidsBelong,
              JobsReady, SummaryPending
<1>2. ASSUME NEW p \in Owner, Start(p) \/ Resume(p) PROVE ProcInv'
  <2>1. /\ phase' = [phase EXCEPT ![p] = "claimed"]
        /\ resumed' = resumed \/ resumed' = [resumed EXCEPT ![p] = TRUE]
        /\ UNCHANGED <<snap, job, leaseLost, pending, exit>>
    BY <1>2 DEF Start, Resume
  <2>2. phase' \in [Owner -> Phase] /\ resumed' \in [Owner -> BOOLEAN]
    BY <2>1 DEF ProcTypeOK, Phase
  <2>3. SummaryPending'
    BY <2>1 DEF SummaryPending, ProcTypeOK
  <2> QED
    BY <2>1, <2>2, <2>3 DEF ProcTypeOK, SnapUidsBelong, JobsReady
<1>3. ASSUME NEW p \in Owner, ReadTasks(p) PROVE ProcInv'
  <2>1. /\ phase' = [phase EXCEPT ![p] = "running"]
        /\ snap' = [snap EXCEPT ![p] = task]
        /\ UNCHANGED <<resumed, leaseLost, pending, exit>>
    BY <1>3 DEF ReadTasks
  <2>2. NoJob \in GoodJob /\ [NoJob EXCEPT !.pc = "queued"] \in GoodJob
    <3>1. NoResult \in Result
      BY DEF NoResult, Result, AttemptCap, MaybeError
    <3> QED
      BY <3>1 DEF NoJob, GoodJob, Job, Ready, Settled, Awaits, AttemptCap
  <2>3. JobsReady'
    BY <1>3, <2>2 DEF ReadTasks, JobsReady
  <2>4. job' \in [Owner -> [Node -> Job]]
    BY <2>3 DEF JobsReady, GoodJob
  <2>5. phase' \in [Owner -> Phase]
    BY <2>1 DEF ProcTypeOK, Phase
  <2>6. snap' \in [Owner -> [Node -> TaskRow]] /\ SnapUidsBelong'
    BY <2>1 DEF ProcTypeOK, StoreTypeOK, SnapUidsBelong, UidsBelong
  <2>7. SummaryPending'
    BY <2>1 DEF SummaryPending, ProcTypeOK
  <2> QED
    BY <2>1, <2>3, <2>4, <2>5, <2>6, <2>7 DEF ProcTypeOK
<1>4. ASSUME NEW p \in Owner, HeartbeatLost(p) PROVE ProcInv'
  <2>1. job[p] \in [Node -> GoodJob]
    BY DEF JobsReady
  <2> QED
    BY <1>4, <2>1, LoseLeaseKeeps DEF HeartbeatLost
<1>5. ASSUME NEW p \in Owner, Gather(p) PROVE ProcInv'
  <2>1. CASE Leave(p, 2)
    BY <2>1, ForgetKeeps DEF Leave, ProcTypeOK
  <2>2. CASE /\ pending' = [pending EXCEPT ![p] = Aggregate(Completed(p))]
             /\ phase' = [phase EXCEPT ![p] = "finalizing"]
             /\ UNCHANGED <<resumed, snap, job, leaseLost, exit>>
    <3>1. Aggregate(Completed(p)) \in Summary
      BY CompletedFinite, AggregateType
    <3>2. phase' \in [Owner -> Phase]
      BY <2>2 DEF ProcTypeOK, Phase
    <3>3. pending' \in [Owner -> Summary \cup {NoSummary}]
      BY <2>2, <3>1 DEF ProcTypeOK
    <3>4. SummaryPending'
      BY <2>2, <3>1 DEF SummaryPending, ProcTypeOK
    <3> QED
      BY <2>2, <3>2, <3>3, <3>4 DEF ProcTypeOK, SnapUidsBelong, JobsReady
  <2> QED
    BY <1>5, <2>1, <2>2 DEF Gather
<1>6. ASSUME NEW p \in Owner, Finalize(p) PROVE ProcInv'
  <2>1. ExitCode(pending[p]) \in {0, 1}
    BY DEF ExitCode
  <2>2. PICK code \in {0, 1, 2} : Leave(p, code)
    BY <1>6, <2>1 DEF Finalize
  <2> QED
    BY <2>2, ForgetKeeps DEF Leave, ProcTypeOK
<1>7. ASSUME NEW p \in Owner, Crash(p) PROVE ProcInv'
  BY <1>7, ForgetKeeps DEF Crash, ProcTypeOK
<1> QED
  BY <1>1, <1>2, <1>3, <1>4, <1>5, <1>6, <1>7, NodeStepKeeps
     DEF Next, ProcessStep

\* The processes of a run that was just created are idle.
LEMMA InitBatchInv == Init => BatchInv
<1> SUFFICES ASSUME Init PROVE BatchInv
  OBVIOUS
<1> USE DEF Init
<1>1. StoreTypeOK /\ UidsBelong
  BY InitStoreInv DEF StoreInv
<1>2. NoTask \in TaskRow /\ NoTask.uid = NoUid
  BY DEF NoTask, TaskRow, Writable, MaybeError, AttemptCap
<1>3. NoJob \in GoodJob
  <2>1. NoResult \in Result
    BY DEF NoResult, Result, AttemptCap, MaybeError
  <2> QED
    BY <2>1 DEF NoJob, GoodJob, Job, Ready, Settled, AttemptCap
<1>4. JobsReady /\ job \in [Owner -> [Node -> Job]]
  BY <1>3 DEF JobsReady, GoodJob
<1>5. SnapUidsBelong /\ SummaryPending
  BY <1>2 DEF SnapUidsBelong, SummaryPending
<1>6. ProcTypeOK
  BY <1>2, <1>4 DEF ProcTypeOK, Phase, NoExit
<1> QED
  BY <1>1, <1>4, <1>5, <1>6 DEF BatchInv, ProcInv

------------------------------------------------------------------------------
\* The strengthened invariant of the processes and of what they write.
THEOREM BatchInvariant == Spec => []BatchInv
<1>1. BatchInv /\ [Next]_vars => BatchInv'
  BY StoreStep, ProcStep, TypeStep, UidsBelongStep DEF BatchInv
<1> QED
  BY InitBatchInv, <1>1, PTL DEF Spec

\* execute_run keeps the tables and its own state well formed, whatever the
\* number of processes and nodes; no attempt is numbered past the cap.
THEOREM TypeCorrect == Spec => []TypeOK
<1>1. BatchInv => TypeOK
  BY DEF BatchInv, ProcInv, TypeOK
<1> QED
  BY BatchInvariant, <1>1, PTL

\* The processes use the tables through the transactions of the Store: a run
\* of execute_run is a behaviour of RunStore.
THEOREM RunImplementsStore == Spec => StoreSpec
<1>1. Init => DbInit
  BY DEF Init
<1> QED
  BY <1>1, StoreStep, BatchInvariant, PTL DEF Spec, StoreSpec

\* Under any interleaving of processes, crashes and faults a node's result
\* lands as a whole and once.
THEOREM RunNodeCommitAtomic == Spec => []NodeCommitAtomic
BY RunImplementsStore, StoreNodeCommitAtomic, PTL

\* So does the batch summary.
THEOREM RunRunCommitAtomic == Spec => []RunCommitAtomic
BY RunImplementsStore, StoreRunCommitAtomic, PTL
\* What each transaction of the Store means for the row of the run.
LEMMA LifeStep == [StoreNext]_dbVars => [Life!Next]_(Life!lifeVars)
<1> SUFFICES ASSUME StoreNext \/ UNCHANGED dbVars
             PROVE  Life!Next \/ UNCHANGED Life!lifeVars
  OBVIOUS
<1>1. CASE UNCHANGED dbVars
  BY <1>1 DEF dbVars, Life!lifeVars
<1>2. CASE Lapse
  <2>1. Life!Lapse
    BY <1>2 DEF Lapse, Life!Lapse
  <2> QED
    BY <2>1 DEF Life!Next
<1>3. ASSUME NEW o \in Owner, StartRun(o)
      PROVE  Life!Next
  <2>1. Life!Start
    BY <1>3 DEF StartRun, Life!Start
  <2> QED
    BY <2>1 DEF Life!Next
<1>4. ASSUME NEW o \in Owner, ResumeRun(o)
      PROVE  Life!Next
  <2>1. Life!TakeOver
    BY <1>4 DEF ResumeRun, CanResume, Life!TakeOver
  <2> QED
    BY <2>1 DEF Life!Next
<1>5. ASSUME NEW o \in Owner, NEW n \in Node, NodeWrite(o, n)
      PROVE  UNCHANGED Life!lifeVars
  BY <1>5 DEF NodeWrite, SetRunning, RecordNodeBlocked, AttemptStart,
              AttemptEnd, Commit, Life!lifeVars
<1>6. ASSUME NEW o \in Owner, NEW s \in Summary, FinalizeRun(o, s)
      PROVE  Life!Next
  <2>1. summary' = s /\ s # NoSummary /\ s.runStatus \in RunTerminal
    BY <1>6, SummaryIsNotNoSummary DEF FinalizeRun
  <2>2. ExitCode(s) \in IF s.runStatus = "SUCCESS" THEN {0, 1} ELSE {1}
    BY DEF ExitCode
  <2>3. Life!End
    BY <1>6, <2>1, <2>2
       DEF FinalizeRun, Holds, Life!End, Life!Ended, RunTerminal, ExitCode
  <2> QED
    BY <2>3 DEF Life!Next
<1> QED
  BY <1>1, <1>2, <1>3, <1>4, <1>5, <1>6 DEF StoreNext

\* To the commands that create, resume and report it, a run of execute_run is
\* a row that is started once, taken over only after its lease has lapsed, and
\* ended once, with the exit code its summary implies.
THEOREM RunLivesOneLife == Spec => ImplementsLife
<1>1. DbInit => Life!Init
  BY DEF DbInit, Life!Init, Life!NoExit
<1> QED
  BY <1>1, LifeStep, RunImplementsStore, PTL
     DEF StoreSpec, ImplementsLife, Life!Spec
==============================================================================
