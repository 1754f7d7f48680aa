------------------------------ MODULE RunStore ------------------------------
(***************************************************************************)
(* The SQLite rows of ONE run and the fenced transactions of the Store     *)
(* that write them.  Every transaction is one BEGIN IMMEDIATE ... COMMIT   *)
(* and therefore one step; a refused one rolls back and is a stuttering    *)
(* step here (its caller's reaction is in BatchRun).                       *)
(*                                                                         *)
(* Abstractions.  Time: heartbeat_at and lease_expires_at are always       *)
(* written together, so "not yet stale" and "not yet expired" are one      *)
(* Boolean, leaseLive, which Lapse may clear at any moment.  Identifiers:  *)
(* a lease owner is a fresh uuid per process, and an execution_uid is the  *)
(* pair of the process and the node it was minted for; an attempt_id is    *)
(* the process that made the attempt (a process makes at most one attempt  *)
(* per uid and seq).  Timestamps, messages and stream payloads are left    *)
(* out.                                                                    *)
(***************************************************************************)
EXTENDS ExecutionResult, Sequences

CONSTANTS Node,     \* the nodes the run targets
          Owner,    \* lease owners: one per process that executes the run
          NoOwner,  \* NULL in runs.lease_owner
          NoUid,    \* NULL in node_tasks.execution_uid
          RunId     \* outbox.object_id of the batch summary

VARIABLES
  runStatus,    \* runs.status
  leaseOwner,   \* runs.lease_owner
  leaseLive,    \* heartbeat_at and lease_expires_at are not past
  resumeCount,  \* runs.resume_count
  task,         \* node_tasks, by node
  attempts,     \* attempts: a set of rows
  executions,   \* executions: a set of rows
  outbox,       \* number of outbox rows per object_id
  nodeEvents,   \* run_events of each node, in commit order
  runEvents,    \* run_events of the run itself, in commit order
  summary       \* batch_summaries: the row, or NoSummary

dbVars == <<runStatus, leaseOwner, leaseLive, resumeCount, task, attempts,
            executions, outbox, nodeEvents, runEvents, summary>>

UidsOf(n) == Owner \X {n}
Uid       == Owner \X Node

ASSUME StoreAssumption ==
  /\ NoOwner \notin Owner
  /\ NoUid \notin Uid
  /\ RunId \notin Uid
  /\ IsFiniteSet(Node)

Writable     == {"PENDING", "RUNNING", "UNKNOWN"}
NodeTerminal == {"SUCCEEDED", "FAILED"}
RunTerminal  == {"SUCCESS", "DEGRADED"}

TaskRow == [status : Writable \cup NodeTerminal, uid : Uid \cup {NoUid},
            attemptCount : 0..AttemptCap, class : MaybeError]

AttemptRow == [uid : Uid, by : Owner, seq : 1..AttemptCap,
               status : {"RUNNING"} \cup NodeTerminal, class : MaybeError]

ExecutionRow == [uid : Uid, node : Node, status : NodeTerminal,
                 count : 1..AttemptCap, class : MaybeError]

\* The two checkpoint_updated events of a node differ in their data.reason.
NodeEvent == [type : {"node_started", "checkpoint_resumed",
                      "checkpoint_blocked", "node_finished"},
              uid : Uid \cup {NoUid}, status : Writable \cup NodeTerminal,
              secondary : SUBSET ErrorClass]

RunEvent == {"run_created", "run_started", "run_resumed", "run_completed",
             "run_degraded"}

NoSummary == [runStatus |-> "NONE"]

\* build_batch_summary: the Contract-05 payload without its timestamps.  The
\* CANCELLED and SKIPPED counts are left out, as no code sets those statuses.
Summary == [runStatus : RunTerminal,
            batchStatus : {"success", "partial", "failed"},
            targeted : Nat, succeeded : Nat, failed : Nat, unknown : Nat,
            errorCounts : [ErrorClass -> Nat]]

------------------------------------------------------------------------------
\* A run just created, with one PENDING checkpoint per targeted node.

DbInit ==
  /\ runStatus   = "QUEUED"
  /\ leaseOwner  = NoOwner
  /\ leaseLive   = FALSE
  /\ resumeCount = 0
  /\ task        = [n \in Node |-> [status |-> "PENDING", uid |-> NoUid,
                                    attemptCount |-> 0, class |-> NoError]]
  /\ attempts    = {}
  /\ executions  = {}
  /\ outbox      = [x \in Uid \cup {RunId} |-> 0]
  /\ nodeEvents  = [n \in Node |-> <<>>]
  /\ runEvents   = <<"run_created">>
  /\ summary     = NoSummary

\* Mutant: the fence looks at the lease but not at whose it is.
HoldsWithoutOwner(o) == runStatus = "RUNNING" /\ leaseLive

\* The fence of every write an owner makes.
Holds(o) == runStatus = "RUNNING" /\ leaseOwner = o /\ leaseLive

AttemptsOf(uid) == {a \in attempts : a.uid = uid}

\* get_attempt_max_seq
MaxSeq(uid) ==
  LET seqs == {a.seq : a \in AttemptsOf(uid)}
  IN IF seqs = {} THEN 0 ELSE CHOOSE k \in seqs : \A j \in seqs : j <= k

\* get_last_attempt, for a uid that has one
LastAttempt(uid) == CHOOSE a \in AttemptsOf(uid) : a.seq = MaxSeq(uid)

\* Mutant: the event carries the status read before the update.
LogNodeBefore(n, type, uid, status, secondary) ==
  nodeEvents' = [nodeEvents EXCEPT ![n] =
                   Append(@, [type |-> type, uid |-> uid,
                              status |-> task[n].status,
                              secondary |-> secondary])]

LogNode(n, type, uid, status, secondary) ==
  nodeEvents' = [nodeEvents EXCEPT ![n] =
                   Append(@, [type |-> type, uid |-> uid, status |-> status,
                              secondary |-> secondary])]

------------------------------------------------------------------------------
\* The lease.

StartRun(o) ==
  /\ runStatus = "QUEUED"
  /\ runStatus'  = "RUNNING"
  /\ leaseOwner' = o
  /\ leaseLive'  = TRUE
  /\ runEvents'  = Append(runEvents, "run_started")
  /\ UNCHANGED <<resumeCount, task, attempts, executions, outbox, nodeEvents,
                 summary>>

\* 60 seconds have passed since the last renewal.  A renewal in time keeps the
\* lease live, so it changes nothing here; once the run has ended nobody reads
\* the lease any more.
Lapse ==
  /\ runStatus = "RUNNING" /\ leaseLive
  /\ leaseLive' = FALSE
  /\ UNCHANGED <<runStatus, leaseOwner, resumeCount, task, attempts,
                 executions, outbox, nodeEvents, runEvents, summary>>

\* The CAS of renew_lease (which, unlike the fence, does not ask for RUNNING).
CanRenew(o) == leaseOwner = o /\ leaseLive

\* Mutant: a run that was never started can be resumed.
CanResumeQueued == runStatus \in {"QUEUED", "RUNNING"} /\ ~leaseLive

\* Mutant: only a lease that was released can be taken over.
CanResumeReleased == runStatus = "RUNNING" /\ leaseOwner = NoOwner

CanResume == runStatus = "RUNNING" /\ ~leaseLive

ResumeRun(o) ==
  LET recovered == {n \in Node : task[n].status = "RUNNING"}
  IN /\ CanResume
     /\ leaseOwner'  = o
     /\ leaseLive'   = TRUE
     /\ resumeCount' = resumeCount + 1
     /\ task' = [n \in Node |-> IF n \in recovered
                                THEN [task[n] EXCEPT !.status = "UNKNOWN"]
                                ELSE task[n]]
     /\ nodeEvents' = [n \in Node |->
          IF n \in recovered
          THEN Append(nodeEvents[n],
                      [type |-> "checkpoint_resumed", uid |-> task[n].uid,
                       status |-> "UNKNOWN", secondary |-> {}])
          ELSE nodeEvents[n]]
     /\ runEvents' = Append(runEvents, "run_resumed")
     /\ UNCHANGED <<runStatus, attempts, executions, outbox, summary>>

------------------------------------------------------------------------------
\* Node checkpoints and attempts.

\* set_node_task(RUNNING), the only status the orchestrator passes.
SetRunning(o, n, uid) ==
  /\ Holds(o)
  /\ task[n].status \in Writable
  /\ task' = [task EXCEPT ![n].status = "RUNNING", ![n].uid = uid]
  /\ LogNode(n, "node_started", uid, "RUNNING", {})
  /\ UNCHANGED <<runStatus, leaseOwner, leaseLive, resumeCount, attempts,
                 executions, outbox, runEvents, summary>>

RecordNodeBlocked(o, n, uid) ==
  /\ Holds(o)
  /\ LogNode(n, "checkpoint_blocked", uid, "UNKNOWN", {})
  /\ UNCHANGED <<runStatus, leaseOwner, leaseLive, resumeCount, task,
                 attempts, executions, outbox, runEvents, summary>>

AttemptOf(o, uid, seq, status, class) ==
  [uid |-> uid, by |-> o, seq |-> seq, status |-> status, class |-> class]

\* The checkpoint CAS that both halves of record_attempt make.
Checkpointed(n, uid) == task[n].status = "RUNNING" /\ task[n].uid = uid

\* Mutant: an attempt gets its row only when it ends.
AttemptStartUnrecorded(o, n, uid, seq) ==
  /\ Holds(o)
  /\ Checkpointed(n, uid)
  /\ task[n].attemptCount < seq
  /\ task' = [task EXCEPT ![n].attemptCount = seq]
  /\ UNCHANGED <<runStatus, leaseOwner, leaseLive, resumeCount, attempts,
                 executions, outbox, nodeEvents, runEvents, summary>>

AttemptStart(o, n, uid, seq) ==
  /\ Holds(o)
  /\ Checkpointed(n, uid)
  /\ task[n].attemptCount < seq
  /\ attempts' = attempts \cup {AttemptOf(o, uid, seq, "RUNNING", NoError)}
  /\ task' = [task EXCEPT ![n].attemptCount = seq]
  /\ UNCHANGED <<runStatus, leaseOwner, leaseLive, resumeCount, executions,
                 outbox, nodeEvents, runEvents, summary>>

AttemptEnd(o, n, uid, seq, status, class) ==
  /\ Holds(o)
  /\ AttemptOf(o, uid, seq, "RUNNING", NoError) \in attempts
  /\ Checkpointed(n, uid)
  /\ attempts' = (attempts \ {AttemptOf(o, uid, seq, "RUNNING", NoError)})
                   \cup {AttemptOf(o, uid, seq, status, class)}
  /\ task' = [task EXCEPT ![n].attemptCount = IF @ < seq THEN seq ELSE @]
  /\ UNCHANGED <<runStatus, leaseOwner, leaseLive, resumeCount, executions,
                 outbox, nodeEvents, runEvents, summary>>

------------------------------------------------------------------------------
\* The two commit boundaries.

\* A uid that already has an execution is a replay, which writes nothing (the
\* same content is acknowledged again, other content is a conflict), and a
\* terminal checkpoint is refused by an exception that rolls back.
Committable(n, uid) ==
  /\ \A e \in executions : e.uid # uid
  /\ task[n].status \in Writable

\* Mutant: the error of the result does not reach the checkpoint.
CommittedTaskWithoutError(n, uid, result) ==
  [task[n] EXCEPT !.status = result.status, !.uid = uid]

\* The checkpoint a commit leaves behind.
CommittedTask(n, uid, result) ==
  [task[n] EXCEPT !.status = result.status, !.uid = uid, !.class = result.class]

\* The INSERT OR IGNORE of the attempt log adds nothing: START has inserted
\* every (execution_uid, attempt_id) of that log before.
Commit(o, n, uid, result) ==
  /\ Holds(o)
  /\ Committable(n, uid)
  /\ executions' = executions \cup
       {[uid |-> uid, node |-> n, status |-> result.status,
         count |-> result.count, class |-> result.class]}
  /\ outbox' = [outbox EXCEPT ![uid] = @ + 1]
  /\ LogNode(n, "node_finished", uid, result.status, result.secondary)
  /\ task' = [task EXCEPT ![n] = CommittedTask(n, uid, result)]
  /\ UNCHANGED <<runStatus, leaseOwner, leaseLive, resumeCount, attempts,
                 runEvents, summary>>

FinalEvent(status) ==
  IF status = "SUCCESS" THEN "run_completed" ELSE "run_degraded"

\* The fence implies that the run is not terminal, so the replay branch of
\* finalize_run is never reached by a fenced caller.
FinalizeRun(o, s) ==
  /\ Holds(o)
  /\ runStatus' = s.runStatus
  /\ summary'   = s
  /\ outbox'    = [outbox EXCEPT ![RunId] = @ + 1]
  /\ runEvents' = Append(runEvents, FinalEvent(s.runStatus))
  /\ UNCHANGED <<leaseOwner, leaseLive, resumeCount, task, attempts,
                 executions, nodeEvents>>

------------------------------------------------------------------------------
\* Any number of owners, each free to issue any transaction at any time.

NodeWrite(o, n) ==
  \E uid \in UidsOf(n) :
    \/ SetRunning(o, n, uid)
    \/ RecordNodeBlocked(o, n, uid)
    \/ \E seq \in 1..AttemptCap :
         \/ AttemptStart(o, n, uid, seq)
         \/ \E status \in NodeTerminal, class \in MaybeError :
              AttemptEnd(o, n, uid, seq, status, class)
    \/ \E result \in Result : Commit(o, n, uid, result)

StoreNext ==
  \/ Lapse
  \/ \E o \in Owner :
       \/ StartRun(o)
       \/ ResumeRun(o)
       \/ \E n \in Node : NodeWrite(o, n)
       \/ \E s \in Summary : FinalizeRun(o, s)

StoreSpec == DbInit /\ [][StoreNext]_dbVars

------------------------------------------------------------------------------
\* Correctness of the tables, whatever their clients do.

StoreTypeOK ==
  /\ runStatus \in {"QUEUED", "RUNNING"} \cup RunTerminal
  /\ leaseOwner \in Owner \cup {NoOwner}
  /\ leaseLive \in BOOLEAN
  /\ resumeCount \in Nat
  /\ task \in [Node -> TaskRow]
  /\ attempts \subseteq AttemptRow
  /\ executions \subseteq ExecutionRow
  /\ outbox \in [Uid \cup {RunId} -> Nat]
  /\ nodeEvents \in [Node -> Seq(NodeEvent)]
  /\ runEvents \in Seq(RunEvent)
  /\ summary \in Summary \cup {NoSummary}

Finished(n) == {i \in DOMAIN nodeEvents[n] :
                  nodeEvents[n][i].type = "node_finished"}

\* A node's result lands as a whole and once: the execution row, the terminal
\* checkpoint and the node_finished event imply one another and agree, a node
\* has at most one of each, and exactly one outbox row announces the result.
NodeCommitAtomic ==
  /\ \A e \in executions :
       /\ e.uid \in UidsOf(e.node)
       /\ task[e.node].status = e.status
       /\ task[e.node].uid = e.uid
       /\ task[e.node].class = e.class
       /\ \A f \in executions : f.node = e.node => f = e
  /\ \A n \in Node :
       /\ task[n].status \in NodeTerminal <=> \E e \in executions : e.node = n
       /\ task[n].status \in NodeTerminal <=> Finished(n) # {}
       /\ \A i \in Finished(n) :
            /\ nodeEvents[n][i].uid = task[n].uid
            /\ nodeEvents[n][i].status = task[n].status
            /\ \A j \in Finished(n) : j = i
  /\ \A uid \in Uid :
       outbox[uid] = IF \E e \in executions : e.uid = uid THEN 1 ELSE 0

\* The batch summary lands as a whole and once: the terminal run status, the
\* summary row, its outbox row and the final run event imply one another, and
\* the run log holds one entry per lease that was ever taken.
RunCommitAtomic ==
  /\ runStatus \in RunTerminal <=> summary # NoSummary
  /\ summary # NoSummary => /\ summary.runStatus = runStatus
                            /\ runEvents[Len(runEvents)] = FinalEvent(runStatus)
  /\ outbox[RunId] = IF summary # NoSummary THEN 1 ELSE 0
  /\ Len(runEvents) = IF runStatus = "QUEUED" THEN 1
                      ELSE IF runStatus = "RUNNING" THEN 2 + resumeCount
                      ELSE 3 + resumeCount
==============================================================================
