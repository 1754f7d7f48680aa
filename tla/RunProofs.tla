------------------------------ MODULE RunProofs ------------------------------
(***************************************************************************)
(* What execute_run promises about a whole run, proved from the ledger of  *)
(* its nodes: the inductive invariant LedgerInv, the safety properties of  *)
(* BatchRunProperties that follow from it, and that the run implements     *)
(* RunContract.                                                            *)
(***************************************************************************)
EXTENDS LedgerProofs

------------------------------------------------------------------------------
\* The summary.

\* A set has as many elements as it has distinct names.
LEMMA CountByName ==
  ASSUME NEW S, IsFiniteSet(S), NEW f,
         \A x, y \in S : f[x] = f[y] => x = y
  PROVE  /\ IsFiniteSet({f[x] : x \in S})
         /\ Cardinality({f[x] : x \in S}) = Cardinality(S)
<1> DEFINE g == [x \in S |-> f[x]]
           R == {f[x] : x \in S}
<1>1. g \in Surjection(S, R) /\ g \in Injection(S, R)
  BY DEF Surjection, Injection, IsInjective
<1> HIDE DEF g, R
<1>2. IsFiniteSet(R) /\ Cardinality(R) = Cardinality(S)
  BY <1>1, FS_Surjection
<1> QED
  BY <1>2 DEF R

\* The verdict of a decided node is its checkpoint with the evidence of its
\* node_finished event, and a node that is not decided has none.
LEMMA VerdictRead ==
  ASSUME NodeCommitAtomic, NEW n \in Node
  PROVE  /\ task[n].status \in NodeTerminal =>
              VerdictOf(n) =
                [status  |-> task[n].status,
                 classes |-> ({task[n].class} \cup FinishedData(n))
                               \ {NoError}]
         /\ task[n].status \notin NodeTerminal =>
              VerdictOf(n) = Contract!Undecided
<1>1. CASE task[n].status \in NodeTerminal
  <2> DEFINE e == CHOOSE x \in executions : x.node = n
  <2>1. \E x \in executions : x.node = n
    BY <1>1 DEF NodeCommitAtomic
  <2>2. e \in executions /\ e.node = n
    BY <2>1
  <2>3. e.status = task[n].status /\ e.class = task[n].class
    BY <2>2 DEF NodeCommitAtomic
  <2>4. VerdictOf(n) = [status  |-> e.status,
                        classes |-> ({e.class} \cup FinishedData(n))
                                      \ {NoError}]
    BY <2>1 DEF VerdictOf
  <2> QED
    BY <1>1, <2>3, <2>4
<1>2. CASE task[n].status \notin NodeTerminal
  <2>1. ~\E x \in executions : x.node = n
    BY <1>2 DEF NodeCommitAtomic
  <2> QED
    BY <1>2, <2>1 DEF VerdictOf, Contract!Undecided
<1> QED
  BY <1>1, <1>2

\* What a node contributes to the summary of p: the outcome of the job, or of
\* the terminal checkpoint in the snapshot.
Outcome(p, n) ==
  IF job[p][n].pc = "done" THEN LiveOutcome(p, n) ELSE TerminalOutcome(p, n)

\* It is the verdict of the node.
LEMMA OutcomeRead ==
  ASSUME StoreTypeOK, ProcInv, NodeCommitAtomic, NEW p \in Owner,
         NEW n \in Node, NodeInv(n), View(p, n),
         job[p][n].pc \in {"absent", "done"}
  PROVE  LET o == Outcome(p, n)
         IN /\ task[n].status \in NodeTerminal
            /\ o.node = n
            /\ o.status = VerdictOf(n).status
            /\ o.classes = VerdictOf(n).classes
            /\ o.degraded <=> o.classes \cap DegradingClasses # {}
<1>1. CASE job[p][n].pc = "done"
  <2> DEFINE r == job[p][n].result
  <2>1. /\ task[n].status = r.status /\ task[n].class = r.class
        /\ FinishedData(n) = r.secondary /\ DegradedOf(r)
    BY <1>1 DEF View, Executing
  <2>2. r \in Result
    BY NumberedJob DEF ProcInv
  <2>3. task[n].status \in NodeTerminal
    BY <2>1, <2>2 DEF Result, NodeTerminal
  <2>4. VerdictOf(n) = [status |-> r.status, classes |-> Classes(r)]
    BY <2>1, <2>3, VerdictRead DEF Classes
  <2>5. Outcome(p, n) = [node |-> n, status |-> r.status,
                         degraded |-> r.degraded, classes |-> Classes(r)]
    BY <1>1 DEF Outcome, LiveOutcome, Classes
  <2> HIDE DEF r
  <2> QED
    BY <2>1, <2>3, <2>4, <2>5 DEF DegradedOf
<1>2. CASE job[p][n].pc = "absent"
  <2>1. task[n] = snap[p][n] /\ task[n].status \in NodeTerminal
    BY <1>2 DEF View, Snapshot
  <2> DEFINE cl == ({task[n].class} \cup FinishedData(n)) \ {NoError}
             deg == cl \cap DegradingClasses # {}
  <2>2. Outcome(p, n) = [node |-> n, status |-> task[n].status,
                         degraded |-> deg, classes |-> cl]
    BY <1>2, <2>1 DEF Outcome, TerminalOutcome
  <2>3. VerdictOf(n) = [status |-> task[n].status, classes |-> cl]
    BY <2>1, VerdictRead
  <2>4. deg <=> cl \cap DegradingClasses # {}
    OBVIOUS
  <2> HIDE DEF cl, deg
  <2> QED
    BY <2>1, <2>2, <2>3, <2>4
<1> QED
  BY <1>1, <1>2

\* The nodes that gather has an outcome for are all nodes.
LEMMA CompletedRead ==
  ASSUME NEW p \in Owner,
         \A n \in Node : View(p, n) /\ job[p][n].pc \in {"absent", "done"}
  PROVE  Completed(p) = {Outcome(p, n) : n \in Node}
<1>1. \A n \in Node : job[p][n].pc = "absent" <=>
                        snap[p][n].status \in NodeTerminal
  BY DEF View, Snapshot
<1>2. \A n \in Node : ~resumed[p] => job[p][n].pc # "absent"
  BY <1>1 DEF View, Snapshot, NodeTerminal
<1> QED
  BY <1>1, <1>2 DEF Completed, Outcome

\* Whatever its owner has decided itself and whatever it has found decided,
\* the summary it builds is the tally of the verdicts.
LEMMA GatherTally ==
  ASSUME StoreTypeOK, ProcInv, NodeCommitAtomic, NEW p \in Owner,
         \A n \in Node : /\ NodeInv(n) /\ View(p, n)
                         /\ job[p][n].pc \in {"absent", "done"}
  PROVE  /\ \A n \in Node : task[n].status \in NodeTerminal
         /\ Aggregate(Completed(p)) = Contract!Tally
<1> DEFINE f == [n \in Node |-> Outcome(p, n)]
           C == Completed(p)
           of(status) == {n \in Node : VerdictOf(n).status = status}
<1>1. \A n \in Node : /\ task[n].status \in NodeTerminal
                      /\ f[n].node = n
                      /\ f[n].status = VerdictOf(n).status
                      /\ f[n].classes = VerdictOf(n).classes
                      /\ f[n].degraded <=>
                           f[n].classes \cap DegradingClasses # {}
  BY OutcomeRead
<1>2. C = {f[n] : n \in Node}
  BY CompletedRead
<1>3. DOMAIN f = Node
  OBVIOUS
<1> HIDE DEF f, C
<1>4. ASSUME NEW S \in SUBSET Node
      PROVE  /\ IsFiniteSet(S)
             /\ Cardinality({f[n] : n \in S}) = Cardinality(S)
  <2>1. IsFiniteSet(S)
    BY StoreAssumption, FS_Subset
  <2>2. \A x, y \in S : f[x] = f[y] => x = y
    BY <1>1
  <2> QED
    BY <2>1, <2>2, CountByName
<1>5. Cardinality(C) = Cardinality(Node)
  BY <1>2, <1>4
<1>6. ASSUME NEW s
      PROVE  {o \in C : o.status = s} = {f[n] : n \in of(s)}
  BY <1>1, <1>2
<1>7. \A s : Cardinality({o \in C : o.status = s}) = Cardinality(of(s))
  BY <1>4, <1>6
<1>8. ASSUME NEW c
      PROVE  Cardinality({o \in C : c \in o.classes}) =
               Cardinality({n \in Node : c \in VerdictOf(n).classes})
  <2>1. {o \in C : c \in o.classes} =
          {f[n] : n \in {m \in Node : c \in VerdictOf(m).classes}}
    BY <1>1, <1>2
  <2> QED
    BY <1>4, <2>1
<1>9. (\E o \in C : o.degraded) <=>
        \E n \in Node : VerdictOf(n).classes \cap DegradingClasses # {}
  BY <1>1, <1>2
<1> DEFINE ok  == Cardinality(of("SUCCEEDED"))
           bad == Cardinality(of("FAILED"))
<1>10. /\ ok \in Nat /\ bad \in Nat
       /\ Cardinality(Node) - ok - bad = 0
  <2> DEFINE A == of("SUCCEEDED")
             B == of("FAILED")
  <2>1. Node = A \cup B /\ A \cap B = {}
    <3>1. \A n \in Node : VerdictOf(n).status \in NodeTerminal
      <4>1. \A n \in Node : VerdictOf(n).status = task[n].status
        BY <1>1, VerdictRead
      <4> QED
        BY <1>1, <4>1
    <3> QED
      BY <3>1 DEF NodeTerminal
  <2>2. A \in SUBSET Node /\ B \in SUBSET Node
    OBVIOUS
  <2> HIDE DEF A, B
  <2>3. IsFiniteSet(A) /\ IsFiniteSet(B)
    BY <1>4, <2>2
  <2>4. Cardinality(A \cup B) =
          Cardinality(A) + Cardinality(B) - Cardinality(A \cap B)
    BY <2>3, FS_Union
  <2>5. Cardinality(A \cap B) = 0
    BY <2>1, FS_EmptySet
  <2>6. Cardinality(A) \in Nat /\ Cardinality(B) \in Nat
    BY <2>3, FS_CardinalityType
  <2>7. Cardinality(Node) = Cardinality(A) + Cardinality(B)
    BY <2>1, <2>4, <2>5, <2>6
  <2> QED
    BY <2>6, <2>7 DEF A, B
<1> DEFINE agg ==
      [runStatus   |-> IF \E n \in Node : VerdictOf(n).classes
                                            \cap DegradingClasses # {}
                       THEN "DEGRADED" ELSE "SUCCESS",
       batchStatus |-> IF bad = 0 THEN "success"
                       ELSE IF ok = 0 THEN "failed" ELSE "partial",
       targeted    |-> Cardinality(Node),
       succeeded   |-> ok,
       failed      |-> bad,
       unknown     |-> 0,
       errorCounts |-> [c \in ErrorClass |->
          Cardinality({n \in Node : c \in VerdictOf(n).classes})]]
<1>11. Aggregate(C) = agg
  <2>1. Aggregate(C) =
      [runStatus   |-> IF \E n \in Node : VerdictOf(n).classes
                                            \cap DegradingClasses # {}
                       THEN "DEGRADED" ELSE "SUCCESS",
       batchStatus |-> IF bad = 0 THEN "success"
                       ELSE IF ok = 0 THEN "failed" ELSE "partial",
       targeted    |-> Cardinality(Node),
       succeeded   |-> ok,
       failed      |-> bad,
       unknown     |-> Cardinality(Node) - ok - bad,
       errorCounts |-> [c \in ErrorClass |->
          Cardinality({n \in Node : c \in VerdictOf(n).classes})]]
    BY <1>5, <1>7, <1>8, <1>9 DEF Aggregate
  <2> QED
    BY <1>10, <2>1
<1>12. Contract!Tally = agg
  <2>1. Contract!With("SUCCEEDED") = of("SUCCEEDED")
    BY DEF Contract!With
  <2>2. Contract!With("FAILED") = of("FAILED")
    BY DEF Contract!With
  <2>3. \A c : {n \in Node : c \in [m \in Node |-> VerdictOf(m)][n].classes}
                 = {n \in Node : c \in VerdictOf(n).classes}
    OBVIOUS
  <2>4. (\E n \in Node : [m \in Node |-> VerdictOf(m)][n].classes
                           \cap DegradingClasses # {}) <=>
        \E n \in Node : VerdictOf(n).classes \cap DegradingClasses # {}
    OBVIOUS
  <2>5. Contract!Tally =
      [runStatus   |-> IF \E n \in Node : VerdictOf(n).classes
                                            \cap DegradingClasses # {}
                       THEN "DEGRADED" ELSE "SUCCESS",
       batchStatus |-> CASE bad = 0            -> "success"
                         [] ok = 0 /\ bad > 0  -> "failed"
                         [] ok > 0 /\ bad > 0  -> "partial",
       targeted    |-> Cardinality(Node),
       succeeded   |-> ok,
       failed      |-> bad,
       unknown     |-> 0,
       errorCounts |-> [c \in ErrorClass |->
          Cardinality({n \in Node : c \in VerdictOf(n).classes})]]
    <3>1. \A S : Contract!Cardinality(S) = Cardinality(S)
      BY Zenon DEF Contract!Cardinality, Cardinality
    <3>2. /\ Contract!ErrorClass = ErrorClass
          /\ Contract!DegradingClasses = DegradingClasses
      BY DEF Contract!ErrorClass, Contract!DegradingClasses,
             Contract!Transient, Contract!Permanent, Contract!Security,
             Contract!Resource, Contract!Data, ErrorClass, DegradingClasses,
             Transient, Permanent, Security, Resource, Data
    <3> HIDE DEF of
    <3> QED
      BY <2>1, <2>2, <2>3, <2>4, <3>1, <3>2 DEF Contract!Tally
  <2>6. (CASE bad = 0            -> "success"
           [] ok = 0 /\ bad > 0  -> "failed"
           [] ok > 0 /\ bad > 0  -> "partial") =
        (IF bad = 0 THEN "success" ELSE IF ok = 0 THEN "failed" ELSE "partial")
    <3> HIDE DEF ok, bad
    <3> QED
      BY <1>10
  <2> QED
    BY <2>5, <2>6
<1> QED
  BY <1>1, <1>11, <1>12 DEF C
------------------------------------------------------------------------------
\* What the owner knows stays true.

\* Nothing that p knows is about anything but the tables and its own state.
LEMMA KnowsFrame ==
  ASSUME NEW p \in Owner, Knows(p), UNCHANGED dbVars,
         phase'[p] = phase[p], resumed'[p] = resumed[p], snap'[p] = snap[p],
         job'[p] = job[p], pending'[p] = pending[p]
  PROVE  Knows(p)'
<1>1. /\ task' = task /\ executions' = executions
      /\ nodeEvents' = nodeEvents /\ attempts' = attempts
  BY DEF dbVars
<1>2. phase[p] = "claimed" => ClaimView(p)'
  BY <1>1 DEF Knows, ClaimView
<1>3. phase[p] = "running" => \A n \in Node : View(p, n)'
  BY <1>1, ViewFrame DEF Knows, RowsOf
<1>4. phase[p] = "finalizing" => ReportView(p)'
  <2>1. Contract!Tally' = Contract!Tally
    BY <1>1 DEF Contract!Tally, Contract!With, VerdictOf, FinishedData,
                Finished
  <2> QED
    BY <1>1, <2>1 DEF Knows, ReportView
<1> QED
  BY <1>2, <1>3, <1>4 DEF Knows

\* The snapshot that p takes is true.
LEMMA ReadTasksKnows ==
  ASSUME StoreTypeOK, ProcInv, NEW p \in Owner, ReadTasks(p), Holds(p),
         Knows(p), Unseen(p), NEW n \in Node, NodeInv(n)
  PROVE  View(p, n)'
<1> USE DEF ProcInv, ProcTypeOK
<1>1. /\ task[n].status # "RUNNING"
      /\ ~resumed[p] => task[n].status = "PENDING"
      /\ task[n].status = "PENDING" => task[n].uid = NoUid
      /\ \A a \in attempts : a.by # p
  BY DEF ReadTasks, Knows, ClaimView, NodeInv, PendingBlank, Unseen
<1>2. /\ UNCHANGED <<dbVars, resumed>>
      /\ snap'[p][n] = task[n]
      /\ job'[p][n] = IF task[n].status \in {"PENDING", "UNKNOWN"}
                      THEN [NoJob EXCEPT !.pc = "queued"] ELSE NoJob
  BY DEF ReadTasks
<1>3. task[n].status \in {"PENDING", "UNKNOWN"} \cup NodeTerminal
  <2>1. task[n] \in TaskRow
    BY DEF StoreTypeOK
  <2> QED
    BY <1>1, <2>1 DEF TaskRow, Writable
<1>4. /\ job'[p][n].pc \in {"absent", "queued"}
      /\ job'[p][n].pc = "absent" <=> task[n].status \in NodeTerminal
  BY <1>2, <1>3 DEF NoJob, NodeTerminal
<1>5. Snapshot(p, n)'
  BY <1>1, <1>2, <1>4 DEF Snapshot, dbVars, RowsOf
<1>6. Disposed(p, n)' /\ Executing(p, n)'
  BY <1>4 DEF Disposed, Executing
<1> QED
  BY <1>5, <1>6 DEF View

\* The summary that p builds is the tally.
LEMMA GatherKnows ==
  ASSUME StoreTypeOK, NodeCommitAtomic, ProcInv, NEW p \in Owner, Gather(p),
         Holds(p), Knows(p), GivenUp(p), \A n \in Node : NodeInv(n)
  PROVE  Knows(p)'
<1> USE DEF ProcInv, ProcTypeOK
<1>1. /\ phase[p] = "running" /\ UNCHANGED dbVars
      /\ \A n \in Node : View(p, n)
      /\ \A n \in Node : job[p][n].pc \in Settled
  BY DEF Gather, Knows
<1>2. CASE Leave(p, 2)
  BY <1>2 DEF Leave, Knows
<1>3. CASE ~(Ended(p, "raised") \/ Abandoned(p))
  <2>1. \A n \in Node : job[p][n].pc \in {"absent", "done"}
    BY <1>1, <1>3 DEF Ended, Abandoned, GivenUp, Settled
  <2>2. /\ phase'[p] = "finalizing"
        /\ pending'[p] = Aggregate(Completed(p))
    BY <1>3 DEF Gather
  <2>3. /\ \A n \in Node : task[n].status \in NodeTerminal
        /\ Aggregate(Completed(p)) = Contract!Tally
    BY <1>1, <2>1, GatherTally
  <2>4. Contract!Tally' = Contract!Tally /\ task' = task
    BY <1>1 DEF Contract!Tally, Contract!With, VerdictOf, FinishedData,
                Finished, dbVars
  <2>5. ReportView(p)'
    BY <2>2, <2>3, <2>4 DEF ReportView
  <2> QED
    BY <2>2, <2>5 DEF Knows
<1> QED
  BY <1>2, <1>3 DEF Gather

\* No step of the process that holds the lease makes its view untrue.
LEMMA OwnKnows ==
  ASSUME StoreTypeOK, NodeCommitAtomic, ProcInv, LedgerInv, NEW p \in Owner,
         ProcessStep(p), Holds(p)'
  PROVE  Knows(p)'
<1> USE DEF ProcInv, ProcTypeOK
<1>1. /\ \A n \in Node : NodeInv(n)
      /\ Unseen(p) /\ GivenUp(p) /\ SessionRow(p)
      /\ Holds(p) => Knows(p)
  BY DEF LedgerInv, ProcessInv, OwnerInv
<1>2. CASE Start(p)
  <2>1. /\ runStatus = "QUEUED" /\ task' = task /\ phase'[p] = "claimed"
    BY <1>2 DEF Start, StartRun
  <2>2. ClaimView(p)'
    BY <2>1 DEF LedgerInv, RunInv, ClaimView
  <2> QED
    BY <2>1, <2>2 DEF Knows
<1>3. CASE Resume(p)
  <2>1. ResumeRun(p) /\ resumed'[p] /\ phase'[p] = "claimed"
    BY <1>3 DEF Resume
  <2>2. ClaimView(p)'
    BY <1>1, <2>1, ResumeKeepsNode DEF ClaimView
  <2> QED
    BY <2>1, <2>2 DEF Knows
<1>4. CASE ReadTasks(p)
  <2>1. Holds(p) /\ phase'[p] = "running"
    BY <1>4 DEF ReadTasks, Holds, dbVars
  <2> QED
    BY <1>1, <1>4, <2>1, ReadTasksKnows DEF Knows
<1>5. CASE HeartbeatLost(p)
  <2>1. Holds(p) /\ phase[p] = "running" /\ UNCHANGED dbVars
    BY <1>5 DEF HeartbeatLost, LoseLease, LoopFree, Holds, dbVars
  <2>2. ASSUME NEW n \in Node PROVE View(p, n)'
    <3>1. /\ UNCHANGED <<dbVars, snap, resumed>>
          /\ \/ job'[p][n] = job[p][n]
             \/ /\ job[p][n].pc \in Awaits
                /\ job'[p][n].pc = "cancelled"
      BY <1>5, HeartbeatStops
    <3>2. View(p, n)
      BY <1>1, <2>1 DEF Knows
    <3> QED
      BY <3>1, <3>2, ViewFrame DEF dbVars, RowsOf, Awaits
  <2>3. phase'[p] = "running"
    BY <1>5, <2>1 DEF HeartbeatLost, LoseLease
  <2> QED
    BY <2>2, <2>3 DEF Knows
<1>6. ASSUME NEW n \in Node, NodeStep(p, n) PROVE Knows(p)'
  <2>1. phase[p] = "running" /\ phase'[p] = "running"
    BY <1>6, JobPhase
  <2>2. Holds(p) => \A m \in Node : View(p, m)
    BY <1>1, <2>1 DEF Knows
  <2>3. \A m \in Node : View(p, m)'
    BY <1>1, <1>6, <2>2, JobKeeps
  <2> QED
    BY <2>1, <2>3 DEF Knows
<1>7. CASE Gather(p)
  <2>1. Holds(p)
    BY <1>7 DEF Gather, Holds, dbVars
  <2> QED
    BY <1>1, <1>7, <2>1, GatherKnows
<1>8. CASE Finalize(p) \/ Crash(p)
  BY <1>8 DEF Finalize, Crash, Leave, Knows
<1> QED
  BY <1>2, <1>3, <1>4, <1>5, <1>6, <1>7, <1>8 DEF ProcessStep

\* Nor does any other step, as long as p holds the lease.
LEMMA OwnerInvStep ==
  ASSUME StoreTypeOK, NodeCommitAtomic, ProcInv, LedgerInv, [Next]_vars
  PROVE  OwnerInv'
<1> SUFFICES ASSUME NEW p \in Owner, Holds(p)'
             PROVE  Knows(p)'
  BY DEF OwnerInv
<1>1. Holds(p) => Knows(p)
  BY DEF LedgerInv, OwnerInv
<1>2. CASE LeaseLapses
  BY <1>2 DEF LeaseLapses, Lapse, Holds
<1>3. CASE UNCHANGED vars
  <2>1. Holds(p) /\ UNCHANGED dbVars
    BY <1>3 DEF vars, dbVars, Holds
  <2> QED
    BY <1>1, <1>3, <2>1, KnowsFrame DEF vars, procVars
<1>4. ASSUME NEW q \in Owner \ {p}, ProcessStep(q) PROVE Knows(p)'
  <2>1. UNCHANGED dbVars
    BY <1>4, WriterOwns DEF Holds
  <2>2. Holds(p)
    BY <2>1 DEF Holds, dbVars
  <2> QED
    BY <1>1, <1>4, <2>1, <2>2, PrivateState, KnowsFrame
<1> QED
  BY <1>2, <1>3, <1>4, OwnKnows DEF Next
------------------------------------------------------------------------------
\* What every process keeps, with or without the lease.

\* A process inserts and ends attempts of its own only.
LEMMA OwnAttempts ==
  ASSUME ProcInv, NEW p \in Owner, ProcessStep(p),
         NEW a, a.by # p
  PROVE  a \in attempts' <=> a \in attempts
<1>1. CASE attempts' = attempts
  BY <1>1
<1>2. CASE attempts' # attempts
  <2>1. PICK n \in Node : NodeStep(p, n)
    BY <1>2 DEF ProcessStep, Start, StartRun, Resume, ResumeRun, ReadTasks,
                HeartbeatLost, LoseLease, Gather, Finalize, FinalizeRun,
                Crash, dbVars
  <2> DEFINE uid == UidFor(p, n)
             seq == job[p][n].seq
  <2>2. PICK status, class :
          \/ AttemptStart(p, n, uid, seq)
          \/ AttemptEnd(p, n, uid, seq, status, class)
    BY <1>2, <2>1, JobTransaction
       DEF RecordNodeBlocked, SetRunning, Commit, dbVars
  <2> HIDE DEF uid, seq
  <2>3. CASE AttemptStart(p, n, uid, seq)
    BY <2>3 DEF AttemptStart, AttemptOf
  <2>4. CASE AttemptEnd(p, n, uid, seq, status, class)
    BY <2>4 DEF AttemptEnd, AttemptOf
  <2> QED
    BY <2>2, <2>3, <2>4
<1> QED
  BY <1>1, <1>2

\* A process that is gone has no jobs.
LEMMA Forgotten ==
  ASSUME ProcInv, NEW p \in Owner, Gather(p) \/ Finalize(p) \/ Crash(p)
  PROVE  \/ /\ phase'[p] \in {"exited", "dead"}
            /\ \A n \in Node : job'[p][n].pc = "absent"
         \/ /\ phase[p] = "running" /\ phase'[p] = "finalizing"
            /\ UNCHANGED <<dbVars, resumed, snap, job, leaseLost, exit>>
<1> USE DEF ProcInv, ProcTypeOK
<1>1. NoJob.pc = "absent"
  BY DEF NoJob
<1>2. CASE /\ Forget(p)
           /\ phase' = [phase EXCEPT ![p] = "exited"]
                \/ phase' = [phase EXCEPT ![p] = "dead"]
  BY <1>1, <1>2 DEF Forget
<1> QED
  BY <1>2 DEF Gather, Finalize, Crash, Leave

LEMMA UnseenStep ==
  ASSUME ProcInv, ProcessInv, [Next]_vars, NEW p \in Owner
  PROVE  Unseen(p)'
<1> USE DEF ProcInv, ProcTypeOK
<1>1. Unseen(p)
  BY DEF ProcessInv
<1>2. CASE LeaseLapses \/ UNCHANGED vars
  BY <1>1, <1>2 DEF LeaseLapses, Lapse, vars, procVars, dbVars, Unseen
<1>3. ASSUME NEW q \in Owner \ {p}, ProcessStep(q) PROVE Unseen(p)'
  <2>1. leaseOwner' \in {leaseOwner, q}
    BY <1>3, WriterOwns DEF dbVars
  <2>2. \A a \in attempts' : a.by = p => a \in attempts
    BY <1>3, OwnAttempts
  <2>3. /\ phase'[p] = phase[p] /\ resumed'[p] = resumed[p]
        /\ job'[p] = job[p] /\ leaseLost'[p] = leaseLost[p]
    BY <1>3, PrivateState
  <2> QED
    BY <1>1, <2>1, <2>2, <2>3 DEF Unseen
<1>4. CASE ProcessStep(p)
  <2>1. CASE Start(p) \/ Resume(p)
    <3>1. /\ phase[p] = "idle" /\ phase'[p] = "claimed"
          /\ UNCHANGED <<attempts, job, leaseLost>>
      BY <2>1 DEF Start, StartRun, Resume, ResumeRun
    <3> QED
      BY <1>1, <3>1 DEF Unseen
  <2>2. CASE ReadTasks(p) \/ HeartbeatLost(p)
    <3>1. phase'[p] = "running"
      BY <2>2 DEF ReadTasks, HeartbeatLost, LoseLease, LoopFree
    <3> QED
      BY <3>1 DEF Unseen
  <2>3. ASSUME NEW n \in Node, NodeStep(p, n) PROVE Unseen(p)'
    <3>1. phase'[p] = "running"
      BY <2>3, JobPhase
    <3> QED
      BY <3>1 DEF Unseen
  <2>4. CASE Gather(p) \/ Finalize(p) \/ Crash(p)
    BY <2>4, Forgotten DEF Unseen, Gather, Finalize, Crash, Leave
  <2> QED
    BY <1>4, <2>1, <2>2, <2>3, <2>4 DEF ProcessStep
<1> QED
  BY <1>2, <1>3, <1>4 DEF Next

\* Where the step of a job may lead.
LEMMA JobGoes ==
  ASSUME ProcInv, NEW p \in Owner, NEW n \in Node, NodeStep(p, n)
  PROVE  /\ job'[p][n].pc \in {"lost", "cancelled"} =>
              leaseLost'[p]
         /\ job'[p][n].pc = "ssh" =>
              /\ AttemptStart(p, n, UidFor(p, n), job[p][n].seq)
              /\ job'[p][n].seq = job[p][n].seq
         /\ leaseLost[p] => leaseLost'[p]
         /\ FencedOut(p, n) => leaseLost'[p]
         /\ job'[p][n].pc = "raised" => Goto(p, n, "raised")
<1> USE DEF ProcInv
<1>1. JobsReady
  OBVIOUS
<1>2. CASE FencedOut(p, n)
  <2> DEFINE jobs == [job[p] EXCEPT ![n].pc = "lost"]
  <2>1. PICK late : job' = [job EXCEPT ![p] = Cancelled(jobs, late)]
    BY <1>2 DEF FencedOut, LoseLease
  <2>2. leaseLost'[p]
    BY <1>2 DEF FencedOut, LoseLease, ProcTypeOK
  <2>3. jobs[n].pc = "lost"
    <3>1. job[p] \in [Node -> GoodJob] /\ job[p][n] \in Job
      BY <1>1, NumberedJob DEF JobsReady
    <3> QED
      BY <3>1 DEF Job
  <2> HIDE DEF jobs
  <2>4. job'[p] = Cancelled(jobs, late)
    BY <2>1 DEF JobsReady
  <2>5. job'[p][n].pc = "lost"
    BY <2>3, <2>4 DEF Cancelled, Awaits
  <2> QED
    BY <2>2, <2>5
<1>3. CASE ~FencedOut(p, n)
  <2>1. leaseLost' = leaseLost
    BY <1>3, JobPhase DEF NodeStep, Acquire, Block, Checkpoint, Plan, Connect,
       Answered, CommitResult, NodeRaises, JobStep
  <2>2. CASE Acquire(p, n)
    <3>1. PICK pc : /\ Goto(p, n, pc) /\ pc \in {"lost", "block", "checkpoint"}
                    /\ pc = "lost" => leaseLost[p]
      BY <2>2 DEF Acquire
    <3> QED
      BY <1>1, <1>3, <2>1, <3>1, GotoMoves
  <2>3. CASE Block(p, n)
    BY <1>1, <1>3, <2>1, <2>3, GotoMoves DEF Block
  <2>4. CASE Checkpoint(p, n)
    <3>1. Goto(p, n, "plan") \/ Goto(p, n, "raised")
      BY <1>3, <2>4 DEF Checkpoint
    <3> QED
      BY <1>1, <1>3, <2>1, <3>1, GotoMoves
  <2>5. CASE Plan(p, n)
    <3> DEFINE last == LastAttempt(UidFor(p, n))
               r == BuildResult("FAILED", last.class, last.seq,
                                "stored", "stored")
               k == MaxSeq(UidFor(p, n)) + 1
    <3>1. CASE Goto(p, n, "raised")
      BY <1>1, <1>3, <2>1, <3>1, GotoMoves
    <3>2. CASE job' = [job EXCEPT ![p][n].pc = "commit", ![p][n].result = r]
      <4>1. job'[p][n].pc = "commit"
        <5> HIDE DEF r
        <5>1. job[p] \in [Node -> GoodJob] /\ job[p][n] \in Job
          BY <1>1, NumberedJob DEF JobsReady
        <5> QED
          BY <1>1, <3>2, <5>1 DEF JobsReady, Job
      <4> QED
        BY <1>3, <2>1, <4>1
    <3>3. CASE job' = [job EXCEPT ![p][n].pc = "connect", ![p][n].seq = k]
      <4>1. job'[p][n].pc = "connect"
        <5> HIDE DEF k
        <5>1. job[p] \in [Node -> GoodJob] /\ job[p][n] \in Job
          BY <1>1, NumberedJob DEF JobsReady
        <5> QED
          BY <1>1, <3>3, <5>1 DEF JobsReady, Job
      <4> QED
        BY <1>3, <2>1, <4>1
    <3> QED
      BY <2>5, <3>1, <3>2, <3>3 DEF Plan
  <2>6. CASE Connect(p, n)
    BY <1>1, <1>3, <2>1, <2>6, GotoMoves DEF Connect
  <2>7. ASSUME NEW a \in Answer, Answered(p, n, a)
        PROVE  job'[p][n].pc \in {"connect", "commit"}
    <3> DEFINE seq == job[p][n].seq
               r == BuildResult(AttemptStatus(a), AttemptClass(a), seq,
                                a.out, a.err)
               k == seq + 1
    <3>1. \/ job' = [job EXCEPT ![p][n].pc = "connect", ![p][n].seq = k]
          \/ job' = [job EXCEPT ![p][n].pc = "commit", ![p][n].result = r]
      BY <1>3, <2>7 DEF Answered
    <3> HIDE DEF r, k
    <3>2. job[p] \in [Node -> GoodJob] /\ job[p][n] \in Job
      BY <1>1, NumberedJob DEF JobsReady
    <3> QED
      BY <1>1, <3>1, <3>2 DEF JobsReady, Job
  <2>8. CASE CommitResult(p, n)
    <3>1. PICK pc : /\ Goto(p, n, pc) /\ pc \in {"lost", "done", "raised"}
                    /\ pc = "lost" => leaseLost[p]
      BY <1>3, <2>8 DEF CommitResult
    <3> QED
      BY <1>1, <1>3, <2>1, <3>1, GotoMoves
  <2>9. CASE NodeRaises(p, n)
    BY <1>1, <1>3, <2>1, <2>9, GotoMoves DEF NodeRaises
  <2> QED
    BY <1>3, <2>1, <2>2, <2>3, <2>4, <2>5, <2>6, <2>7, <2>8, <2>9 DEF NodeStep
<1> QED
  BY <1>2, <1>3

LEMMA GivenUpStep ==
  ASSUME ProcInv, ProcessInv, [Next]_vars, NEW p \in Owner
  PROVE  GivenUp(p)'
<1> USE DEF ProcInv, ProcTypeOK
<1>1. GivenUp(p)
  BY DEF ProcessInv
<1>2. CASE LeaseLapses \/ UNCHANGED vars
  BY <1>1, <1>2 DEF LeaseLapses, vars, procVars, GivenUp
<1>3. ASSUME NEW q \in Owner \ {p}, ProcessStep(q) PROVE GivenUp(p)'
  BY <1>1, <1>3, PrivateState DEF GivenUp
<1>4. CASE ProcessStep(p)
  <2>1. CASE Start(p) \/ Resume(p)
    BY <1>1, <2>1 DEF Start, Resume, GivenUp
  <2>2. CASE ReadTasks(p)
    <3>1. \A n \in Node : job'[p][n].pc \in {"queued", "absent"}
      BY <2>2 DEF ReadTasks, NoJob
    <3> QED
      BY <3>1 DEF GivenUp
  <2>3. CASE HeartbeatLost(p)
    BY <2>3, HeartbeatStops DEF GivenUp
  <2>4. ASSUME NEW n \in Node, NodeStep(p, n),
               NEW m \in Node, job'[p][m].pc \in {"lost", "cancelled"}
        PROVE  leaseLost'[p]
    <3>1. CASE m = n
      BY <2>4, <3>1, JobGoes
    <3>2. CASE m # n /\ job'[p][m] = job[p][m]
      BY <1>1, <2>4, <3>2, JobGoes DEF GivenUp
    <3>3. CASE m # n /\ job'[p][m] # job[p][m]
      <4>1. FencedOut(p, n)
        BY <2>4, <3>3, SMTT(30) DEF NodeStep, Acquire, Block, Checkpoint, Plan, Connect,
                          Answered, CommitResult, NodeRaises, Goto
      <4> QED
        BY <2>4, <4>1, JobGoes
    <3> QED
      BY <3>1, <3>2, <3>3
  <2>5. CASE Gather(p) \/ Finalize(p) \/ Crash(p)
    BY <1>1, <2>5, Forgotten DEF GivenUp
  <2> QED
    BY <1>4, <2>1, <2>2, <2>3, <2>4, <2>5 DEF ProcessStep, GivenUp
<1> QED
  BY <1>2, <1>3, <1>4 DEF Next

LEMMA SessionRowStep ==
  ASSUME StoreTypeOK, ProcInv, ProcessInv, [Next]_vars, NEW p \in Owner
  PROVE  SessionRow(p)'
<1> USE DEF ProcInv, ProcTypeOK
<1> DEFINE Row(n) == AttemptOf(p, UidFor(p, n), job[p][n].seq, "RUNNING",
                               NoError)
<1>1. \A n \in Node : job[p][n].pc = "ssh" => Row(n) \in attempts
  BY DEF ProcessInv, SessionRow
<1>2. \A n \in Node : Row(n).by = p
  BY DEF AttemptOf
<1>3. CASE LeaseLapses \/ UNCHANGED vars
  BY <1>1, <1>3 DEF LeaseLapses, Lapse, vars, procVars, dbVars, SessionRow,
                    AttemptOf, UidFor
<1>4. ASSUME NEW q \in Owner \ {p}, ProcessStep(q) PROVE SessionRow(p)'
  <2>1. job'[p] = job[p] /\ snap'[p] = snap[p]
    BY <1>4, PrivateState
  <2>2. \A n \in Node : Row(n)' = Row(n)
    BY <2>1 DEF AttemptOf, UidFor
  <2>3. \A n \in Node : Row(n) \in attempts' <=> Row(n) \in attempts
    BY <1>2, <1>4, OwnAttempts
  <2> QED
    BY <1>1, <2>1, <2>2, <2>3 DEF SessionRow
<1>5. CASE ProcessStep(p)
  <2>1. CASE Start(p) \/ Resume(p)
    BY <1>1, <2>1 DEF Start, StartRun, Resume, ResumeRun, SessionRow,
                      AttemptOf, UidFor
  <2>2. CASE ReadTasks(p)
    <3>1. \A n \in Node : job'[p][n].pc \in {"queued", "absent"}
      BY <2>2 DEF ReadTasks, NoJob
    <3> QED
      BY <3>1 DEF SessionRow
  <2>3. CASE HeartbeatLost(p)
    <3>1. ASSUME NEW n \in Node, job'[p][n].pc = "ssh"
          PROVE  Row(n)' \in attempts'
      <4>1. job'[p][n] = job[p][n] /\ snap' = snap /\ attempts' = attempts
        BY <2>3, <3>1, HeartbeatStops DEF dbVars
      <4> QED
        BY <1>1, <3>1, <4>1 DEF AttemptOf, UidFor
    <3> QED
      BY <3>1 DEF SessionRow
  <2>4. ASSUME NEW n \in Node, NodeStep(p, n),
               NEW m \in Node, job'[p][m].pc = "ssh"
        PROVE  Row(m)' \in attempts'
    <3>1. snap' = snap
      BY <2>4, JobPhase
    <3>2. CASE m = n
      BY <2>4, <3>1, <3>2, JobGoes DEF AttemptStart, AttemptOf, UidFor
    <3>3. CASE m # n
      <4>1. job'[p][m] = job[p][m]
        BY <2>4, <3>3, Siblings
      <4>2. Row(m)' = Row(m) /\ Row(m) \in attempts
        BY <1>1, <2>4, <3>1, <4>1 DEF AttemptOf, UidFor
      <4>3. Row(m) \in RowsOf(m)
        BY <4>2, UidForBelongs DEF RowsOf, AttemptOf
      <4> HIDE DEF Row
      <4>4. Row(m) \in attempts'
        <5>1. CASE UNCHANGED dbVars
          BY <4>2, <5>1 DEF dbVars
        <5>2. CASE NodeWrite(p, n)
          <6>1. RowsOf(m)' = RowsOf(m)
            BY <3>3, <5>2, OtherNodes
          <6> QED
            BY <4>3, <6>1 DEF RowsOf
        <5> QED
          BY <2>4, <5>1, <5>2, JobWrites
      <4> QED
        BY <4>2, <4>4
    <3> QED
      BY <3>2, <3>3
  <2>5. CASE Gather(p) \/ Finalize(p) \/ Crash(p)
    BY <1>1, <2>5, Forgotten DEF SessionRow, dbVars, AttemptOf, UidFor
  <2> QED
    BY <1>5, <2>1, <2>2, <2>3, <2>4, <2>5 DEF ProcessStep, SessionRow
<1> QED
  BY <1>3, <1>4, <1>5 DEF Next
------------------------------------------------------------------------------
\* The run.

\* Whoever writes to the tables finds the run QUEUED or RUNNING and leaves it
\* RUNNING, except for the owner that finalizes it.
LEMMA WritesWhileOpen ==
  ASSUME ProcInv, NEW p \in Owner, ProcessStep(p)
  PROVE  \/ UNCHANGED dbVars
         \/ /\ runStatus \in {"QUEUED", "RUNNING"} /\ runStatus' = "RUNNING"
            /\ UNCHANGED exit
         \/ /\ Holds(p) /\ phase[p] = "finalizing"
            /\ FinalizeRun(p, pending[p]) /\ Leave(p, ExitCode(pending[p]))
<1>1. CASE Start(p) \/ Resume(p)
  BY <1>1 DEF Start, StartRun, Resume, ResumeRun, CanResume
<1>2. CASE ReadTasks(p) \/ HeartbeatLost(p) \/ Gather(p) \/ Crash(p)
  BY <1>2 DEF ReadTasks, HeartbeatLost, LoseLease, Gather, Crash
<1>3. ASSUME NEW n \in Node, NodeStep(p, n)
      PROVE  \/ UNCHANGED dbVars
             \/ /\ runStatus = "RUNNING" /\ runStatus' = "RUNNING"
                /\ UNCHANGED exit
  BY <1>3, JobWrites, JobPhase DEF Holds
<1>4. CASE Finalize(p)
  BY <1>4 DEF Finalize, FinalizeRun
<1> QED
  BY <1>1, <1>2, <1>3, <1>4 DEF ProcessStep

\* An exit code 0 that tells the tally tells the truth: every node has its
\* execution, and it is a success with nothing to report.
LEMMA TallyTruthful ==
  ASSUME StoreTypeOK, NodeCommitAtomic,
         \A n \in Node : NodeInv(n) /\ task[n].status \in NodeTerminal,
         ExitCode(Contract!Tally) = 0
  PROVE  /\ \A e \in executions : e.status = "SUCCEEDED" /\ e.class = NoError
         /\ \A n \in Node : \E e \in executions : e.node = n
<1> DEFINE bad == Contract!Cardinality(Contract!With("FAILED"))
           degraded == \E n \in Node : [m \in Node |-> VerdictOf(m)][n].classes
                                         \cap Contract!DegradingClasses # {}
           batch == CASE bad = 0 -> "success"
               [] Contract!Cardinality(Contract!With("SUCCEEDED")) = 0
                    /\ bad > 0 -> "failed"
               [] Contract!Cardinality(Contract!With("SUCCEEDED")) > 0
                    /\ bad > 0 -> "partial"
<1>1. /\ Contract!Tally.runStatus = IF degraded THEN "DEGRADED" ELSE "SUCCESS"
      /\ Contract!Tally.batchStatus = batch
  BY DEF Contract!Tally
<1>2. /\ Contract!Tally.runStatus = "SUCCESS"
      /\ Contract!Tally.batchStatus = "success"
  BY DEF ExitCode
<1>3. Contract!DegradingClasses = DegradingClasses
  BY DEF Contract!DegradingClasses, DegradingClasses
<1>4. \A n \in Node : VerdictOf(n).classes \cap DegradingClasses = {}
  <2>1. ~degraded
    BY <1>1, <1>2
  <2> QED
    BY <1>3, <2>1
<1>5. \A n \in Node : VerdictOf(n).status # "FAILED"
  <2> DEFINE of(status) == {n \in Node : VerdictOf(n).status = status}
             ok == Contract!Cardinality(Contract!With("SUCCEEDED"))
             F  == of("FAILED")
  <2>1. ASSUME NEW status
        PROVE  /\ IsFiniteSet(of(status))
               /\ Contract!Cardinality(Contract!With(status)) \in Nat
               /\ Contract!Cardinality(Contract!With(status))
                    = Cardinality(of(status))
    <3>1. Contract!With(status) = of(status)
      BY DEF Contract!With
    <3>2. \A S : Contract!Cardinality(S) = Cardinality(S)
      BY Zenon DEF Contract!Cardinality, Cardinality
    <3>3. IsFiniteSet(of(status))
      BY StoreAssumption, FS_Subset
    <3> HIDE DEF of
    <3> QED
      BY <3>1, <3>2, <3>3, FS_CardinalityType
  <2>2. ok \in Nat /\ bad \in Nat
    BY <2>1
  <2>3. batch = "success"
    BY <1>1, <1>2
  <2>4. bad = 0
    <3> HIDE DEF ok, bad
    <3>1. bad # 0 => batch \in {"failed", "partial"}
      <4> HIDE DEF batch
      <4>1. bad # 0 /\ ok = 0 => batch = "failed"
        BY <2>2 DEF batch, ok, bad
      <4>2. bad # 0 /\ ok # 0 => batch = "partial"
        BY <2>2 DEF batch, ok, bad
      <4> QED
        BY <4>1, <4>2
    <3> QED
      BY <2>3, <3>1
  <2>5. Cardinality(F) = 0 /\ IsFiniteSet(F)
    BY <2>1, <2>4
  <2> HIDE DEF F
  <2>6. F = {}
    BY <2>5, FS_EmptySet
  <2> QED
    BY <2>6 DEF F
<1>6. \A n \in Node : task[n].status = "SUCCEEDED"
  <2>1. \A n \in Node : VerdictOf(n).status = task[n].status
    BY VerdictRead
  <2> QED
    BY <1>5, <2>1 DEF NodeTerminal
<1>7. \A n \in Node : task[n].class = NoError
  <2> SUFFICES ASSUME NEW n \in Node PROVE task[n].class = NoError
    OBVIOUS
  <2>1. task[n].class \in DegradingClasses \cup {NoError}
    BY <1>6 DEF NodeInv, VerdictOnRecord, LastReports, Reports
  <2>2. VerdictOf(n).classes = ({task[n].class} \cup FinishedData(n))
                                 \ {NoError}
    BY VerdictRead
  <2> QED
    BY <1>4, <2>1, <2>2 DEF NoError, DegradingClasses
<1>8. \A e \in executions : /\ e.node \in Node
                            /\ e.status = task[e.node].status
                            /\ e.class = task[e.node].class
  BY DEF NodeCommitAtomic, StoreTypeOK, ExecutionRow
<1> QED
  BY <1>6, <1>7, <1>8 DEF NodeCommitAtomic

LEMMA ExitTruthfulStep ==
  ASSUME StoreTypeOK, NodeCommitAtomic, ProcInv, LedgerInv, [Next]_vars
  PROVE  ExitTruthful'
<1> USE DEF ProcInv, ProcTypeOK
<1>1. ExitTruthful
  BY DEF LedgerInv, RunInv
<1>2. CASE UNCHANGED <<exit, executions, runStatus>>
  BY <1>1, <1>2 DEF ExitTruthful
<1>3. CASE LeaseLapses \/ UNCHANGED vars
  BY <1>2, <1>3 DEF LeaseLapses, Lapse, procVars, vars, dbVars
<1>4. ASSUME NEW p \in Owner, ProcessStep(p) PROVE ExitTruthful'
  <2>1. CASE UNCHANGED dbVars
    <3>1. exit' = exit \/ exit' = [exit EXCEPT ![p] = 2]
      <4>1. CASE Finalize(p) /\ ~Leave(p, 2)
        <5>1. runStatus' # runStatus
          BY <4>1 DEF Finalize, FinalizeRun, Holds, SummaryPending, Summary,
                      RunTerminal
        <5> QED
          BY <2>1, <5>1 DEF dbVars
      <4>2. CASE Leave(p, 2)
        BY <4>2 DEF Leave
      <4>3. ASSUME NEW n \in Node, NodeStep(p, n) PROVE exit' = exit
        BY <4>3, JobPhase
      <4> QED
        BY <1>4, <4>1, <4>2, <4>3
           DEF ProcessStep, Start, Resume, ReadTasks, HeartbeatLost,
               LoseLease, Gather, Crash
    <3> QED
      BY <1>1, <2>1, <3>1 DEF ExitTruthful, dbVars
  <2>2. CASE /\ runStatus \in {"QUEUED", "RUNNING"} /\ runStatus' = "RUNNING"
             /\ UNCHANGED exit
    BY <1>1, <2>2 DEF ExitTruthful, RunTerminal
  <2>3. CASE /\ Holds(p) /\ phase[p] = "finalizing"
             /\ FinalizeRun(p, pending[p]) /\ Leave(p, ExitCode(pending[p]))
    <3>1. \A q \in Owner : exit[q] \notin {0, 1}
      BY <1>1, <2>3 DEF ExitTruthful, Holds, RunTerminal
    <3>2. /\ exit' = [exit EXCEPT ![p] = ExitCode(pending[p])]
          /\ runStatus' \in RunTerminal
          /\ executions' = executions
      BY <2>3 DEF Leave, FinalizeRun, SummaryPending, Summary
    <3>3. /\ \A n \in Node : NodeInv(n) /\ task[n].status \in NodeTerminal
          /\ pending[p] = Contract!Tally
      BY <2>3 DEF LedgerInv, OwnerInv, Knows, ReportView
    <3>4. ExitCode(pending[p]) = 0 =>
            /\ \A e \in executions : e.status = "SUCCEEDED"
                                       /\ e.class = NoError
            /\ \A n \in Node : \E e \in executions : e.node = n
      BY <3>3, TallyTruthful
    <3> QED
      BY <3>1, <3>2, <3>4 DEF ExitTruthful
  <2> QED
    BY <1>4, <2>1, <2>2, <2>3, WritesWhileOpen
<1> QED
  BY <1>3, <1>4 DEF Next

\* A commit counts the attempts of the ledger, and after it nothing counts
\* them any more.
LEMMA CountStep ==
  ASSUME StoreTypeOK, NodeCommitAtomic, ProcInv, LedgerInv, [Next]_vars
  PROVE  \A e \in executions' : e.count = task'[e.node].attemptCount
<1>1. \A e \in executions : /\ e.count = task[e.node].attemptCount
                            /\ e.node \in Node
                            /\ task[e.node].status \in NodeTerminal
  BY DEF LedgerInv, RunInv, NodeCommitAtomic, StoreTypeOK, ExecutionRow
<1>2. CASE executions' = executions /\ task' = task
  BY <1>1, <1>2
<1>3. CASE LeaseLapses \/ UNCHANGED vars
  BY <1>2, <1>3 DEF LeaseLapses, Lapse, vars, dbVars
<1>4. ASSUME NEW p \in Owner, ProcessStep(p)
      PROVE  \A e \in executions' : e.count = task'[e.node].attemptCount
  <2>1. CASE Resume(p)
    BY <1>1, <2>1 DEF Resume, ResumeRun, NodeTerminal
  <2>2. CASE Start(p) \/ ReadTasks(p) \/ HeartbeatLost(p) \/ Gather(p)
               \/ Finalize(p) \/ Crash(p)
    BY <1>2, <2>2 DEF Start, StartRun, ReadTasks, HeartbeatLost, LoseLease,
                      Gather, Finalize, FinalizeRun, Crash, dbVars
  <2>3. ASSUME NEW n \in Node, NodeStep(p, n),
               NEW e \in executions'
        PROVE  e.count = task'[e.node].attemptCount
    <3> DEFINE uid == UidFor(p, n)
               r   == job[p][n].result
    <3>1. CASE Commit(p, n, uid, r)
      <4>1. executions' # executions
        <5>1. \A x \in executions : x.uid # uid
          BY <3>1 DEF Commit, Committable
        <5> DEFINE row == [uid |-> uid, node |-> n, status |-> r.status,
                           count |-> r.count, class |-> r.class]
        <5>2. row \in executions' /\ row.uid = uid
          BY <3>1 DEF Commit
        <5> QED
          BY <5>1, <5>2
      <4>2. job[p][n].pc = "commit" /\ phase[p] = "running" /\ Holds(p)
        BY <2>3, <4>1, JobTransaction
           DEF RecordNodeBlocked, SetRunning, AttemptStart, AttemptEnd, dbVars
      <4>3. r.count = task[n].attemptCount
        BY <4>2 DEF LedgerInv, OwnerInv, Knows, View, Executing
      <4>4. /\ task' = [task EXCEPT ![n] = CommittedTask(n, uid, r)]
            /\ executions' = executions \cup
                 {[uid |-> uid, node |-> n, status |-> r.status,
                   count |-> r.count, class |-> r.class]}
        BY <3>1 DEF Commit
      <4>5. task[n] \in TaskRow
        BY DEF StoreTypeOK
      <4>6. CommittedTask(n, uid, r).attemptCount = task[n].attemptCount
        BY <4>5 DEF CommittedTask, TaskRow
      <4>7. \A m \in Node : task'[m].attemptCount = task[m].attemptCount
        BY <4>4, <4>6 DEF StoreTypeOK
      <4> QED
        BY <1>1, <4>3, <4>4, <4>7
    <3>2. CASE ~Commit(p, n, uid, r)
      <4>1. /\ executions' = executions
            /\ task' = task \/ task' = [task EXCEPT ![n] = task'[n]]
            /\ task[n].status \notin NodeTerminal
                 \/ task'[n].attemptCount = task[n].attemptCount
        <5>1. CASE UNCHANGED dbVars
          BY <5>1 DEF dbVars
        <5>2. CASE SetRunning(p, n, uid)
          <6>1. task[n] \in TaskRow
            BY DEF StoreTypeOK
          <6>2. [task[n] EXCEPT !.status = "RUNNING", !.uid = uid].attemptCount
                  = task[n].attemptCount
            BY <6>1 DEF TaskRow
          <6> QED
            BY <5>2, <6>2 DEF SetRunning, StoreTypeOK
        <5>3. CASE RecordNodeBlocked(p, n, uid)
          BY <5>3 DEF RecordNodeBlocked
        <5>4. CASE AttemptStart(p, n, uid, job[p][n].seq)
          BY <5>4 DEF AttemptStart, Checkpointed, NodeTerminal, StoreTypeOK
        <5>5. ASSUME NEW a \in Answer,
                     AttemptEnd(p, n, uid, job[p][n].seq, AttemptStatus(a),
                                AttemptClass(a))
              PROVE  /\ executions' = executions
                     /\ task' = task \/ task' = [task EXCEPT ![n] = task'[n]]
                     /\ task[n].status \notin NodeTerminal
          BY <5>5 DEF AttemptEnd, Checkpointed, NodeTerminal, StoreTypeOK
        <5> QED
          BY <2>3, <3>2, <5>1, <5>2, <5>3, <5>4, <5>5, JobTransaction
      <4> QED
        BY <1>1, <2>3, <4>1 DEF StoreTypeOK
    <3> QED
      BY <3>1, <3>2
  <2> QED
    BY <1>4, <2>1, <2>2, <2>3 DEF ProcessStep
<1> QED
  BY <1>3, <1>4 DEF Next

\* A node that was reported blocked is undecided, so the run is not finalized.
LEMMA BlockedRunStep ==
  ASSUME StoreTypeOK, ProcInv, LedgerInv, [Next]_vars,
         NEW n \in Node, BlockedNode(n)'
  PROVE  runStatus' = "RUNNING"
<1>1. BlockedNode(n) => runStatus = "RUNNING" /\ task[n].status = "UNKNOWN"
  BY DEF LedgerInv, RunInv, NodeInv, BlockedOf
<1>2. CASE UNCHANGED <<nodeEvents, runStatus>>
  BY <1>1, <1>2 DEF BlockedNode
<1>3. CASE LeaseLapses \/ UNCHANGED vars
  BY <1>2, <1>3 DEF LeaseLapses, Lapse, vars, dbVars
<1>4. ASSUME NEW p \in Owner, ProcessStep(p) PROVE runStatus' = "RUNNING"
  <2>1. CASE UNCHANGED dbVars
    BY <1>2, <2>1 DEF dbVars
  <2>2. CASE /\ Holds(p) /\ phase[p] = "finalizing"
             /\ FinalizeRun(p, pending[p])
    <3>1. task[n].status \in NodeTerminal
      BY <2>2 DEF LedgerInv, OwnerInv, Knows, ReportView
    <3>2. BlockedNode(n)
      BY <2>2 DEF FinalizeRun, BlockedNode
    <3> QED
      BY <1>1, <3>1, <3>2 DEF NodeTerminal
  <2> QED
    BY <1>4, <2>1, <2>2, WritesWhileOpen
<1> QED
  BY <1>3, <1>4 DEF Next

LEMMA QueuedStep ==
  ASSUME ProcInv, LedgerInv, [Next]_vars, runStatus' = "QUEUED"
  PROVE  \A n \in Node : task'[n].status = "PENDING"
<1>1. runStatus = "QUEUED" => \A n \in Node : task[n].status = "PENDING"
  BY DEF LedgerInv, RunInv
<1>2. CASE UNCHANGED <<task, runStatus>>
  BY <1>1, <1>2
<1>3. CASE LeaseLapses \/ UNCHANGED vars
  BY <1>2, <1>3 DEF LeaseLapses, Lapse, vars, dbVars
<1>4. ASSUME NEW p \in Owner, ProcessStep(p) PROVE UNCHANGED dbVars
  BY <1>4, WritesWhileOpen
     DEF FinalizeRun, ProcInv, SummaryPending, Summary, RunTerminal
<1> QED
  BY <1>2, <1>3, <1>4 DEF Next, dbVars

------------------------------------------------------------------------------
\* The invariant.

LEMMA InitLedgerInv == Init => LedgerInv
<1> SUFFICES ASSUME Init PROVE LedgerInv
  OBVIOUS
<1> USE DEF Init, DbInit
<1>1. ASSUME NEW n \in Node PROVE NodeInv(n)
  <2>1. /\ RowsOf(n) = {} /\ nodeEvents[n] = <<>>
        /\ task[n] = [status |-> "PENDING", uid |-> NoUid, attemptCount |-> 0,
                      class |-> NoError]
    BY DEF RowsOf
  <2>2. LedgerOf(n) /\ BudgetOf(n) /\ ErrorsOf(n)
    <3>1. 1..0 = {}
      OBVIOUS
    <3> QED
      BY <2>1, <3>1 DEF LedgerOf, BudgetOf, ErrorsOf
  <2>3. ReplayOf(n) /\ PendingBlank(n) /\ VerdictOnRecord(n)
    BY <2>1 DEF ReplayOf, PendingBlank, VerdictOnRecord, NodeTerminal
  <2>4. BlockedOf(n)
    BY <2>1 DEF BlockedOf, BlockedNode
  <2> QED
    BY <2>2, <2>3, <2>4 DEF NodeInv
<1>2. OwnerInv
  BY DEF OwnerInv, Holds
<1>3. ProcessInv
  BY StoreAssumption
     DEF ProcessInv, Unseen, GivenUp, SessionRow, NoJob
<1>4. RunInv
  <2>1. \A n \in Node : ~BlockedNode(n)
    BY DEF BlockedNode
  <2>2. ExitTruthful
    BY DEF ExitTruthful, NoExit
  <2> QED
    BY <2>1, <2>2 DEF RunInv
<1> QED
  BY <1>1, <1>2, <1>3, <1>4 DEF LedgerInv

LEMMA LedgerInvStep ==
  ASSUME StoreTypeOK, NodeCommitAtomic, ProcInv, LedgerInv, [Next]_vars
  PROVE  LedgerInv'
<1>1. \A n \in Node : NodeInv(n)'
  BY NodeInvStep
<1>2. OwnerInv'
  BY OwnerInvStep
<1>3. ProcessInv'
  BY UnseenStep, GivenUpStep, SessionRowStep DEF LedgerInv, ProcessInv
<1>4. RunInv'
  BY QueuedStep, BlockedRunStep, CountStep, ExitTruthfulStep DEF RunInv
<1> QED
  BY <1>1, <1>2, <1>3, <1>4 DEF LedgerInv

\* The rows of every node tell one story, the process that holds the lease
\* knows it, and every other process can do no more harm.
THEOREM LedgerInvariant == Spec => []LedgerInv
<1>1. BatchInv /\ NodeCommitAtomic /\ LedgerInv /\ [Next]_vars => LedgerInv'
  BY LedgerInvStep DEF BatchInv
<1> QED
  BY InitLedgerInv, <1>1, BatchInvariant, RunNodeCommitAtomic, PTL DEF Spec

------------------------------------------------------------------------------
\* What the invariant says of the tables.

\* record_attempt, get_attempt_max_seq: crashes, resumes and stale owners never
\* reset, skip, duplicate or fork the attempts of a node.
THEOREM LedgerNeverForks == Spec => []AttemptLedger
<1>1. LedgerInv => AttemptLedger
  BY DEF LedgerInv, NodeInv, LedgerOf, RowsOf, AttemptLedger
<1> QED
  BY LedgerInvariant, <1>1, PTL

\* _resume_disposition, should_retry: whoever resumes a run, a node gets no
\* more retries after an error than the error matrix allows.
THEOREM BudgetNeverExceeded == Spec => []RetryBudget
<1>1. BatchInv /\ LedgerInv => RetryBudget
  <2> SUFFICES ASSUME BatchInv, LedgerInv,
                      NEW a \in attempts, NEW b \in attempts,
                      a.uid = b.uid /\ b.seq = a.seq + 1
               PROVE  \/ a.status = "FAILED" /\ ShouldRetry(a.class, a.seq)
                      \/ a.status \in {"RUNNING", "SUCCEEDED"} /\ a.by # b.by
    BY DEF RetryBudget
  <2>1. a.uid \in Owner \X Node
    BY DEF BatchInv, StoreTypeOK, AttemptRow, Uid
  <2>2. PICK n \in Node : a.uid \in UidsOf(n)
    BY <2>1 DEF UidsOf
  <2>3. a \in RowsOf(n) /\ b \in RowsOf(n) /\ BudgetOf(n)
    BY <2>2 DEF RowsOf, LedgerInv, NodeInv
  <2> QED
    BY <2>3 DEF BudgetOf
<1> QED
  BY BatchInvariant, LedgerInvariant, <1>1, PTL

\* build_execution_result, _synthesize_exhausted: a committed result tells
\* what the last attempt of its node tells, also when another process made it.
THEOREM ResultsMatchLedger == Spec => []ResultMatchesLedger
<1>1. BatchInv /\ NodeCommitAtomic /\ LedgerInv => ResultMatchesLedger
  <2> SUFFICES ASSUME BatchInv, NodeCommitAtomic, LedgerInv,
                      NEW e \in executions
               PROVE  LET last == LastAttempt(e.uid)
                      IN /\ AttemptsOf(e.uid) # {}
                         /\ e.count = last.seq
                         /\ e.count = task[e.node].attemptCount
                         /\ Reports(e.status, e.class, last)
    BY DEF ResultMatchesLedger, Reports
  <2> DEFINE n == e.node
  <2>1. /\ n \in Node /\ e.uid \in UidsOf(n)
        /\ task[n].status = e.status /\ task[n].uid = e.uid
        /\ task[n].class = e.class /\ task[n].status \in NodeTerminal
    BY DEF NodeCommitAtomic, BatchInv, StoreTypeOK, ExecutionRow
  <2>2. NodeInv(n) /\ e.count = task[n].attemptCount
    BY <2>1 DEF LedgerInv, RunInv
  <2>3. PICK a \in RowsOf(n) : /\ a.seq = task[n].attemptCount
                               /\ Reports(e.status, e.class, a)
    BY <2>1, <2>2 DEF NodeInv, VerdictOnRecord, LastReports
  <2>4. StoreTypeOK /\ LedgerOf(n)
    BY <2>2 DEF BatchInv, NodeInv
  <2>5. /\ AttemptsOf(e.uid) = RowsOf(n)
        /\ LastAttempt(e.uid).seq = task[n].attemptCount
        /\ a = LastAttempt(e.uid)
    BY <2>1, <2>3, <2>4, LedgerRead
  <2> QED
    BY <2>2, <2>3, <2>5
<1> QED
  BY BatchInvariant, RunNodeCommitAtomic, LedgerInvariant, <1>1, PTL

\* events.py: replaying the events of a node gives its checkpoint, whichever
\* owners wrote them.
THEOREM AuditReplays == Spec => []AuditReplay
<1>1. LedgerInv => AuditReplay
  BY DEF LedgerInv, NodeInv, ReplayOf, AuditReplay
<1> QED
  BY LedgerInvariant, <1>1, PTL

\* _execute_node: every session on a host has its RUNNING attempt on record,
\* and as long as its process owns the lease the checkpoint mirrors it.
THEOREM SessionsOnRecord == Spec => []SessionOnRecord
<1>1. LedgerInv => SessionOnRecord
  <2> SUFFICES ASSUME LedgerInv, NEW p \in Owner, NEW n \in Node,
                      job[p][n].pc = "ssh"
               PROVE  /\ AttemptOf(p, UidFor(p, n), job[p][n].seq, "RUNNING",
                                   NoError) \in attempts
                      /\ Holds(p) =>
                           /\ Checkpointed(n, UidFor(p, n))
                           /\ task[n].attemptCount = job[p][n].seq
    BY DEF SessionOnRecord
  <2>1. SessionRow(p) /\ Unseen(p)
    BY DEF LedgerInv, ProcessInv
  <2>2. phase[p] = "running"
    BY <2>1 DEF Unseen, Settled
  <2>3. Holds(p) => View(p, n)
    BY <2>2 DEF LedgerInv, OwnerInv, Knows
  <2> QED
    BY <2>1, <2>3 DEF SessionRow, View, Executing
<1> QED
  BY LedgerInvariant, <1>1, PTL

\* record_node_blocked: a node that was reported blocked stays undecided, with
\* its attempts used up, in a run that is not finalized.
THEOREM BlockedStays == Spec => []BlockedStaysOpen
<1>1. LedgerInv => BlockedStaysOpen
  BY DEF LedgerInv, NodeInv, RunInv, BlockedOf, Spent, BlockedStaysOpen
<1> QED
  BY LedgerInvariant, <1>1, PTL

\* _exit_code: an exit code other than 2 is given once, by the process that
\* finalized the run, and 0 only if every node has succeeded cleanly.
THEOREM ExitIsTruthful == Spec => []ExitTruthful
<1>1. LedgerInv => ExitTruthful
  BY DEF LedgerInv, RunInv
<1> QED
  BY LedgerInvariant, <1>1, PTL

------------------------------------------------------------------------------
\* What no step may do.

\* The owner's job writes to a checkpoint that is not terminal, and does not
\* change its uid.
LEMMA JobWritesOpenNode ==
  ASSUME StoreTypeOK, NodeCommitAtomic, ProcInv, LedgerInv,
         NEW p \in Owner, NEW n \in Node, NodeStep(p, n)
  PROVE  \/ UNCHANGED dbVars
         \/ /\ Reliable(p, n)
            /\ task[n].status \notin NodeTerminal
            /\ task[n].uid \in {NoUid, UidFor(p, n)}
<1> SUFFICES ASSUME ~UNCHANGED dbVars
             PROVE  /\ Reliable(p, n)
                    /\ task[n].status \notin NodeTerminal
                    /\ task[n].uid \in {NoUid, UidFor(p, n)}
  OBVIOUS
<1>1. /\ phase[p] = "running" /\ Holds(p)
      /\ job[p][n].pc \in {"block", "checkpoint", "connect", "ssh", "commit"}
  BY JobTransaction
<1>2. Reliable(p, n)
  BY <1>1 DEF LedgerInv, OwnerInv, Knows, Reliable
<1>3. CASE job[p][n].pc \in {"block", "checkpoint"}
  <2>1. task[n].uid \in {NoUid, UidFor(p, n)}
    BY <1>2, <1>3, UidForTask
  <2>2. task[n] = snap[p][n] /\ job[p][n].pc # "absent"
    BY <1>2, <1>3 DEF Reliable, View, Snapshot
  <2>3. task[n].status \in {"PENDING", "UNKNOWN"}
    BY <1>2, <2>2, DispatchedStatus
  <2> QED
    BY <1>2, <2>1, <2>3 DEF NodeTerminal
<1>4. CASE job[p][n].pc \in {"connect", "ssh", "commit"}
  <2>1. Checkpointed(n, UidFor(p, n))
    BY <1>2, <1>4 DEF Reliable, View, Executing
  <2> QED
    BY <1>2, <2>1 DEF Checkpointed, NodeTerminal
<1> QED
  BY <1>1, <1>3, <1>4

LEMMA HistoryStep ==
  ASSUME StoreTypeOK, NodeCommitAtomic, ProcInv, LedgerInv, [Next]_vars
  PROVE  /\ executions \subseteq executions'
         /\ {a \in attempts : a.status # "RUNNING"} \subseteq attempts'
         /\ \A n \in Node :
              /\ task[n].uid # NoUid => task'[n].uid = task[n].uid
              /\ task[n].attemptCount <= task'[n].attemptCount
              /\ task[n].status \in NodeTerminal => task'[n] = task[n]
<1> DEFINE Kept(n) ==
             /\ task[n].uid # NoUid => task'[n].uid = task[n].uid
             /\ task[n].attemptCount <= task'[n].attemptCount
             /\ task[n].status \in NodeTerminal => task'[n] = task[n]
           Rows == /\ executions \subseteq executions'
                   /\ {a \in attempts : a.status # "RUNNING"}
                        \subseteq attempts'
<1>1. \A n \in Node : task[n] \in TaskRow /\ task[n].attemptCount \in Nat
  <2>1. \A n \in Node : task[n] \in TaskRow
    BY DEF StoreTypeOK
  <2> QED
    BY <2>1 DEF TaskRow, AttemptCap
<1>2. CASE UNCHANGED <<task, attempts, executions>>
  BY <1>1, <1>2
<1>3. CASE LeaseLapses \/ UNCHANGED vars
  BY <1>2, <1>3 DEF LeaseLapses, Lapse, vars, dbVars
<1>4. ASSUME NEW p \in Owner, ProcessStep(p)
      PROVE  Rows /\ \A n \in Node : Kept(n)
  <2>1. CASE Start(p) \/ ReadTasks(p) \/ HeartbeatLost(p) \/ Gather(p)
               \/ Finalize(p) \/ Crash(p)
    BY <1>2, <2>1 DEF Start, StartRun, ReadTasks, HeartbeatLost, LoseLease,
                      Gather, Finalize, FinalizeRun, Crash, dbVars
  <2>2. CASE Resume(p)
    <3>1. Rows
      BY <2>2 DEF Resume, ResumeRun
    <3>2. ASSUME NEW n \in Node PROVE Kept(n)
      <4>1. task'[n] = IF task[n].status = "RUNNING"
                       THEN [task[n] EXCEPT !.status = "UNKNOWN"] ELSE task[n]
        BY <2>2 DEF Resume, ResumeRun
      <4>2. /\ [task[n] EXCEPT !.status = "UNKNOWN"].uid = task[n].uid
            /\ [task[n] EXCEPT !.status = "UNKNOWN"].attemptCount
                 = task[n].attemptCount
        BY <1>1 DEF TaskRow
      <4> QED
        BY <1>1, <4>1, <4>2 DEF NodeTerminal
    <3> QED
      BY <3>1, <3>2
  <2>3. ASSUME NEW n \in Node, NodeStep(p, n)
        PROVE  Rows /\ \A m \in Node : Kept(m)
    <3> DEFINE uid == UidFor(p, n)
               j   == job[p][n]
    <3>1. CASE UNCHANGED dbVars
      BY <1>2, <3>1 DEF dbVars
    <3>2. ASSUME ~UNCHANGED dbVars
          PROVE  Rows /\ Kept(n)
      <4>1. /\ task[n].status \notin NodeTerminal
            /\ task[n].uid \in {NoUid, uid}
        BY <2>3, <3>2, JobWritesOpenNode
      <4>2. j \in Job /\ j.seq \in 0..AttemptCap
        BY NumberedJob DEF ProcInv
      <4>3. j.seq \in Nat
        BY <4>2 DEF AttemptCap
      <4> HIDE DEF uid, j
      <4>4. CASE RecordNodeBlocked(p, n, uid)
        BY <1>2, <4>4 DEF RecordNodeBlocked
      <4>5. CASE SetRunning(p, n, uid)
        <5>1. Rows /\ task'[n] = [task[n] EXCEPT !.status = "RUNNING",
                                                 !.uid = uid]
          BY <4>5 DEF SetRunning, StoreTypeOK
        <5>2. task'[n].uid = uid
                /\ task'[n].attemptCount = task[n].attemptCount
          BY <1>1, <5>1 DEF TaskRow
        <5> QED
          BY <1>1, <4>1, <5>1, <5>2
      <4>6. CASE AttemptStart(p, n, uid, j.seq)
        <5>1. /\ Rows /\ task'[n] = [task[n] EXCEPT !.attemptCount = j.seq]
              /\ task[n].attemptCount < j.seq
          BY <4>6 DEF AttemptStart, StoreTypeOK
        <5>2. task'[n].uid = task[n].uid /\ task'[n].attemptCount = j.seq
          BY <1>1, <5>1 DEF TaskRow
        <5> QED
          BY <1>1, <4>1, <4>3, <5>1, <5>2
      <4>7. ASSUME NEW status, NEW class,
                   AttemptEnd(p, n, uid, j.seq, status, class)
            PROVE  Rows /\ Kept(n)
        <5>1. Rows
          BY <4>7 DEF AttemptEnd, AttemptOf
        <5> DEFINE k == IF task[n].attemptCount < j.seq THEN j.seq
                        ELSE task[n].attemptCount
        <5>2. task'[n] = [task[n] EXCEPT !.attemptCount = k]
          BY <4>7 DEF AttemptEnd, StoreTypeOK
        <5>3. task[n].attemptCount <= k
          BY <1>1, <4>3
        <5> HIDE DEF k
        <5>4. task'[n].uid = task[n].uid /\ task'[n].attemptCount = k
          BY <1>1, <5>2 DEF TaskRow
        <5> QED
          BY <4>1, <5>1, <5>3, <5>4
      <4>8. CASE Commit(p, n, uid, j.result)
        <5>1. Rows /\ task'[n] = CommittedTask(n, uid, j.result)
          BY <4>8 DEF Commit, StoreTypeOK
        <5>2. task'[n].uid = uid
                /\ task'[n].attemptCount = task[n].attemptCount
          BY <1>1, <5>1 DEF CommittedTask, TaskRow
        <5> QED
          BY <1>1, <4>1, <5>1, <5>2
      <4> QED
        BY <2>3, <3>2, <4>4, <4>5, <4>6, <4>7, <4>8, JobTransaction
           DEF uid, j
    <3>3. ASSUME ~UNCHANGED dbVars, NEW m \in Node \ {n}
          PROVE  Kept(m)
      <4>1. task'[m] = task[m]
        BY <2>3, <3>3, JobWrites, OtherNodes
      <4> QED
        BY <1>1, <4>1
    <3> QED
      BY <3>1, <3>2, <3>3
  <2> QED
    BY <1>4, <2>1, <2>2, <2>3 DEF ProcessStep
<1> QED
  BY <1>3, <1>4 DEF Next

\* set_node_task, record_attempt, commit_node_result: an execution_uid, an
\* ended attempt, an execution and a terminal checkpoint are written once, and
\* attempt_count only grows, whoever owns the run.
THEOREM HistoryIsKept == Spec => HistoryKept
<1>1. BatchInv /\ NodeCommitAtomic /\ LedgerInv /\ [Next]_vars =>
        /\ executions \subseteq executions'
        /\ {a \in attempts : a.status # "RUNNING"} \subseteq attempts'
        /\ \A n \in Node :
             /\ task[n].uid # NoUid => task'[n].uid = task[n].uid
             /\ task[n].attemptCount <= task'[n].attemptCount
             /\ task[n].status \in NodeTerminal => task'[n] = task[n]
  BY HistoryStep DEF BatchInv
<1> QED
  BY <1>1, BatchInvariant, RunNodeCommitAtomic, LedgerInvariant, PTL
     DEF Spec, HistoryKept

------------------------------------------------------------------------------
\* Without faults the owner is never refused.

\* No write of the job is fenced out.
LEMMA NotFencedOut ==
  ASSUME StoreTypeOK, NodeCommitAtomic, ProcInv, LedgerInv,
         NEW p \in Owner, NEW n \in Node, NodeStep(p, n), Holds(p)
  PROVE  JobStep
<1> DEFINE uid == UidFor(p, n)
           seq == job[p][n].seq
<1>1. phase[p] = "running"
  BY JobPhase
<1>2. Reliable(p, n) /\ SessionRow(p)
  BY <1>1 DEF LedgerInv, OwnerInv, Knows, ProcessInv, Reliable
<1>3. CASE Connect(p, n)
  <2>1. Checkpointed(n, uid) /\ seq = task[n].attemptCount + 1
    BY <1>2, <1>3 DEF Connect, At, Reliable, View, Executing
  <2>2. task[n] \in TaskRow
    BY DEF StoreTypeOK
  <2>3. task[n].attemptCount < seq
    BY <2>1, <2>2 DEF TaskRow, AttemptCap
  <2> QED
    BY <1>3, <2>1, <2>3 DEF Connect
<1>4. ASSUME NEW a \in Answer, Answered(p, n, a)
      PROVE  JobStep
  <2>1. /\ Checkpointed(n, uid)
        /\ AttemptOf(p, uid, seq, "RUNNING", NoError) \in attempts
    BY <1>2, <1>4 DEF Answered, At, Reliable, View, Executing, SessionRow
  <2> QED
    BY <1>4, <2>1 DEF Answered
<1> QED
  BY <1>3, <1>4 DEF NodeStep, Acquire, Block, Checkpoint, Plan, CommitResult,
                    NodeRaises

\* No job of the owner raises.
LEMMA NothingRaised ==
  ASSUME StoreTypeOK, NodeCommitAtomic, ProcInv, LedgerInv, ~Faults,
         NEW p \in Owner, NEW n \in Node, NodeStep(p, n), Holds(p),
         ~leaseLost[p]
  PROVE  job'[p][n].pc # "raised"
<1>1. phase[p] = "running"
  BY JobPhase
<1>2. Reliable(p, n) /\ SessionRow(p)
  BY <1>1 DEF LedgerInv, OwnerInv, Knows, ProcessInv, Reliable
<1>3. JobsReady
  BY DEF ProcInv
<1>4. CASE Acquire(p, n)
  <2>1. PICK pc \in {"lost", "block", "checkpoint"} : Goto(p, n, pc)
    BY <1>4 DEF Acquire
  <2> QED
    BY <1>3, <2>1, GotoMoves
<1>5. CASE Block(p, n)
  <2>1. Goto(p, n, "blocked")
    BY <1>2, <1>5 DEF Block, Reliable
  <2> QED
    BY <1>3, <2>1, GotoMoves
<1>6. CASE Checkpoint(p, n)
  BY <1>2, <1>6, CheckpointKeepsView
<1>7. CASE Plan(p, n)
  BY <1>2, <1>7, PlanKeepsView
<1>8. CASE Connect(p, n)
  BY <1>2, <1>8, ConnectKeepsView
<1>9. ASSUME NEW a \in Answer, Answered(p, n, a)
      PROVE  job'[p][n].pc # "raised"
  BY <1>2, <1>9, AnsweredKeepsView
<1>10. CASE CommitResult(p, n)
  BY <1>2, <1>10, CommitKeepsView
<1> QED
  BY <1>4, <1>5, <1>6, <1>7, <1>8, <1>9, <1>10 DEF NodeStep, NodeRaises

LEMMA UndisturbedStep ==
  ASSUME StoreTypeOK, NodeCommitAtomic, ProcInv, LedgerInv, LedgerInv',
         ~Faults, LiveOwnerUndisturbed, [Next]_vars,
         NEW p \in Owner, Holds(p)'
  PROVE  /\ ~leaseLost'[p]
         /\ \A n \in Node :
              job'[p][n].pc \notin {"lost", "cancelled", "raised"}
<1> USE DEF ProcInv, ProcTypeOK
<1>1. /\ Unseen(p) /\ GivenUp(p)'
      /\ Holds(p) => /\ ~leaseLost[p]
                     /\ \A n \in Node : job[p][n].pc # "raised"
  BY DEF LedgerInv, ProcessInv, LiveOwnerUndisturbed
<1> SUFFICES /\ ~leaseLost'[p]
             /\ \A n \in Node : job'[p][n].pc # "raised"
  BY <1>1 DEF GivenUp
<1>2. CASE LeaseLapses
  BY <1>2 DEF LeaseLapses, Lapse, Holds
<1>3. CASE UNCHANGED vars
  BY <1>1, <1>3 DEF vars, procVars, dbVars, Holds
<1>4. ASSUME NEW q \in Owner \ {p}, ProcessStep(q)
      PROVE  /\ ~leaseLost'[p]
             /\ \A n \in Node : job'[p][n].pc # "raised"
  <2>1. UNCHANGED dbVars
    BY <1>4, WriterOwns DEF Holds
  <2>2. Holds(p)
    BY <2>1 DEF Holds, dbVars
  <2> QED
    BY <1>1, <1>4, <2>2, PrivateState
<1>5. CASE ProcessStep(p)
  <2>1. CASE Start(p) \/ Resume(p)
    BY <1>1, <2>1 DEF Start, Resume, Unseen
  <2>2. CASE ReadTasks(p)
    <3>1. ~leaseLost'[p]
      BY <1>1, <2>2 DEF ReadTasks, Unseen
    <3>2. \A n \in Node : job'[p][n].pc \in {"queued", "absent"}
      BY <2>2 DEF ReadTasks, NoJob
    <3> QED
      BY <3>1, <3>2
  <2>3. ~HeartbeatLost(p)
    BY DEF HeartbeatLost, LoseLease, dbVars, CanRenew, Holds
  <2>4. ASSUME NEW n \in Node, NodeStep(p, n)
        PROVE  /\ ~leaseLost'[p]
               /\ \A m \in Node : job'[p][m].pc # "raised"
    <3>1. Holds(p)
      BY <2>4, JobWrites DEF Holds, dbVars
    <3>2. leaseLost' = leaseLost
      BY <2>4, <3>1, NotFencedOut DEF JobStep
    <3>3. job'[p][n].pc # "raised"
      BY <1>1, <2>4, <3>1, NothingRaised
    <3>4. \A m \in Node \ {n} : job'[p][m].pc # "raised"
      BY <1>1, <2>4, <3>1, Siblings
    <3> QED
      BY <1>1, <3>1, <3>2, <3>3, <3>4
  <2>5. CASE Gather(p) \/ Finalize(p) \/ Crash(p)
    <3>1. CASE Forget(p)
      BY <3>1 DEF Forget, NoJob
    <3>2. CASE Gather(p) /\ UNCHANGED <<dbVars, job, leaseLost>>
      BY <1>1, <3>2 DEF Holds, dbVars
    <3> QED
      BY <2>5, <3>1, <3>2 DEF Gather, Finalize, Crash, Leave
  <2> QED
    BY <1>5, <2>1, <2>2, <2>3, <2>4, <2>5 DEF ProcessStep
<1> QED
  BY <1>2, <1>3, <1>4, <1>5 DEF Next

\* Every WFTLeaseLostError, cap guard, illegal transition and replay conflict
\* hits a process that does not hold the lease any more.
THEOREM OwnerNeverDisturbed == Spec => []LiveOwnerUndisturbed
<1>1. Init => LiveOwnerUndisturbed
  BY DEF Init, DbInit, Holds, LiveOwnerUndisturbed
<1>2. BatchInv /\ NodeCommitAtomic /\ LedgerInv /\ LedgerInv'
        /\ LiveOwnerUndisturbed /\ [Next]_vars => LiveOwnerUndisturbed'
  <2> SUFFICES ASSUME BatchInv, NodeCommitAtomic, LedgerInv, LedgerInv',
                      LiveOwnerUndisturbed, [Next]_vars, ~Faults,
                      NEW p \in Owner, Holds(p)'
               PROVE  /\ ~leaseLost'[p]
                      /\ \A n \in Node :
                           job'[p][n].pc \notin {"lost", "cancelled", "raised"}
    BY DEF LiveOwnerUndisturbed
  <2> QED
    BY UndisturbedStep DEF BatchInv
<1> QED
  BY <1>1, <1>2, BatchInvariant, RunNodeCommitAtomic, LedgerInvariant, PTL
     DEF Spec

------------------------------------------------------------------------------
\* The run implements its contract.

\* A verdict changes with the execution of its node only.
LEMMA VerdictFrame ==
  ASSUME NodeCommitAtomic, NEW n \in Node,
         \A e : e.node = n => (e \in executions' <=> e \in executions),
         (\E e \in executions : e.node = n) => nodeEvents'[n] = nodeEvents[n]
  PROVE  VerdictOf(n)' = VerdictOf(n)
<1>1. CASE ~\E e \in executions : e.node = n
  <2>1. ~\E e \in executions' : e.node = n
    BY <1>1
  <2> QED
    BY <1>1, <2>1 DEF VerdictOf
<1>2. CASE \E e \in executions : e.node = n
  <2> DEFINE old == CHOOSE e \in executions  : e.node = n
             new == CHOOSE e \in executions' : e.node = n
  <2>1. old \in executions /\ old.node = n
    BY <1>2
  <2>2. \E e \in executions' : e.node = n
    BY <1>2
  <2>3. new \in executions' /\ new.node = n
    BY <2>2
  <2>4. new = old
    BY <2>1, <2>3 DEF NodeCommitAtomic
  <2>5. FinishedData(n)' = FinishedData(n)
    BY <1>2 DEF FinishedData, Finished
  <2>6. VerdictOf(n) = [status |-> old.status,
                        classes |-> ({old.class} \cup FinishedData(n))
                                      \ {NoError}]
    BY <1>2 DEF VerdictOf
  <2>7. VerdictOf(n)' = [status |-> new.status,
                         classes |-> ({new.class} \cup FinishedData(n)')
                                       \ {NoError}]
    BY <2>2 DEF VerdictOf
  <2> QED
    BY <2>4, <2>5, <2>6, <2>7
<1> QED
  BY <1>1, <1>2

\* A commit decides its node and no other.
LEMMA CommitDecides ==
  ASSUME StoreTypeOK, NodeCommitAtomic, RunCommitAtomic, NEW o \in Owner,
         NEW n \in Node, NEW uid \in UidsOf(n), NEW r \in Result,
         task[n].status \notin NodeTerminal, Commit(o, n, uid, r)
  PROVE  Contract!Decide(n)
<1> DEFINE row == [uid |-> uid, node |-> n, status |-> r.status,
                   count |-> r.count, class |-> r.class]
<1>1. executions' = executions \cup {row} /\ summary' = summary
  BY DEF Commit
<1>2. row.node = n /\ row.status = r.status /\ row.class = r.class
  OBVIOUS
<1> HIDE DEF row
<1>3. /\ ~\E e \in executions : e.node = n
      /\ Finished(n) = {}
  BY DEF NodeCommitAtomic
<1>4. VerdictOf(n) = Contract!Undecided
  BY VerdictRead
<1>5. summary = NoSummary
  BY DEF Commit, Holds, RunCommitAtomic, RunTerminal
<1>6. VerdictOf(n)' = [status |-> r.status,
                       classes |-> ({r.class} \cup r.secondary) \ {NoError}]
  <2> DEFINE e == CHOOSE x \in executions' : x.node = n
  <2>1. \E x \in executions' : x.node = n
    BY <1>1, <1>2
  <2>2. e \in executions' /\ e.node = n
    BY <2>1
  <2>3. e = row
    BY <1>1, <1>3, <2>2
  <2>4. FinishedData(n)' = r.secondary
    BY <1>3, FinishedDataOfCommit DEF Commit
  <2>5. VerdictOf(n)' = [status |-> e.status,
                         classes |-> ({e.class} \cup FinishedData(n)')
                                       \ {NoError}]
    BY <2>1 DEF VerdictOf
  <2> QED
    BY <1>2, <2>3, <2>4, <2>5
<1>7. VerdictOf(n)' \in Contract!Verdict
  <2>1. Contract!ErrorClass = ErrorClass
    BY DEF Contract!ErrorClass, Contract!Transient, Contract!Permanent,
           Contract!Security, Contract!Resource, Contract!Data, ErrorClass,
           Transient, Permanent, Security, Resource, Data
  <2>2. /\ r.status \in {"SUCCEEDED", "FAILED"}
        /\ ({r.class} \cup r.secondary) \ {NoError} \subseteq ErrorClass
    BY DEF Result, MaybeError
  <2> QED
    BY <1>6, <2>1, <2>2 DEF Contract!Verdict
<1>8. ASSUME NEW m \in Node \ {n} PROVE VerdictOf(m)' = VerdictOf(m)
  <2>1. nodeEvents'[m] = nodeEvents[m]
    BY DEF Commit, LogNode, StoreTypeOK
  <2>2. \A e : e.node = m => (e \in executions' <=> e \in executions)
    BY <1>1, <1>2
  <2> QED
    BY <2>1, <2>2, VerdictFrame
<1> DEFINE v == [m \in Node |-> VerdictOf(m)]
<1>9. v' = [v EXCEPT ![n] = v'[n]]
  <2>1. \A m \in Node \ {n} : v'[m] = v[m]
    BY <1>8
  <2>2. DOMAIN v' = Node /\ DOMAIN v = Node
    OBVIOUS
  <2>3. v' = [m \in Node |-> v'[m]] /\ v = [m \in Node |-> v[m]]
    OBVIOUS
  <2> HIDE DEF v
  <2> QED
    BY <2>1, <2>2, <2>3
<1> QED
  BY <1>1, <1>4, <1>5, <1>7, <1>9 DEF Contract!Decide

LEMMA ContractStep ==
  ASSUME StoreTypeOK, NodeCommitAtomic, RunCommitAtomic, ProcInv, LedgerInv,
         [Next]_vars
  PROVE  \/ Contract!Next
         \/ UNCHANGED <<[n \in Node |-> VerdictOf(n)], summary>>
<1>1. ASSUME \A n \in Node : VerdictOf(n)' = VerdictOf(n), summary' = summary
      PROVE  UNCHANGED <<[n \in Node |-> VerdictOf(n)], summary>>
  BY <1>1
<1>2. CASE UNCHANGED <<executions, nodeEvents, summary>>
  BY <1>1, <1>2 DEF VerdictOf, FinishedData, Finished
<1>3. CASE LeaseLapses \/ UNCHANGED vars
  BY <1>2, <1>3 DEF LeaseLapses, Lapse, vars, dbVars
<1>4. ASSUME NEW p \in Owner, ProcessStep(p)
      PROVE  \/ Contract!Next
             \/ UNCHANGED <<[n \in Node |-> VerdictOf(n)], summary>>
  <2>1. CASE UNCHANGED dbVars
    BY <1>2, <2>1 DEF dbVars
  <2>2. CASE Start(p)
    BY <1>2, <2>2 DEF Start, StartRun
  <2>3. CASE Resume(p)
    <3>1. ASSUME NEW n \in Node PROVE VerdictOf(n)' = VerdictOf(n)
      <4>1. (\E e \in executions : e.node = n) =>
              nodeEvents'[n] = nodeEvents[n]
        BY <2>3 DEF Resume, ResumeRun, NodeCommitAtomic, NodeTerminal
      <4>2. executions' = executions
        BY <2>3 DEF Resume, ResumeRun
      <4> QED
        BY <4>1, <4>2, VerdictFrame
    <3> QED
      BY <1>1, <2>3, <3>1 DEF Resume, ResumeRun
  <2>4. CASE ReadTasks(p) \/ HeartbeatLost(p) \/ Gather(p) \/ Crash(p)
    BY <2>1, <2>4 DEF ReadTasks, HeartbeatLost, LoseLease, Gather, Crash
  <2>5. ASSUME NEW n \in Node, NodeStep(p, n), ~UNCHANGED dbVars
        PROVE  \/ Contract!Next
               \/ UNCHANGED <<[m \in Node |-> VerdictOf(m)], summary>>
    <3> DEFINE uid == UidFor(p, n)
               r   == job[p][n].result
    <3>1. task[n].status \notin NodeTerminal
      BY <2>5, JobWritesOpenNode
    <3>2. uid \in UidsOf(n) /\ r \in Result
      BY UidForBelongs, NumberedJob DEF ProcInv
    <3>3. CASE Commit(p, n, uid, r)
      <4> HIDE DEF uid, r
      <4>1. Contract!Decide(n)
        BY <3>1, <3>2, <3>3, CommitDecides
      <4> QED
        BY <4>1 DEF Contract!Next
    <3>4. CASE ~Commit(p, n, uid, r)
      <4>1. /\ executions' = executions /\ summary' = summary
            /\ \A m \in Node \ {n} : nodeEvents'[m] = nodeEvents[m]
        BY <2>5, <3>4, JobTransaction
           DEF RecordNodeBlocked, SetRunning, AttemptStart, AttemptEnd,
               LogNode, StoreTypeOK
      <4>2. ASSUME NEW m \in Node PROVE VerdictOf(m)' = VerdictOf(m)
        <5>1. (\E e \in executions : e.node = m) => m # n
          BY <3>1 DEF NodeCommitAtomic
        <5> QED
          BY <4>1, <5>1, VerdictFrame
      <4> QED
        BY <1>1, <4>1, <4>2
    <3> QED
      BY <3>3, <3>4
  <2>6. CASE Finalize(p) /\ ~UNCHANGED dbVars
    <3>1. Holds(p) /\ phase[p] = "finalizing" /\ FinalizeRun(p, pending[p])
      BY <2>6 DEF Finalize, FinalizeRun
    <3>2. /\ \A n \in Node : task[n].status \in NodeTerminal
          /\ pending[p] = Contract!Tally
      BY <3>1 DEF LedgerInv, OwnerInv, Knows, ReportView
    <3>3. summary = NoSummary
      BY <3>1 DEF Holds, RunCommitAtomic, RunTerminal
    <3>4. \A n \in Node : VerdictOf(n) # Contract!Undecided
      <4> SUFFICES ASSUME NEW n \in Node
                   PROVE  VerdictOf(n) # Contract!Undecided
        OBVIOUS
      <4>1. VerdictOf(n).status = task[n].status
        BY <3>2, VerdictRead
      <4> QED
        BY <3>2, <4>1 DEF NodeTerminal, Contract!Undecided
    <3>5. \A n \in Node : VerdictOf(n)' = VerdictOf(n)
      BY <3>1 DEF FinalizeRun, VerdictOf, FinishedData, Finished
    <3>6. summary' = Contract!Tally
      BY <3>1, <3>2 DEF FinalizeRun
    <3>7. UNCHANGED [n \in Node |-> VerdictOf(n)]
      BY <3>5
    <3>8. Contract!Publish
      BY <3>3, <3>4, <3>6, <3>7 DEF Contract!Publish
    <3> QED
      BY <3>8 DEF Contract!Next
  <2> QED
    BY <1>4, <2>1, <2>2, <2>3, <2>4, <2>5, <2>6 DEF ProcessStep
<1> QED
  BY <1>3, <1>4 DEF Next

\* To its reader, execute_run is RunContract: each commit decides one node for
\* good, and finalize_run publishes, once and after the last commit, the tally
\* of all verdicts, those of dead processes included.
THEOREM RunImplementsContract == Spec => ImplementsContract
<1>1. Init => Contract!Init
  <2> SUFFICES ASSUME Init PROVE Contract!Init
    OBVIOUS
  <2>1. executions = {} /\ summary = NoSummary
    BY DEF Init, DbInit
  <2>2. \A n \in Node : VerdictOf(n) = Contract!Undecided
    BY <2>1 DEF VerdictOf, Contract!Undecided
  <2> QED
    BY <2>1, <2>2 DEF Contract!Init
<1>2. BatchInv /\ NodeCommitAtomic /\ RunCommitAtomic /\ LedgerInv
        /\ [Next]_vars
        => [Contract!Next]_<<[n \in Node |-> VerdictOf(n)], summary>>
  BY ContractStep DEF BatchInv
<1> QED
  BY <1>1, <1>2, BatchInvariant, RunNodeCommitAtomic, RunRunCommitAtomic,
     LedgerInvariant, PTL DEF Spec, ImplementsContract, Contract!Spec
=============================================================================
