--------------------------- MODULE RunStoreProofs ---------------------------
(***************************************************************************)
(* Proofs about the transactions of the Store, for any number of nodes and *)
(* owners, each of which may issue any transaction at any time.  StoreInv  *)
(* is inductive: NodeCommitAtomic needs the types of the rows, both commit *)
(* boundaries share the outbox, and the length of the run log only matches *)
(* resume_count because a run is not resumed before it is started.         *)
(***************************************************************************)
EXTENDS RunStore, SequenceTheorems, TLAPS

\* The strengthening that the length of the run log needs.
ResumedAfterStart == runStatus = "QUEUED" => resumeCount = 0

\* A checkpoint only ever carries a uid that was minted for its node.
UidsBelong == \A n \in Node : task[n].uid \in UidsOf(n) \cup {NoUid}

StoreInv ==
  /\ StoreTypeOK
  /\ NodeCommitAtomic
  /\ RunCommitAtomic
  /\ ResumedAfterStart
  /\ UidsBelong

\* A published summary is never mistaken for the missing one.
LEMMA SummaryIsNotNoSummary ==
  ASSUME NEW s \in Summary
  PROVE  s # NoSummary /\ s.runStatus \in RunTerminal
BY DEF Summary, NoSummary, RunTerminal

\* The tables of a freshly created run have the right types and satisfy both
\* commit boundaries (create_run).
LEMMA InitStoreInv == DbInit => StoreInv
<1> SUFFICES ASSUME DbInit PROVE StoreInv
  OBVIOUS
<1> USE DEF DbInit
<1>1. StoreTypeOK
  <2>1. task \in [Node -> TaskRow]
    BY DEF TaskRow, Writable, MaybeError, NoError, AttemptCap
  <2>2. nodeEvents \in [Node -> Seq(NodeEvent)]
    OBVIOUS
  <2>3. runEvents \in Seq(RunEvent)
    BY DEF RunEvent
  <2> QED
    BY <2>1, <2>2, <2>3 DEF StoreTypeOK
<1>2. NodeCommitAtomic
  BY StoreAssumption DEF NodeCommitAtomic, Finished, NodeTerminal
<1>3. RunCommitAtomic
  BY DEF RunCommitAtomic, RunTerminal, NoSummary
<1> QED
  BY <1>1, <1>2, <1>3 DEF StoreInv, ResumedAfterStart, UidsBelong

------------------------------------------------------------------------------
\* An audit event appends one well-formed entry to the log of its node.
LEMMA LogNodeAppends ==
  ASSUME NEW n \in Node, NEW uid \in Uid, NEW secondary \in SUBSET ErrorClass,
         NEW type \in {"node_started", "checkpoint_resumed",
                       "checkpoint_blocked", "node_finished"},
         NEW status \in Writable \cup NodeTerminal,
         nodeEvents \in [Node -> Seq(NodeEvent)],
         LogNode(n, type, uid, status, secondary)
  PROVE  nodeEvents' \in [Node -> Seq(NodeEvent)]
<1> DEFINE entry == [type |-> type, uid |-> uid, status |-> status,
                     secondary |-> secondary]
<1>1. entry \in NodeEvent
  BY DEF NodeEvent
<1>2. nodeEvents[n] \in Seq(NodeEvent)
  OBVIOUS
<1>3. Append(nodeEvents[n], entry) \in Seq(NodeEvent)
  BY <1>1, <1>2, AppendProperties
<1> QED
  BY <1>3 DEF LogNode

\* Raising attempt_count leaves a well-formed checkpoint.
LEMMA CountedRow ==
  ASSUME NEW row \in TaskRow, NEW k \in 0..AttemptCap
  PROVE  [row EXCEPT !.attemptCount = k] \in TaskRow
BY DEF TaskRow

\* Types: every transaction writes well-formed rows.
LEMMA TypeStep == StoreTypeOK /\ [StoreNext]_dbVars => StoreTypeOK'
<1> SUFFICES ASSUME StoreTypeOK, [StoreNext]_dbVars PROVE StoreTypeOK'
  OBVIOUS
<1> USE DEF StoreTypeOK
<1>1. CASE Lapse
  BY <1>1 DEF Lapse
<1>2. ASSUME NEW o \in Owner, StartRun(o) PROVE StoreTypeOK'
  <2>1. runEvents' \in Seq(RunEvent)
    BY <1>2 DEF StartRun, RunEvent
  <2> QED
    BY <1>2, <2>1 DEF StartRun
<1>3. ASSUME NEW o \in Owner, ResumeRun(o) PROVE StoreTypeOK'
  <2>1. task' \in [Node -> TaskRow]
    BY <1>3, ZenonT(60) DEF ResumeRun, TaskRow, Writable
  <2>2. ASSUME NEW n \in Node PROVE nodeEvents'[n] \in Seq(NodeEvent)
    <3>1. task[n].uid \in Uid \cup {NoUid}
      BY DEF TaskRow
    <3>2. [type |-> "checkpoint_resumed", uid |-> task[n].uid,
           status |-> "UNKNOWN", secondary |-> {}] \in NodeEvent
      BY <3>1 DEF NodeEvent, Writable
    <3> QED
      BY <1>3, <3>2 DEF ResumeRun
  <2>3. nodeEvents' \in [Node -> Seq(NodeEvent)]
    BY <1>3, <2>2 DEF ResumeRun
  <2>4. runEvents' \in Seq(RunEvent)
    BY <1>3 DEF ResumeRun, RunEvent
  <2> QED
    BY <1>3, <2>1, <2>3, <2>4 DEF ResumeRun, CanResume
<1>4. ASSUME NEW o \in Owner, NEW n \in Node, NEW uid \in UidsOf(n),
             SetRunning(o, n, uid)
      PROVE  StoreTypeOK'
  <2>1. uid \in Uid
    BY DEF UidsOf, Uid
  <2>2. task' \in [Node -> TaskRow]
    BY <1>4, <2>1, ZenonT(60) DEF SetRunning, TaskRow, Writable
  <2>3. nodeEvents' \in [Node -> Seq(NodeEvent)]
    BY <1>4, <2>1, LogNodeAppends DEF SetRunning, Writable
  <2> QED
    BY <1>4, <2>2, <2>3 DEF SetRunning
<1>5. ASSUME NEW o \in Owner, NEW n \in Node, NEW uid \in UidsOf(n),
             RecordNodeBlocked(o, n, uid)
      PROVE  StoreTypeOK'
  <2>1. nodeEvents' \in [Node -> Seq(NodeEvent)]
    BY <1>5, LogNodeAppends DEF RecordNodeBlocked, Writable, UidsOf, Uid
  <2> QED
    BY <1>5, <2>1 DEF RecordNodeBlocked
<1>6. ASSUME NEW o \in Owner, NEW n \in Node, NEW uid \in UidsOf(n),
             NEW seq \in 1..AttemptCap, AttemptStart(o, n, uid, seq)
      PROVE  StoreTypeOK'
  <2>1. AttemptOf(o, uid, seq, "RUNNING", NoError) \in AttemptRow
    BY DEF AttemptOf, AttemptRow, UidsOf, Uid, MaybeError
  <2>2. task' \in [Node -> TaskRow]
    <3>1. seq \in 0..AttemptCap
      BY DEF AttemptCap
    <3>2. [task[n] EXCEPT !.attemptCount = seq] \in TaskRow
      BY <3>1, CountedRow
    <3> QED
      BY <1>6, <3>2 DEF AttemptStart
  <2> QED
    BY <1>6, <2>1, <2>2 DEF AttemptStart
<1>7. ASSUME NEW o \in Owner, NEW n \in Node, NEW uid \in UidsOf(n),
             NEW seq \in 1..AttemptCap, NEW status \in NodeTerminal,
             NEW class \in MaybeError,
             AttemptEnd(o, n, uid, seq, status, class)
      PROVE  StoreTypeOK'
  <2>1. AttemptOf(o, uid, seq, status, class) \in AttemptRow
    BY DEF AttemptOf, AttemptRow, UidsOf, Uid
  <2>2. task' \in [Node -> TaskRow]
    <3>1. (IF task[n].attemptCount < seq THEN seq ELSE task[n].attemptCount)
            \in 0..AttemptCap
      BY DEF TaskRow, AttemptCap
    <3> DEFINE k == IF task[n].attemptCount < seq THEN seq
                    ELSE task[n].attemptCount
    <3>2. [task[n] EXCEPT !.attemptCount = k] \in TaskRow
      BY <3>1, CountedRow
    <3> QED
      BY <1>7, <3>2 DEF AttemptEnd
  <2> QED
    BY <1>7, <2>1, <2>2 DEF AttemptEnd
<1>8. ASSUME NEW o \in Owner, NEW n \in Node, NEW uid \in UidsOf(n),
             NEW result \in Result, Commit(o, n, uid, result)
      PROVE  StoreTypeOK'
  <2>1. /\ uid \in Uid
        /\ result.status \in NodeTerminal /\ result.class \in MaybeError
        /\ result.count \in 1..AttemptCap
        /\ result.secondary \in SUBSET ErrorClass
    BY DEF UidsOf, Uid, Result, NodeTerminal
  <2>2. executions' \subseteq ExecutionRow
    BY <1>8, <2>1 DEF Commit, ExecutionRow
  <2>3. task' \in [Node -> TaskRow]
    BY <1>8, <2>1 DEF Commit, CommittedTask, TaskRow
  <2>4. nodeEvents' \in [Node -> Seq(NodeEvent)]
    BY <1>8, <2>1, LogNodeAppends DEF Commit
  <2> QED
    BY <1>8, <2>1, <2>2, <2>3, <2>4 DEF Commit
<1>9. ASSUME NEW o \in Owner, NEW s \in Summary, FinalizeRun(o, s)
      PROVE  StoreTypeOK'
  <2>1. runEvents' \in Seq(RunEvent)
    BY <1>9 DEF FinalizeRun, FinalEvent, RunEvent
  <2> QED
    BY <1>9, <2>1, SummaryIsNotNoSummary DEF FinalizeRun
<1>10. CASE UNCHANGED dbVars
  BY <1>10 DEF dbVars
<1> QED
  BY <1>1, <1>2, <1>3, <1>4, <1>5, <1>6, <1>7, <1>8, <1>9, <1>10
     DEF StoreNext, NodeWrite

------------------------------------------------------------------------------
\* The node commit boundary.

\* The node_finished entries of m are the same after the step.
SameFinished(m) ==
  /\ Finished(m)' = Finished(m)
  /\ \A i \in Finished(m) : nodeEvents'[m][i] = nodeEvents[m][i]

\* An event of another type does not add a result to any node's log.
LEMMA LogNodeOther ==
  ASSUME NEW n \in Node, NEW uid \in Uid, NEW type, NEW status, NEW secondary,
         type # "node_finished", StoreTypeOK,
         LogNode(n, type, uid, status, secondary)
  PROVE  \A m \in Node : SameFinished(m)
<1> SUFFICES ASSUME NEW m \in Node PROVE SameFinished(m)
  OBVIOUS
<1>1. nodeEvents[m] \in Seq(NodeEvent) /\ nodeEvents[n] \in Seq(NodeEvent)
  BY DEF StoreTypeOK
<1>2. CASE m # n
  BY <1>2 DEF LogNode, SameFinished, Finished, StoreTypeOK
<1>3. CASE m = n
  <2> DEFINE entry == [type |-> type, uid |-> uid, status |-> status,
                       secondary |-> secondary]
  <2>1. nodeEvents'[n] = Append(nodeEvents[n], entry)
    BY DEF LogNode, StoreTypeOK
  <2>2. entry.type # "node_finished"
    OBVIOUS
  <2>3. /\ DOMAIN nodeEvents[n] = 1..Len(nodeEvents[n])
        /\ Len(nodeEvents[n]) \in Nat
        /\ DOMAIN nodeEvents'[n] = 1..(Len(nodeEvents[n]) + 1)
        /\ \A i \in 1..Len(nodeEvents[n]) :
             nodeEvents'[n][i] = nodeEvents[n][i]
        /\ nodeEvents'[n][Len(nodeEvents[n]) + 1] = entry
    <3> HIDE DEF entry
    <3> QED
      BY <1>1, <2>1
  <2>4. Finished(n)' = Finished(n)
    <3> HIDE DEF entry
    <3> QED
      BY <2>2, <2>3 DEF Finished
  <2> QED
    BY <1>3, <2>3, <2>4 DEF SameFinished, Finished
<1> QED
  BY <1>2, <1>3

\* A commit adds one node_finished entry, to the log of its node only.
LEMMA LogNodeFinished ==
  ASSUME NEW n \in Node, NEW uid \in Uid, NEW status, NEW secondary,
         StoreTypeOK, LogNode(n, "node_finished", uid, status, secondary)
  PROVE  /\ \A m \in Node \ {n} : SameFinished(m)
         /\ Finished(n)' = Finished(n) \cup {Len(nodeEvents[n]) + 1}
         /\ nodeEvents'[n][Len(nodeEvents[n]) + 1].uid = uid
         /\ nodeEvents'[n][Len(nodeEvents[n]) + 1].status = status
<1> DEFINE entry == [type |-> "node_finished", uid |-> uid,
                     status |-> status, secondary |-> secondary]
<1>1. \A m \in Node \ {n} : SameFinished(m)
  BY DEF LogNode, SameFinished, Finished, StoreTypeOK
<1>2. nodeEvents[n] \in Seq(NodeEvent)
  BY DEF StoreTypeOK
<1>3. nodeEvents'[n] = Append(nodeEvents[n], entry)
  BY DEF LogNode, StoreTypeOK
<1>4. entry.type = "node_finished" /\ entry.uid = uid /\ entry.status = status
  OBVIOUS
<1> HIDE DEF entry
<1>5. /\ DOMAIN nodeEvents[n] = 1..Len(nodeEvents[n])
      /\ Len(nodeEvents[n]) \in Nat
      /\ DOMAIN nodeEvents'[n] = 1..(Len(nodeEvents[n]) + 1)
      /\ \A i \in 1..Len(nodeEvents[n]) :
           nodeEvents'[n][i] = nodeEvents[n][i]
      /\ nodeEvents'[n][Len(nodeEvents[n]) + 1] = entry
  BY <1>2, <1>3
<1>6. Finished(n)' = Finished(n) \cup {Len(nodeEvents[n]) + 1}
  BY <1>4, <1>5 DEF Finished
<1> QED
  BY <1>1, <1>4, <1>5, <1>6

\* A step that commits nothing keeps the boundary, provided it changes the
\* status, uid and error of unfinished checkpoints only and finishes none.
LEMMA NoCommitFrame ==
  ASSUME StoreTypeOK, NodeCommitAtomic,
         executions' = executions,
         \A uid \in Uid : outbox'[uid] = outbox[uid],
         \A n \in Node : SameFinished(n),
         \A n \in Node :
           \/ /\ task'[n].status = task[n].status
              /\ task'[n].uid = task[n].uid
              /\ task'[n].class = task[n].class
           \/ /\ task[n].status \notin NodeTerminal
              /\ task'[n].status \notin NodeTerminal
  PROVE  NodeCommitAtomic'
<1>1. \A e \in executions : e.node \in Node
  BY DEF StoreTypeOK, ExecutionRow
<1>2. ASSUME NEW e \in executions
      PROVE  /\ e.uid \in UidsOf(e.node)
             /\ task'[e.node].status = e.status
             /\ task'[e.node].uid = e.uid
             /\ task'[e.node].class = e.class
             /\ \A f \in executions : f.node = e.node => f = e
  BY <1>1 DEF NodeCommitAtomic
<1>3. ASSUME NEW n \in Node
      PROVE  /\ task'[n].status \in NodeTerminal <=>
                  \E e \in executions : e.node = n
             /\ task'[n].status \in NodeTerminal <=> Finished(n)' # {}
             /\ \A i \in Finished(n)' :
                  /\ nodeEvents'[n][i].uid = task'[n].uid
                  /\ nodeEvents'[n][i].status = task'[n].status
                  /\ \A j \in Finished(n)' : j = i
  BY DEF NodeCommitAtomic, SameFinished
<1>4. ASSUME NEW uid \in Uid
      PROVE  outbox'[uid] = IF \E e \in executions : e.uid = uid THEN 1 ELSE 0
  BY DEF NodeCommitAtomic
<1> QED
  BY <1>2, <1>3, <1>4 DEF NodeCommitAtomic, UidsOf, Uid

\* The commit itself: the fence and the refusals of commit_execution_result
\* make the uid and the node fresh, and one transaction writes all four rows.
LEMMA CommitKeepsBoundary ==
  ASSUME StoreTypeOK, NodeCommitAtomic, NEW o \in Owner, NEW n \in Node,
         NEW uid \in UidsOf(n), NEW result \in Result,
         Commit(o, n, uid, result)
  PROVE  NodeCommitAtomic'
<1> DEFINE row == [uid |-> uid, node |-> n, status |-> result.status,
                   count |-> result.count, class |-> result.class]
<1>1. uid \in Uid /\ result.status \in NodeTerminal
  BY DEF UidsOf, Uid, Result, NodeTerminal
<1>2. /\ executions' = executions \cup {row}
      /\ outbox' = [outbox EXCEPT ![uid] = @ + 1]
      /\ LogNode(n, "node_finished", uid, result.status, result.secondary)
      /\ task' = [task EXCEPT ![n] = CommittedTask(n, uid, result)]
      /\ \A e \in executions : e.uid # uid
      /\ task[n].status \in Writable
  BY DEF Commit, Committable
<1>3. /\ row.uid = uid /\ row.node = n /\ row.status = result.status
      /\ row.class = result.class
  OBVIOUS
<1> HIDE DEF row
<1>4. /\ \A e \in executions : e.node \in Node /\ e.node # n
      /\ Finished(n) = {}
  BY <1>2 DEF StoreTypeOK, ExecutionRow, NodeCommitAtomic, Writable,
              NodeTerminal
<1>5. /\ task'[n].status = result.status
      /\ task'[n].uid = uid
      /\ task'[n].class = result.class
      /\ \A m \in Node \ {n} : task'[m] = task[m]
  BY <1>2 DEF CommittedTask, StoreTypeOK, TaskRow
<1>6. /\ \A m \in Node \ {n} : SameFinished(m)
      /\ Finished(n)' = {Len(nodeEvents[n]) + 1}
      /\ nodeEvents'[n][Len(nodeEvents[n]) + 1].uid = uid
      /\ nodeEvents'[n][Len(nodeEvents[n]) + 1].status = result.status
  BY <1>1, <1>2, <1>4, LogNodeFinished
<1>7. ASSUME NEW e \in executions'
      PROVE  /\ e.uid \in UidsOf(e.node)
             /\ task'[e.node].status = e.status
             /\ task'[e.node].uid = e.uid
             /\ task'[e.node].class = e.class
             /\ \A f \in executions' : f.node = e.node => f = e
  BY <1>2, <1>3, <1>4, <1>5 DEF NodeCommitAtomic
<1>8. ASSUME NEW m \in Node
      PROVE  /\ task'[m].status \in NodeTerminal <=>
                  \E e \in executions' : e.node = m
             /\ task'[m].status \in NodeTerminal <=> Finished(m)' # {}
             /\ \A i \in Finished(m)' :
                  /\ nodeEvents'[m][i].uid = task'[m].uid
                  /\ nodeEvents'[m][i].status = task'[m].status
                  /\ \A j \in Finished(m)' : j = i
  <2>1. CASE m = n
    BY <1>1, <1>2, <1>3, <1>5, <1>6, <2>1
  <2>2. CASE m # n
    BY <1>2, <1>3, <1>5, <1>6, <2>2 DEF NodeCommitAtomic, SameFinished
  <2> QED
    BY <2>1, <2>2
<1>9. ASSUME NEW v \in Uid
      PROVE  outbox'[v] = IF \E e \in executions' : e.uid = v THEN 1 ELSE 0
  <2>1. CASE v = uid
    <3>1. outbox[uid] = 0
      BY <1>1, <1>2 DEF NodeCommitAtomic
    <3>2. outbox'[uid] = 1
      BY <1>1, <1>2, <3>1 DEF StoreTypeOK
    <3> QED
      BY <1>2, <1>3, <2>1, <3>2
  <2>2. CASE v # uid
    <3>1. outbox'[v] = outbox[v]
      BY <1>2, <2>2 DEF StoreTypeOK
    <3> QED
      BY <1>2, <1>3, <2>2, <3>1 DEF NodeCommitAtomic
  <2> QED
    BY <2>1, <2>2
<1> QED
  BY <1>7, <1>8, <1>9 DEF NodeCommitAtomic, UidsOf, Uid

\* No transaction separates a node's result from its checkpoint, its event
\* and its announcement.
LEMMA NodeCommitStep ==
  StoreTypeOK /\ NodeCommitAtomic /\ [StoreNext]_dbVars => NodeCommitAtomic'
<1> SUFFICES ASSUME StoreTypeOK, NodeCommitAtomic, [StoreNext]_dbVars
             PROVE  NodeCommitAtomic'
  OBVIOUS
<1>1. CASE Lapse
  BY <1>1, NoCommitFrame DEF Lapse, SameFinished, Finished
<1>2. ASSUME NEW o \in Owner, StartRun(o) PROVE NodeCommitAtomic'
  BY <1>2, NoCommitFrame DEF StartRun, SameFinished, Finished
<1>3. ASSUME NEW o \in Owner, ResumeRun(o) PROVE NodeCommitAtomic'
  <2>1. ASSUME NEW n \in Node, task[n].status # "RUNNING"
        PROVE  SameFinished(n) /\ task'[n] = task[n]
    BY <1>3, <2>1 DEF ResumeRun, SameFinished, Finished
  <2>2. ASSUME NEW n \in Node, task[n].status = "RUNNING"
        PROVE  SameFinished(n)
    <3> DEFINE entry == [type |-> "checkpoint_resumed", uid |-> task[n].uid,
                         status |-> "UNKNOWN", secondary |-> {}]
    <3>1. nodeEvents'[n] = Append(nodeEvents[n], entry)
      BY <1>3, <2>2 DEF ResumeRun
    <3>2. nodeEvents[n] \in Seq(NodeEvent) /\ entry.type # "node_finished"
      BY DEF StoreTypeOK
    <3> HIDE DEF entry
    <3>3. /\ DOMAIN nodeEvents[n] = 1..Len(nodeEvents[n])
          /\ Len(nodeEvents[n]) \in Nat
          /\ DOMAIN nodeEvents'[n] = 1..(Len(nodeEvents[n]) + 1)
          /\ \A i \in 1..Len(nodeEvents[n]) :
               nodeEvents'[n][i] = nodeEvents[n][i]
          /\ nodeEvents'[n][Len(nodeEvents[n]) + 1] = entry
      BY <3>1, <3>2
    <3> QED
      BY <3>2, <3>3 DEF SameFinished, Finished
  <2>3. ASSUME NEW n \in Node, task[n].status = "RUNNING"
        PROVE  /\ task[n].status \notin NodeTerminal
               /\ task'[n].status \notin NodeTerminal
    BY <1>3, <2>3 DEF ResumeRun, NodeTerminal, StoreTypeOK, TaskRow
  <2>4. executions' = executions /\ outbox' = outbox
    BY <1>3 DEF ResumeRun
  <2> QED
    BY <2>1, <2>2, <2>3, <2>4, NoCommitFrame
<1>4. ASSUME NEW o \in Owner, NEW n \in Node, NEW uid \in UidsOf(n),
             SetRunning(o, n, uid)
      PROVE  NodeCommitAtomic'
  <2>1. \A m \in Node : SameFinished(m)
    BY <1>4, LogNodeOther DEF SetRunning, UidsOf, Uid
  <2>2. /\ task[n].status \notin NodeTerminal
        /\ task'[n].status \notin NodeTerminal
        /\ \A m \in Node \ {n} : task'[m] = task[m]
    BY <1>4 DEF SetRunning, Writable, NodeTerminal, StoreTypeOK, TaskRow
  <2> QED
    BY <1>4, <2>1, <2>2, NoCommitFrame DEF SetRunning
<1>5. ASSUME NEW o \in Owner, NEW n \in Node, NEW uid \in UidsOf(n),
             RecordNodeBlocked(o, n, uid)
      PROVE  NodeCommitAtomic'
  <2>1. \A m \in Node : SameFinished(m)
    BY <1>5, LogNodeOther DEF RecordNodeBlocked, UidsOf, Uid
  <2> QED
    BY <1>5, <2>1, NoCommitFrame DEF RecordNodeBlocked
<1>6. ASSUME NEW o \in Owner, NEW n \in Node, NEW uid \in UidsOf(n),
             NEW seq \in 1..AttemptCap,
             \/ AttemptStart(o, n, uid, seq)
             \/ \E status \in NodeTerminal, class \in MaybeError :
                  AttemptEnd(o, n, uid, seq, status, class)
      PROVE  NodeCommitAtomic'
  <2>1. /\ executions' = executions /\ outbox' = outbox
        /\ nodeEvents' = nodeEvents
    BY <1>6 DEF AttemptStart, AttemptEnd
  <2>2. PICK k : task' = [task EXCEPT ![n].attemptCount = k]
    BY <1>6 DEF AttemptStart, AttemptEnd
  <2>3. \A m \in Node : /\ task'[m].status = task[m].status
                        /\ task'[m].uid = task[m].uid
                        /\ task'[m].class = task[m].class
    BY <2>2 DEF StoreTypeOK, TaskRow
  <2>4. \A m \in Node : SameFinished(m)
    BY <2>1 DEF SameFinished, Finished
  <2> QED
    BY <2>1, <2>3, <2>4, NoCommitFrame
<1>7. ASSUME NEW o \in Owner, NEW s \in Summary, FinalizeRun(o, s)
      PROVE  NodeCommitAtomic'
  <2>1. \A uid \in Uid : outbox'[uid] = outbox[uid]
    BY <1>7, StoreAssumption DEF FinalizeRun, StoreTypeOK
  <2> QED
    BY <1>7, <2>1, NoCommitFrame DEF FinalizeRun, SameFinished, Finished
<1>8. CASE UNCHANGED dbVars
  BY <1>8, NoCommitFrame DEF dbVars, SameFinished, Finished
<1> QED
  BY <1>1, <1>2, <1>3, <1>4, <1>5, <1>6, <1>7, <1>8, CommitKeepsBoundary
     DEF StoreNext, NodeWrite

------------------------------------------------------------------------------
\* The run commit boundary.

\* No transaction separates the summary from the run status, its event and its
\* announcement, and none changes them once they are written.
LEMMA RunCommitStep ==
  StoreTypeOK /\ RunCommitAtomic /\ ResumedAfterStart /\ [StoreNext]_dbVars
    => RunCommitAtomic'
<1> SUFFICES ASSUME StoreTypeOK, RunCommitAtomic, ResumedAfterStart,
                    [StoreNext]_dbVars
             PROVE  RunCommitAtomic'
  OBVIOUS
<1>1. runEvents \in Seq(RunEvent) /\ Len(runEvents) \in Nat
  BY DEF StoreTypeOK
<1>2. CASE Lapse
  BY <1>2 DEF Lapse, RunCommitAtomic
<1>3. ASSUME NEW o \in Owner, StartRun(o) PROVE RunCommitAtomic'
  <2>1. /\ runStatus = "QUEUED" /\ runStatus' = "RUNNING"
        /\ runEvents' = Append(runEvents, "run_started")
        /\ UNCHANGED <<resumeCount, outbox, summary>>
    BY <1>3 DEF StartRun
  <2>2. Len(runEvents') = 2 /\ resumeCount' = 0
    <3>1. Len(runEvents) = 1
      BY <2>1 DEF RunCommitAtomic
    <3>2. Len(runEvents') = Len(runEvents) + 1
      BY <1>1, <2>1
    <3> QED
      BY <2>1, <3>1, <3>2 DEF ResumedAfterStart
  <2> QED
    BY <2>1, <2>2 DEF RunCommitAtomic, RunTerminal
<1>4. ASSUME NEW o \in Owner, ResumeRun(o) PROVE RunCommitAtomic'
  <2>1. /\ runStatus = "RUNNING" /\ resumeCount' = resumeCount + 1
        /\ runEvents' = Append(runEvents, "run_resumed")
        /\ UNCHANGED <<runStatus, outbox, summary>>
    BY <1>4 DEF ResumeRun, CanResume
  <2>2. Len(runEvents') = Len(runEvents) + 1 /\ summary = NoSummary
    BY <1>1, <2>1 DEF RunCommitAtomic, RunTerminal
  <2>3. /\ resumeCount \in Nat /\ Len(runEvents) = 2 + resumeCount
        /\ outbox[RunId] = 0
    BY <2>1, <2>2 DEF RunCommitAtomic, StoreTypeOK
  <2>4. Len(runEvents') = 2 + resumeCount'
    BY <2>1, <2>2, <2>3
  <2> QED
    BY <2>1, <2>2, <2>3, <2>4 DEF RunCommitAtomic, RunTerminal
<1>5. ASSUME NEW o \in Owner, NEW n \in Node, NodeWrite(o, n)
      PROVE  RunCommitAtomic'
  <2>1. /\ UNCHANGED <<runStatus, resumeCount, runEvents, summary>>
        /\ outbox'[RunId] = outbox[RunId]
    BY <1>5, StoreAssumption
       DEF NodeWrite, SetRunning, RecordNodeBlocked, AttemptStart, AttemptEnd,
           Commit, StoreTypeOK, UidsOf, Uid
  <2> QED
    BY <2>1 DEF RunCommitAtomic
<1>6. ASSUME NEW o \in Owner, NEW s \in Summary, FinalizeRun(o, s)
      PROVE  RunCommitAtomic'
  <2>1. /\ runStatus = "RUNNING" /\ runStatus' = s.runStatus /\ summary' = s
        /\ runEvents' = Append(runEvents, FinalEvent(s.runStatus))
        /\ outbox' = [outbox EXCEPT ![RunId] = @ + 1]
        /\ resumeCount' = resumeCount
    BY <1>6 DEF FinalizeRun, Holds
  <2>2. /\ s # NoSummary /\ s.runStatus \in RunTerminal
        /\ s.runStatus \notin {"QUEUED", "RUNNING"}
    BY SummaryIsNotNoSummary DEF RunTerminal
  <2>3. summary = NoSummary /\ outbox[RunId] = 0
    BY <2>1 DEF RunCommitAtomic, RunTerminal
  <2>4. outbox'[RunId] = 1
    BY <2>1, <2>3 DEF StoreTypeOK
  <2>5. /\ Len(runEvents') = Len(runEvents) + 1
        /\ runEvents'[Len(runEvents')] = FinalEvent(s.runStatus)
    BY <1>1, <2>1
  <2>6. Len(runEvents) = 2 + resumeCount /\ resumeCount \in Nat
    BY <2>1 DEF RunCommitAtomic, StoreTypeOK
  <2> QED
    BY <2>1, <2>2, <2>4, <2>5, <2>6 DEF RunCommitAtomic
<1>7. CASE UNCHANGED dbVars
  BY <1>7 DEF dbVars, RunCommitAtomic
<1> QED
  BY <1>2, <1>3, <1>4, <1>5, <1>6, <1>7 DEF StoreNext

\* A run that was never started cannot be resumed.
LEMMA ResumedAfterStartStep ==
  StoreTypeOK /\ ResumedAfterStart /\ [StoreNext]_dbVars => ResumedAfterStart'
<1> SUFFICES ASSUME StoreTypeOK, ResumedAfterStart, [StoreNext]_dbVars
             PROVE  ResumedAfterStart'
  OBVIOUS
<1> USE DEF ResumedAfterStart
<1>1. CASE Lapse \/ UNCHANGED dbVars
  BY <1>1 DEF Lapse, dbVars
<1>2. ASSUME NEW o \in Owner, StartRun(o) PROVE ResumedAfterStart'
  BY <1>2 DEF StartRun
<1>3. ASSUME NEW o \in Owner, ResumeRun(o) PROVE ResumedAfterStart'
  BY <1>3 DEF ResumeRun, CanResume
<1>4. ASSUME NEW o \in Owner, NEW n \in Node, NodeWrite(o, n)
      PROVE  ResumedAfterStart'
  <2>1. UNCHANGED <<runStatus, resumeCount>>
    BY <1>4 DEF NodeWrite, SetRunning, RecordNodeBlocked, AttemptStart,
                AttemptEnd, Commit
  <2> QED
    BY <2>1
<1>5. ASSUME NEW o \in Owner, NEW s \in Summary, FinalizeRun(o, s)
      PROVE  ResumedAfterStart'
  BY <1>5, SummaryIsNotNoSummary DEF FinalizeRun, RunTerminal
<1> QED
  BY <1>1, <1>2, <1>3, <1>4, <1>5 DEF StoreNext

\* No transaction gives a node the uid of another one.
LEMMA UidsBelongStep ==
  StoreTypeOK /\ UidsBelong /\ [StoreNext]_dbVars => UidsBelong'
<1> SUFFICES ASSUME StoreTypeOK, UidsBelong, [StoreNext]_dbVars
             PROVE  UidsBelong'
  OBVIOUS
<1> USE DEF UidsBelong
<1>1. CASE task' = task
  BY <1>1
<1>2. ASSUME NEW o \in Owner, ResumeRun(o) PROVE UidsBelong'
  BY <1>2 DEF ResumeRun, StoreTypeOK, TaskRow
<1>3. ASSUME NEW o \in Owner, NEW n \in Node, NodeWrite(o, n), task' # task
      PROVE  UidsBelong'
  <2>1. PICK row : /\ task' = [task EXCEPT ![n] = row]
                   /\ row.uid \in UidsOf(n) \cup {task[n].uid}
    <3>1. ASSUME NEW uid \in UidsOf(n), SetRunning(o, n, uid)
          PROVE  \E row : /\ task' = [task EXCEPT ![n] = row]
                          /\ row.uid \in UidsOf(n) \cup {task[n].uid}
      <4> DEFINE row == [task[n] EXCEPT !.status = "RUNNING", !.uid = uid]
      <4>1. row.uid = uid
        BY DEF StoreTypeOK, TaskRow
      <4>2. task' = [task EXCEPT ![n] = row]
        BY <3>1 DEF SetRunning
      <4> QED
        BY <4>1, <4>2
    <3>2. ASSUME NEW k, task' = [task EXCEPT ![n].attemptCount = k]
          PROVE  \E row : /\ task' = [task EXCEPT ![n] = row]
                          /\ row.uid \in UidsOf(n) \cup {task[n].uid}
      <4> DEFINE row == [task[n] EXCEPT !.attemptCount = k]
      <4>1. row.uid = task[n].uid
        BY DEF StoreTypeOK, TaskRow
      <4>2. task' = [task EXCEPT ![n] = row]
        BY <3>2
      <4> QED
        BY <4>1, <4>2
    <3>3. ASSUME NEW uid \in UidsOf(n), NEW result \in Result,
                 Commit(o, n, uid, result)
          PROVE  \E row : /\ task' = [task EXCEPT ![n] = row]
                          /\ row.uid \in UidsOf(n) \cup {task[n].uid}
      <4> DEFINE row == CommittedTask(n, uid, result)
      <4>1. row.uid = uid
        BY DEF CommittedTask, StoreTypeOK, TaskRow
      <4>2. task' = [task EXCEPT ![n] = row]
        BY <3>3 DEF Commit
      <4> QED
        BY <4>1, <4>2
    <3>4. ASSUME NEW uid \in UidsOf(n), NEW seq \in 1..AttemptCap,
                 \/ AttemptStart(o, n, uid, seq)
                 \/ \E status \in NodeTerminal, class \in MaybeError :
                      AttemptEnd(o, n, uid, seq, status, class)
          PROVE  \E k : task' = [task EXCEPT ![n].attemptCount = k]
      BY <3>4 DEF AttemptStart, AttemptEnd
    <3>5. ASSUME NEW uid \in UidsOf(n), RecordNodeBlocked(o, n, uid)
          PROVE  FALSE
      BY <1>3, <3>5 DEF RecordNodeBlocked
    <3> QED
      BY <1>3, <3>1, <3>2, <3>3, <3>4, <3>5 DEF NodeWrite
  <2> QED
    BY <2>1 DEF StoreTypeOK
<1> QED
  BY <1>1, <1>2, <1>3 DEF StoreNext, Lapse, StartRun, FinalizeRun, dbVars

------------------------------------------------------------------------------
\* Whatever the clients of the Store do, in whatever order and however many
\* of them believe to own the run: the rows are well formed, every node result
\* lands as a whole and once, and so does the batch summary.
THEOREM StoreInvariant == StoreSpec => []StoreInv
<1>1. StoreInv /\ [StoreNext]_dbVars => StoreInv'
  BY TypeStep, NodeCommitStep, RunCommitStep, ResumedAfterStartStep,
     UidsBelongStep DEF StoreInv
<1> QED
  BY InitStoreInv, <1>1, PTL DEF StoreSpec

\* The tables hold well-formed rows only.
THEOREM StoreTypeCorrect == StoreSpec => []StoreTypeOK
<1>1. StoreInv => StoreTypeOK
  BY DEF StoreInv
<1> QED
  BY StoreInvariant, <1>1, PTL

\* commit_execution_result is all or nothing, at most once per node.
THEOREM StoreNodeCommitAtomic == StoreSpec => []NodeCommitAtomic
<1>1. StoreInv => NodeCommitAtomic
  BY DEF StoreInv
<1> QED
  BY StoreInvariant, <1>1, PTL

\* finalize_run is all or nothing, at most once per run.
THEOREM StoreRunCommitAtomic == StoreSpec => []RunCommitAtomic
<1>1. StoreInv => RunCommitAtomic
  BY DEF StoreInv
<1> QED
  BY StoreInvariant, <1>1, PTL
==============================================================================
