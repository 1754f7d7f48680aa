---------------------------- MODULE LedgerProofs ----------------------------
(***************************************************************************)
(* Proofs of what execute_run promises about the ledger of a node, for any *)
(* number of processes and nodes.  The tables alone do not show why these  *)
(* promises hold: every write is justified by what the writing process has *)
(* read before, and that is still true only because the process holds the  *)
(* lease.  The invariant therefore has two halves.  NodeInv(n) is about    *)
(* the rows of one node.  View(p, n) is what the job of n in process p     *)
(* knows of these rows, at each pc, as long as p holds the lease.          *)
(***************************************************************************)
EXTENDS BatchRunProofs

\* The attempts of a node, under whatever uid.
RowsOf(n) == {a \in attempts : a.uid \in UidsOf(n)}

------------------------------------------------------------------------------
\* One node.

LedgerOf(n) ==
  /\ {a.seq : a \in RowsOf(n)} = 1..task[n].attemptCount
  /\ \A a \in RowsOf(n) : a.uid = task[n].uid
  /\ \A a, b \in RowsOf(n) : a.seq = b.seq => a = b

BudgetOf(n) ==
  \A a, b \in RowsOf(n) :
    a.uid = b.uid /\ b.seq = a.seq + 1 =>
      \/ a.status = "FAILED" /\ ShouldRetry(a.class, a.seq)
      \/ a.status \in {"RUNNING", "SUCCEEDED"} /\ a.by # b.by

ReplayOf(n) ==
  LET log == nodeEvents[n]
  IN IF log = <<>>
     THEN task[n].status = "PENDING" /\ task[n].uid = NoUid
     ELSE /\ task[n].status = log[Len(log)].status
          /\ task[n].uid = log[Len(log)].uid

\* An attempt that failed has an error, and never one of the two that stand
\* for damaged output: those are evidence of a result, not of an attempt.
ErrorsOf(n) ==
  \A a \in RowsOf(n) :
    a.status = "FAILED" => a.class # NoError /\ a.class \notin DegradingClasses

\* The status and error of a result are those of the attempt it reports.
Reports(status, class, a) ==
  \/ a.status = "FAILED" /\ status = "FAILED" /\ class = a.class
  \/ a.status = "SUCCEEDED" /\ status = "SUCCEEDED"
       /\ class \in DegradingClasses \cup {NoError}
  \/ a.status = "SUCCEEDED" /\ status = "FAILED" /\ class = "blob_write_failed"

LastReports(n, status, class) ==
  \E a \in RowsOf(n) : /\ a.seq = task[n].attemptCount
                       /\ Reports(status, class, a)

VerdictOnRecord(n) ==
  task[n].status \in NodeTerminal =>
    LastReports(n, task[n].status, task[n].class)

\* The attempts are used up and the last one says nothing of the outcome: what
\* _resume_disposition calls blocked.
Spent(n) ==
  /\ task[n].attemptCount = AttemptCap
  /\ \A a \in RowsOf(n) : a.seq = AttemptCap => a.status # "FAILED"

BlockedOf(n) == BlockedNode(n) => task[n].status = "UNKNOWN" /\ Spent(n)

PendingBlank(n) == task[n].status = "PENDING" => task[n].uid = NoUid

NodeInv(n) ==
  /\ LedgerOf(n)
  /\ BudgetOf(n)
  /\ ReplayOf(n)
  /\ ErrorsOf(n)
  /\ VerdictOnRecord(n)
  /\ BlockedOf(n)
  /\ PendingBlank(n)

------------------------------------------------------------------------------
\* One job of the process that holds the lease.

\* The last attempt, if there is one, is no obstacle to another one by p.
MayTry(p, n) ==
  \A a \in RowsOf(n) : a.seq = task[n].attemptCount =>
    \/ a.status = "FAILED" /\ ShouldRetry(a.class, a.seq)
    \/ a.status # "FAILED" /\ a.by # p

\* Degraded is what the error classes of a result say.
Classes(r) == ({r.class} \cup r.secondary) \ {NoError}
DegradedOf(r) == r.degraded <=> Classes(r) \cap DegradingClasses # {}

\* The snapshot, as long as the job has written nothing.
Snapshot(p, n) ==
  LET pc == job[p][n].pc
  IN /\ snap[p][n].status # "RUNNING"
     /\ snap[p][n].status = "PENDING" => snap[p][n].uid = NoUid
     /\ ~resumed[p] => snap[p][n].status = "PENDING"
     /\ pc = "absent" <=> snap[p][n].status \in NodeTerminal
     /\ pc \in {"absent", "queued", "block", "checkpoint", "blocked"} =>
          task[n] = snap[p][n]
     /\ pc \in {"queued", "block", "checkpoint", "plan"} =>
          \A a \in RowsOf(n) : a.by # p

\* The disposition of a resumed node.
Disposed(p, n) ==
  LET pc == job[p][n].pc
  IN /\ pc \in {"block", "blocked"} =>
          snap[p][n].status = "UNKNOWN" /\ Spent(n)
     /\ pc \in {"checkpoint", "plan"} /\ snap[p][n].status = "UNKNOWN" =>
          ~Spent(n)
     /\ pc = "plan" /\ snap[p][n].status = "PENDING" =>
          task[n].attemptCount = 0

\* The checkpoint and the attempts of the job itself.
Executing(p, n) ==
  LET j == job[p][n]
  IN /\ j.pc \in {"plan", "connect", "ssh", "commit"} =>
          Checkpointed(n, UidFor(p, n))
     /\ j.pc = "connect" => j.seq = task[n].attemptCount + 1 /\ MayTry(p, n)
     /\ j.pc = "ssh" => j.seq = task[n].attemptCount
     /\ j.pc = "commit" =>
          /\ j.result.count = task[n].attemptCount
          /\ LastReports(n, j.result.status, j.result.class)
     /\ j.pc = "done" =>
          /\ task[n].status = j.result.status
          /\ task[n].class = j.result.class
          /\ FinishedData(n) = j.result.secondary
     /\ j.pc \in {"commit", "done"} => DegradedOf(j.result)

View(p, n) == Snapshot(p, n) /\ Disposed(p, n) /\ Executing(p, n)

\* The owner between its claim and its snapshot.
ClaimView(p) ==
  \A n \in Node : /\ task[n].status # "RUNNING"
                  /\ ~resumed[p] => task[n].status = "PENDING"

\* The owner with its summary in hand.
ReportView(p) ==
  /\ \A n \in Node : task[n].status \in NodeTerminal
  /\ pending[p] = Contract!Tally

Knows(p) ==
  /\ phase[p] = "claimed" => ClaimView(p)
  /\ phase[p] = "running" => \A n \in Node : View(p, n)
  /\ phase[p] = "finalizing" => ReportView(p)

OwnerInv == \A p \in Owner : Holds(p) => Knows(p)

------------------------------------------------------------------------------
\* Every process, whether it holds the lease or not.

\* A process that has not read its snapshot has left no trace but its claim,
\* and only a running one has jobs that are not settled.
Unseen(p) ==
  /\ phase[p] \in {"idle", "claimed"} =>
       /\ ~leaseLost[p]
       /\ \A a \in attempts : a.by # p
  /\ phase[p] = "idle" => leaseOwner # p /\ ~resumed[p]
  /\ phase[p] \notin {"running", "finalizing"} =>
        \A n \in Node : job[p][n].pc = "absent"
  /\ phase[p] = "finalizing" => \A n \in Node : job[p][n].pc \in Settled

\* A job ends as lost or cancelled only after the lease was given up.
GivenUp(p) ==
  \A n \in Node : job[p][n].pc \in {"lost", "cancelled"} => leaseLost[p]

\* Every session has its RUNNING row.
SessionRow(p) ==
  \A n \in Node : job[p][n].pc = "ssh" =>
    AttemptOf(p, UidFor(p, n), job[p][n].seq, "RUNNING", NoError) \in attempts

ProcessInv == \A p \in Owner : Unseen(p) /\ GivenUp(p) /\ SessionRow(p)

\* Nothing has happened to a run that was never started, and a run that has
\* ended, or holds an open question, is where its processes left it.
RunInv ==
  /\ runStatus = "QUEUED" => \A n \in Node : task[n].status = "PENDING"
  /\ \A n \in Node : BlockedNode(n) => runStatus = "RUNNING"
  /\ \A e \in executions : e.count = task[e.node].attemptCount
  /\ ExitTruthful

LedgerInv ==
  /\ \A n \in Node : NodeInv(n)
  /\ OwnerInv
  /\ ProcessInv
  /\ RunInv
------------------------------------------------------------------------------
\* What a step leaves alone stays true.

\* The rows of a node determine its part of the invariant.
LEMMA NodeFrame ==
  ASSUME NEW n \in Node, NodeInv(n),
         task'[n] = task[n], RowsOf(n)' = RowsOf(n),
         nodeEvents'[n] = nodeEvents[n]
  PROVE  NodeInv(n)'
<1> USE DEF NodeInv
<1>1. LedgerOf(n)' /\ BudgetOf(n)' /\ ErrorsOf(n)'
  BY DEF LedgerOf, BudgetOf, ErrorsOf
<1>2. ReplayOf(n)' /\ PendingBlank(n)'
  BY DEF ReplayOf, PendingBlank
<1>3. VerdictOnRecord(n)'
  BY DEF VerdictOnRecord, LastReports, Reports
<1>4. BlockedOf(n)'
  BY DEF BlockedOf, BlockedNode, Spent
<1> QED
  BY <1>1, <1>2, <1>3, <1>4

\* A job that goes on, or that is stopped, knows what it knew.
LEMMA ViewFrame ==
  ASSUME NEW p \in Owner, NEW n \in Node, View(p, n),
         task'[n] = task[n], RowsOf(n)' = RowsOf(n),
         nodeEvents'[n] = nodeEvents[n],
         snap'[p][n] = snap[p][n], resumed'[p] = resumed[p],
         \/ job'[p][n] = job[p][n]
         \/ /\ job[p][n].pc # "absent"
            /\ job'[p][n].pc \in {"lost", "cancelled", "raised"}
  PROVE  View(p, n)'
<1> USE DEF View
<1>1. CASE job'[p][n] = job[p][n]
  <2>1. Snapshot(p, n)'
    BY <1>1 DEF Snapshot
  <2>2. Disposed(p, n)'
    BY <1>1 DEF Disposed, Spent
  <2>3. Executing(p, n)'
    BY <1>1 DEF Executing, Checkpointed, UidFor, MayTry, LastReports, Reports,
                FinishedData, Finished, DegradedOf, Classes
  <2> QED
    BY <2>1, <2>2, <2>3
<1>2. CASE /\ job[p][n].pc # "absent"
           /\ job'[p][n].pc \in {"lost", "cancelled", "raised"}
  BY <1>2 DEF Snapshot, Disposed, Executing
<1> QED
  BY <1>1, <1>2

\* A write to the rows of one node leaves those of the others alone.
LEMMA OtherNodes ==
  ASSUME StoreTypeOK, NEW o \in Owner, NEW m \in Node, NodeWrite(o, m),
         NEW n \in Node \ {m}
  PROVE  /\ task'[n] = task[n]
         /\ RowsOf(n)' = RowsOf(n)
         /\ nodeEvents'[n] = nodeEvents[n]
<1>1. \A uid \in UidsOf(m) : uid \notin UidsOf(n)
  BY DEF UidsOf
<1>2. PICK uid \in UidsOf(m) :
        \/ SetRunning(o, m, uid)
        \/ RecordNodeBlocked(o, m, uid)
        \/ \E seq \in 1..AttemptCap :
             \/ AttemptStart(o, m, uid, seq)
             \/ \E status \in NodeTerminal, class \in MaybeError :
                  AttemptEnd(o, m, uid, seq, status, class)
        \/ \E result \in Result : Commit(o, m, uid, result)
  BY DEF NodeWrite
<1>3. CASE SetRunning(o, m, uid) \/ RecordNodeBlocked(o, m, uid)
  BY <1>3 DEF SetRunning, RecordNodeBlocked, LogNode, StoreTypeOK, RowsOf
<1>4. ASSUME NEW seq, AttemptStart(o, m, uid, seq)
      PROVE  /\ task'[n] = task[n]
             /\ RowsOf(n)' = RowsOf(n)
             /\ nodeEvents'[n] = nodeEvents[n]
  BY <1>1, <1>4 DEF AttemptStart, AttemptOf, StoreTypeOK, RowsOf
<1>5. ASSUME NEW seq, NEW status, NEW class,
             AttemptEnd(o, m, uid, seq, status, class)
      PROVE  /\ task'[n] = task[n]
             /\ RowsOf(n)' = RowsOf(n)
             /\ nodeEvents'[n] = nodeEvents[n]
  BY <1>1, <1>5 DEF AttemptEnd, AttemptOf, StoreTypeOK, RowsOf
<1>6. ASSUME NEW result, Commit(o, m, uid, result)
      PROVE  /\ task'[n] = task[n]
             /\ RowsOf(n)' = RowsOf(n)
             /\ nodeEvents'[n] = nodeEvents[n]
  BY <1>6 DEF Commit, LogNode, StoreTypeOK, RowsOf
<1> QED
  BY <1>2, <1>3, <1>4, <1>5, <1>6

------------------------------------------------------------------------------
\* What the reads of a job return.

\* get_last_attempt and get_attempt_max_seq for the uid of a checkpoint, or for
\* a fresh uid of a node that has none: the ledger of that node.
LEMMA LedgerRead ==
  ASSUME StoreTypeOK, NEW n \in Node, LedgerOf(n), NEW uid \in UidsOf(n),
         task[n].uid \in {NoUid, uid}
  PROVE  /\ AttemptsOf(uid) = RowsOf(n)
         /\ MaxSeq(uid) = task[n].attemptCount
         /\ RowsOf(n) = {} <=> task[n].attemptCount = 0
         /\ task[n].uid = NoUid => task[n].attemptCount = 0
         /\ RowsOf(n) # {} =>
              /\ LastAttempt(uid) \in RowsOf(n)
              /\ LastAttempt(uid).seq = task[n].attemptCount
              /\ \A a \in RowsOf(n) :
                   a.seq = task[n].attemptCount => a = LastAttempt(uid)
<1> DEFINE count == task[n].attemptCount
<1>1. count \in 0..3
  BY DEF StoreTypeOK, TaskRow, AttemptCap
<1>2. \A a \in RowsOf(n) : a.uid \in UidsOf(n) /\ a.uid # NoUid
  BY StoreAssumption DEF RowsOf, UidsOf, Uid
<1>3. task[n].uid = NoUid => RowsOf(n) = {}
  BY <1>2 DEF LedgerOf
<1>4. AttemptsOf(uid) = RowsOf(n)
  <2>1. CASE task[n].uid = NoUid
    BY <1>3, <2>1 DEF AttemptsOf, RowsOf
  <2>2. CASE task[n].uid = uid
    BY <2>2 DEF AttemptsOf, RowsOf, LedgerOf
  <2> QED
    BY <2>1, <2>2
<1>5. RowsOf(n) = {} <=> count = 0
  <2>1. {a.seq : a \in RowsOf(n)} = 1..count
    BY DEF LedgerOf
  <2> HIDE DEF count
  <2>2. CASE RowsOf(n) = {}
    BY <1>1, <2>1, <2>2
  <2>3. CASE RowsOf(n) # {}
    <3>1. 1..count # {}
      BY <2>1, <2>3
    <3> QED
      BY <1>1, <2>3, <3>1
  <2> QED
    BY <2>2, <2>3
<1>6. MaxSeq(uid) = count
  <2> DEFINE seqs == {a.seq : a \in AttemptsOf(uid)}
  <2>1. seqs = 1..count
    BY <1>4 DEF LedgerOf
  <2>2. MaxSeq(uid) = IF seqs = {} THEN 0
                      ELSE CHOOSE k \in seqs : \A j \in seqs : j <= k
    BY DEF MaxSeq
  <2> HIDE DEF seqs, count
  <2>3. CASE count = 0
    BY <2>1, <2>2, <2>3
  <2>4. CASE count # 0
    <3>1. count \in seqs /\ \A j \in seqs : j <= count
      BY <1>1, <2>1, <2>4
    <3>2. \A k \in seqs : (\A j \in seqs : j <= k) => k = count
      BY <1>1, <2>1, <2>4
    <3> QED
      BY <2>2, <3>1, <3>2
  <2> QED
    BY <2>3, <2>4
<1>7. RowsOf(n) # {} => /\ LastAttempt(uid) \in RowsOf(n)
                        /\ LastAttempt(uid).seq = count
  BY <1>4, <1>6, LastAttemptExists DEF LastAttempt, RowsOf, AttemptsOf
<1> QED
  BY <1>3, <1>4, <1>5, <1>6, <1>7 DEF LedgerOf

\* _resume_disposition, by the last row of the ledger.
LEMMA DispositionRead ==
  ASSUME StoreTypeOK, NEW n \in Node, LedgerOf(n), ErrorsOf(n),
         NEW uid \in UidsOf(n), task[n].uid \in {NoUid, uid}
  PROVE  /\ Disposition(uid) = "blocked" <=> Spent(n)
         /\ Disposition(uid) = "reconstruct" =>
              /\ RowsOf(n) # {} /\ LastAttempt(uid).status = "FAILED"
         /\ Disposition(uid) = "proceed" =>
              /\ task[n].attemptCount < AttemptCap
              /\ \A a \in RowsOf(n) :
                   a.seq = task[n].attemptCount /\ a.status = "FAILED" =>
                     ShouldRetry(a.class, a.seq)
<1> DEFINE last == LastAttempt(uid)
<1>1. /\ AttemptsOf(uid) = RowsOf(n)
      /\ RowsOf(n) = {} <=> task[n].attemptCount = 0
      /\ RowsOf(n) # {} =>
           /\ last \in RowsOf(n)
           /\ last.seq = task[n].attemptCount
           /\ \A a \in RowsOf(n) : a.seq = task[n].attemptCount => a = last
  BY LedgerRead
<1>2. Disposition(uid) =
        IF RowsOf(n) = {} THEN "proceed"
        ELSE IF last.status # "FAILED" \/ last.class = NoError
          THEN IF last.seq >= AttemptCap THEN "blocked" ELSE "proceed"
        ELSE IF last.seq >= AttemptCap \/ ~ShouldRetry(last.class, last.seq)
          THEN "reconstruct" ELSE "proceed"
  BY <1>1 DEF Disposition
<1>3. task[n].attemptCount \in 0..3
  BY DEF StoreTypeOK, TaskRow, AttemptCap
<1>4. AttemptCap = 3
  BY DEF AttemptCap
<1> HIDE DEF last
<1>5. CASE RowsOf(n) = {}
  BY <1>1, <1>2, <1>4, <1>5 DEF Spent
<1>6. CASE RowsOf(n) # {}
  <2>1. last.status = "FAILED" => last.class # NoError
    BY <1>1, <1>6 DEF ErrorsOf
  <2>2. CASE last.status # "FAILED"
    BY <1>1, <1>2, <1>3, <1>4, <1>6, <2>2 DEF Spent
  <2>3. CASE last.status = "FAILED"
    BY <1>1, <1>2, <1>3, <1>4, <1>6, <2>1, <2>3 DEF Spent, last
  <2> QED
    BY <2>2, <2>3
<1> QED
  BY <1>5, <1>6
------------------------------------------------------------------------------
\* The transactions, when their writer knows what the ledger says.

\* An event becomes the last entry of its node's log.
LEMMA LogNodeLast ==
  ASSUME StoreTypeOK, NEW n \in Node, NEW type, NEW uid, NEW status,
         NEW secondary, LogNode(n, type, uid, status, secondary)
  PROVE  /\ nodeEvents'[n] # <<>>
         /\ nodeEvents'[n][Len(nodeEvents'[n])].status = status
         /\ nodeEvents'[n][Len(nodeEvents'[n])].uid = uid
         /\ BlockedNode(n)' <=> BlockedNode(n) \/ type = "checkpoint_blocked"
<1> DEFINE entry == [type |-> type, uid |-> uid, status |-> status,
                     secondary |-> secondary]
           log   == nodeEvents[n]
<1>1. log \in Seq(NodeEvent) /\ nodeEvents'[n] = Append(log, entry)
  BY DEF StoreTypeOK, LogNode
<1>2. entry.type = type /\ entry.uid = uid /\ entry.status = status
  OBVIOUS
<1> HIDE DEF entry
<1>3. /\ Len(log) \in Nat /\ DOMAIN log = 1..Len(log)
      /\ Len(nodeEvents'[n]) = Len(log) + 1
      /\ DOMAIN nodeEvents'[n] = 1..(Len(log) + 1)
      /\ \A i \in 1..Len(log) : nodeEvents'[n][i] = log[i]
      /\ nodeEvents'[n][Len(log) + 1] = entry
  BY <1>1
<1>4. nodeEvents'[n] # <<>>
  BY <1>3
<1> HIDE DEF log
<1>5. (\E i \in DOMAIN nodeEvents'[n] :
         nodeEvents'[n][i].type = "checkpoint_blocked")
        <=> \/ \E i \in DOMAIN log : log[i].type = "checkpoint_blocked"
            \/ type = "checkpoint_blocked"
  BY <1>2, <1>3
<1> QED
  BY <1>2, <1>3, <1>4, <1>5 DEF BlockedNode, log

\* set_node_task(RUNNING) on a node that is not blocked, under its own uid.
LEMMA SetRunningKeepsNode ==
  ASSUME StoreTypeOK, NEW o \in Owner, NEW n \in Node, NEW uid \in UidsOf(n),
         NodeInv(n), task[n].uid \in {NoUid, uid},
         task[n].status = "PENDING" \/ ~Spent(n),
         SetRunning(o, n, uid)
  PROVE  /\ NodeInv(n)'
         /\ RowsOf(n)' = RowsOf(n)
         /\ task'[n].status = "RUNNING" /\ task'[n].uid = uid
         /\ task'[n].attemptCount = task[n].attemptCount
<1> USE DEF NodeInv
<1>1. /\ task'[n] = [task[n] EXCEPT !.status = "RUNNING", !.uid = uid]
      /\ attempts' = attempts
      /\ LogNode(n, "node_started", uid, "RUNNING", {})
  BY DEF SetRunning, StoreTypeOK
<1>2. /\ task'[n].status = "RUNNING" /\ task'[n].uid = uid
      /\ task'[n].attemptCount = task[n].attemptCount
  BY <1>1 DEF StoreTypeOK, TaskRow
<1>3. RowsOf(n)' = RowsOf(n)
  BY <1>1 DEF RowsOf
<1>4. task[n].uid = NoUid => RowsOf(n) = {}
  BY LedgerRead
<1>5. LedgerOf(n)'
  BY <1>2, <1>3, <1>4 DEF LedgerOf
<1>6. BudgetOf(n)' /\ ErrorsOf(n)'
  BY <1>3 DEF BudgetOf, ErrorsOf
<1>7. ReplayOf(n)' /\ PendingBlank(n)' /\ VerdictOnRecord(n)'
  BY <1>1, <1>2, LogNodeLast
     DEF ReplayOf, PendingBlank, VerdictOnRecord, NodeTerminal
<1>8. BlockedOf(n)'
  BY <1>1, LogNodeLast DEF BlockedOf
<1> QED
  BY <1>2, <1>3, <1>5, <1>6, <1>7, <1>8

\* record_node_blocked, of a node whose disposition is blocked.
LEMMA RecordBlockedKeepsNode ==
  ASSUME StoreTypeOK, NEW o \in Owner, NEW n \in Node, NEW uid \in UidsOf(n),
         NodeInv(n), task[n].uid = uid, task[n].status = "UNKNOWN", Spent(n),
         RecordNodeBlocked(o, n, uid)
  PROVE  NodeInv(n)' /\ RowsOf(n)' = RowsOf(n) /\ task' = task
<1> USE DEF NodeInv
<1>1. /\ task' = task /\ attempts' = attempts
      /\ LogNode(n, "checkpoint_blocked", uid, "UNKNOWN", {})
  BY DEF RecordNodeBlocked
<1>2. RowsOf(n)' = RowsOf(n)
  BY <1>1 DEF RowsOf
<1>3. LedgerOf(n)' /\ BudgetOf(n)' /\ ErrorsOf(n)' /\ PendingBlank(n)'
  BY <1>1, <1>2 DEF LedgerOf, BudgetOf, ErrorsOf, PendingBlank
<1>4. ReplayOf(n)' /\ VerdictOnRecord(n)'
  BY <1>1, LogNodeLast DEF ReplayOf, VerdictOnRecord, NodeTerminal
<1>5. BlockedOf(n)'
  BY <1>1, <1>2 DEF BlockedOf, Spent
<1> QED
  BY <1>1, <1>2, <1>3, <1>4, <1>5

\* The START half of record_attempt, by a process that may try again.
LEMMA AttemptStartKeepsNode ==
  ASSUME StoreTypeOK, NEW o \in Owner, NEW n \in Node, NEW uid \in UidsOf(n),
         NEW seq \in 1..AttemptCap, NodeInv(n),
         seq = task[n].attemptCount + 1, MayTry(o, n),
         AttemptStart(o, n, uid, seq)
  PROVE  /\ NodeInv(n)'
         /\ task'[n].status = task[n].status /\ task'[n].uid = task[n].uid
         /\ task'[n].attemptCount = seq
<1> USE DEF NodeInv
<1> DEFINE row == AttemptOf(o, uid, seq, "RUNNING", NoError)
<1>1. /\ task'[n] = [task[n] EXCEPT !.attemptCount = seq]
      /\ attempts' = attempts \cup {row}
      /\ nodeEvents' = nodeEvents
      /\ task[n].status = "RUNNING" /\ task[n].uid = uid
  BY DEF AttemptStart, Checkpointed, StoreTypeOK
<1>2. /\ task'[n].status = "RUNNING" /\ task'[n].uid = uid
      /\ task'[n].attemptCount = seq
      /\ task[n].attemptCount \in Nat
  <2>1. task[n] \in TaskRow
    BY DEF StoreTypeOK
  <2>2. task[n].attemptCount \in Nat
    BY <2>1 DEF TaskRow, AttemptCap
  <2> QED
    BY <1>1, <2>1, <2>2 DEF TaskRow
<1>3. /\ row.uid = uid /\ row.seq = seq /\ row.status = "RUNNING"
      /\ row.by = o /\ row.class = NoError
  BY DEF AttemptOf
<1> HIDE DEF row
<1>4. RowsOf(n)' = RowsOf(n) \cup {row}
  BY <1>1, <1>3 DEF RowsOf
<1>5. \A a \in RowsOf(n) : a.seq \in 1..task[n].attemptCount
  BY DEF LedgerOf
<1>6. LedgerOf(n)'
  <2>1. {a.seq : a \in RowsOf(n)'} = {a.seq : a \in RowsOf(n)} \cup {seq}
    BY <1>3, <1>4
  <2>2. {a.seq : a \in RowsOf(n)'} = 1..seq
    <3>1. 1..seq = (1..task[n].attemptCount) \cup {seq}
      BY <1>2
    <3> QED
      BY <2>1, <3>1 DEF LedgerOf
  <2>3. \A a, b \in RowsOf(n)' : a.seq = b.seq => a = b
    BY <1>2, <1>3, <1>4, <1>5 DEF LedgerOf
  <2>4. \A a \in RowsOf(n)' : a.uid = uid
    BY <1>1, <1>3, <1>4 DEF LedgerOf
  <2> QED
    BY <1>2, <2>2, <2>3, <2>4 DEF LedgerOf
<1>7. BudgetOf(n)'
  <2> SUFFICES ASSUME NEW a \in RowsOf(n)', NEW b \in RowsOf(n)',
                      a.uid = b.uid, b.seq = a.seq + 1
               PROVE  \/ a.status = "FAILED" /\ ShouldRetry(a.class, a.seq)
                      \/ a.status \in {"RUNNING", "SUCCEEDED"} /\ a.by # b.by
    BY DEF BudgetOf
  <2>1. a # row
    BY <1>2, <1>3, <1>4, <1>5
  <2>2. a \in RowsOf(n) /\ a.status \in {"RUNNING", "SUCCEEDED", "FAILED"}
    BY <1>4, <2>1 DEF RowsOf, StoreTypeOK, AttemptRow, NodeTerminal
  <2>3. CASE b = row
    <3>1. a.seq = task[n].attemptCount
      BY <1>2, <1>3, <1>5, <2>2, <2>3
    <3> QED
      BY <1>3, <2>2, <2>3, <3>1 DEF MayTry
  <2>4. CASE b # row
    BY <1>4, <2>2, <2>4 DEF BudgetOf
  <2> QED
    BY <2>3, <2>4
<1>8. ErrorsOf(n)'
  BY <1>3, <1>4 DEF ErrorsOf
<1>9. ReplayOf(n)' /\ PendingBlank(n)' /\ VerdictOnRecord(n)'
  BY <1>1, <1>2 DEF ReplayOf, PendingBlank, VerdictOnRecord, NodeTerminal
<1>10. BlockedOf(n)'
  BY <1>1 DEF BlockedOf, BlockedNode
<1> QED
  BY <1>1, <1>2, <1>6, <1>7, <1>8, <1>9, <1>10

\* The END half of record_attempt, for the last attempt.
LEMMA AttemptEndKeepsNode ==
  ASSUME StoreTypeOK, NEW o \in Owner, NEW n \in Node, NEW uid \in UidsOf(n),
         NEW seq \in 1..AttemptCap, NEW status \in NodeTerminal,
         NEW class \in MaybeError, NodeInv(n), seq = task[n].attemptCount,
         status = "FAILED" => class # NoError /\ class \notin DegradingClasses,
         AttemptEnd(o, n, uid, seq, status, class)
  PROVE  /\ NodeInv(n)'
         /\ task' = task
         /\ AttemptOf(o, uid, seq, status, class) \in RowsOf(n)'
<1> USE DEF NodeInv
<1> DEFINE old == AttemptOf(o, uid, seq, "RUNNING", NoError)
           row == AttemptOf(o, uid, seq, status, class)
<1>1. /\ task' = [task EXCEPT ![n].attemptCount = IF @ < seq THEN seq ELSE @]
      /\ attempts' = (attempts \ {old}) \cup {row}
      /\ nodeEvents' = nodeEvents
      /\ task[n].status = "RUNNING" /\ task[n].uid = uid
      /\ old \in attempts
  BY DEF AttemptEnd, Checkpointed
<1>2. task[n].attemptCount \in Nat
  BY DEF StoreTypeOK, TaskRow, AttemptCap
<1>3. task' = task
  <2>1. task' = [task EXCEPT ![n] = [task[n] EXCEPT !.attemptCount =
                   IF task[n].attemptCount < seq THEN seq
                   ELSE task[n].attemptCount]]
    BY <1>1
  <2>2. (IF task[n].attemptCount < seq THEN seq ELSE task[n].attemptCount)
          = task[n].attemptCount
    BY <1>2
  <2>3. [task[n] EXCEPT !.attemptCount = task[n].attemptCount] = task[n]
    BY DEF StoreTypeOK, TaskRow
  <2> QED
    BY <2>1, <2>2, <2>3 DEF StoreTypeOK
<1>4. /\ row.uid = uid /\ row.seq = seq /\ row.status = status
      /\ row.by = o /\ row.class = class
      /\ old.uid = uid /\ old.seq = seq /\ old.by = o
      /\ old.status = "RUNNING"
  BY DEF AttemptOf
<1> HIDE DEF row, old
<1>5. RowsOf(n)' = (RowsOf(n) \ {old}) \cup {row} /\ old \in RowsOf(n)
  BY <1>1, <1>4 DEF RowsOf
<1>6. \A a \in RowsOf(n) : a.seq \in 1..task[n].attemptCount
  BY DEF LedgerOf
<1>7. LedgerOf(n)'
  <2>1. {a.seq : a \in RowsOf(n)'} = {a.seq : a \in RowsOf(n)}
    BY <1>4, <1>5
  <2>2. \A a, b \in RowsOf(n)' : a.seq = b.seq => a = b
    BY <1>4, <1>5 DEF LedgerOf
  <2>3. \A a \in RowsOf(n)' : a.uid = uid
    BY <1>1, <1>4, <1>5 DEF LedgerOf
  <2> QED
    BY <1>1, <1>3, <2>1, <2>2, <2>3 DEF LedgerOf
<1>8. BudgetOf(n)'
  <2> SUFFICES ASSUME NEW a \in RowsOf(n)', NEW b \in RowsOf(n)',
                      a.uid = b.uid, b.seq = a.seq + 1
               PROVE  \/ a.status = "FAILED" /\ ShouldRetry(a.class, a.seq)
                      \/ a.status \in {"RUNNING", "SUCCEEDED"} /\ a.by # b.by
    BY DEF BudgetOf
  <2>1. a # row
    BY <1>2, <1>4, <1>5, <1>6
  <2>2. a \in RowsOf(n)
    BY <1>5, <2>1
  <2>3. CASE b = row
    BY <1>4, <1>5, <2>2, <2>3 DEF BudgetOf
  <2>4. CASE b # row
    BY <1>5, <2>2, <2>4 DEF BudgetOf
  <2> QED
    BY <2>3, <2>4
<1>9. ErrorsOf(n)'
  BY <1>4, <1>5 DEF ErrorsOf
<1>10. ReplayOf(n)' /\ PendingBlank(n)' /\ VerdictOnRecord(n)'
  BY <1>1, <1>3 DEF ReplayOf, PendingBlank, VerdictOnRecord, NodeTerminal
<1>11. BlockedOf(n)'
  BY <1>1 DEF BlockedOf, BlockedNode
<1> QED
  BY <1>3, <1>5, <1>7, <1>8, <1>9, <1>10, <1>11 DEF row

\* commit_execution_result, of a result that reports the last attempt.
LEMMA CommitKeepsNode ==
  ASSUME StoreTypeOK, NEW o \in Owner, NEW n \in Node, NEW uid \in UidsOf(n),
         NEW result \in Result, NodeInv(n), task[n].uid = uid,
         task[n].status = "RUNNING",
         LastReports(n, result.status, result.class),
         Commit(o, n, uid, result)
  PROVE  /\ NodeInv(n)'
         /\ RowsOf(n)' = RowsOf(n)
         /\ task'[n].status = result.status /\ task'[n].uid = uid
         /\ task'[n].class = result.class
<1> USE DEF NodeInv
<1>1. /\ task'[n] = CommittedTask(n, uid, result)
      /\ attempts' = attempts
      /\ LogNode(n, "node_finished", uid, result.status, result.secondary)
  BY DEF Commit, StoreTypeOK
<1>2. /\ task'[n].status = result.status /\ task'[n].uid = uid
      /\ task'[n].class = result.class
      /\ task'[n].attemptCount = task[n].attemptCount
  BY <1>1 DEF CommittedTask, StoreTypeOK, TaskRow
<1>3. RowsOf(n)' = RowsOf(n)
  BY <1>1 DEF RowsOf
<1>4. LedgerOf(n)' /\ BudgetOf(n)' /\ ErrorsOf(n)'
  BY <1>2, <1>3 DEF LedgerOf, BudgetOf, ErrorsOf
<1>5. ReplayOf(n)' /\ PendingBlank(n)'
  BY <1>1, <1>2, LogNodeLast DEF ReplayOf, PendingBlank, Result
<1>6. VerdictOnRecord(n)'
  BY <1>2, <1>3 DEF VerdictOnRecord, LastReports, Reports
<1>7. BlockedOf(n)'
  BY <1>1, LogNodeLast DEF BlockedOf
<1> QED
  BY <1>2, <1>3, <1>4, <1>5, <1>6, <1>7

\* resume_run turns RUNNING checkpoints UNKNOWN and logs each.
LEMMA ResumeKeepsNode ==
  ASSUME StoreTypeOK, NEW o \in Owner, NEW n \in Node, NodeInv(n),
         ResumeRun(o)
  PROVE  /\ NodeInv(n)'
         /\ task'[n].status # "RUNNING"
         /\ BlockedNode(n)' <=> BlockedNode(n)
<1> USE DEF NodeInv
<1>1. RowsOf(n)' = RowsOf(n)
  BY DEF ResumeRun, RowsOf
<1>2. CASE task[n].status # "RUNNING"
  <2>1. task'[n] = task[n] /\ nodeEvents'[n] = nodeEvents[n]
    BY <1>2 DEF ResumeRun
  <2> QED
    BY <1>1, <1>2, <2>1, NodeFrame DEF BlockedNode
<1>3. CASE task[n].status = "RUNNING"
  <2> DEFINE entry == [type |-> "checkpoint_resumed", uid |-> task[n].uid,
                       status |-> "UNKNOWN", secondary |-> {}]
             log   == nodeEvents[n]
  <2>1. /\ task'[n] = [task[n] EXCEPT !.status = "UNKNOWN"]
        /\ nodeEvents'[n] = Append(log, entry)
        /\ log \in Seq(NodeEvent)
    BY <1>3 DEF ResumeRun, StoreTypeOK
  <2>2. /\ task'[n].status = "UNKNOWN" /\ task'[n].uid = task[n].uid
        /\ task'[n].attemptCount = task[n].attemptCount
    BY <2>1 DEF StoreTypeOK, TaskRow
  <2>3. /\ entry.uid = task[n].uid /\ entry.status = "UNKNOWN"
        /\ entry.type = "checkpoint_resumed"
    OBVIOUS
  <2> HIDE DEF entry
  <2>4. /\ Len(log) \in Nat /\ DOMAIN log = 1..Len(log)
        /\ Len(nodeEvents'[n]) = Len(log) + 1
        /\ DOMAIN nodeEvents'[n] = 1..(Len(log) + 1)
        /\ \A i \in 1..Len(log) : nodeEvents'[n][i] = log[i]
        /\ nodeEvents'[n][Len(log) + 1] = entry
    BY <2>1
  <2>5. LedgerOf(n)' /\ BudgetOf(n)' /\ ErrorsOf(n)'
    BY <1>1, <2>2 DEF LedgerOf, BudgetOf, ErrorsOf
  <2>6. PendingBlank(n)' /\ VerdictOnRecord(n)'
    BY <2>2 DEF PendingBlank, VerdictOnRecord, NodeTerminal
  <2>7. ReplayOf(n)'
    BY <2>2, <2>3, <2>4 DEF ReplayOf
  <2>8. BlockedNode(n)' <=> BlockedNode(n)
    <3> DEFINE B(x) == x.type = "checkpoint_blocked"
    <3>1. ~B(nodeEvents'[n][Len(log) + 1])
      BY <2>3, <2>4
    <3>2. (\E i \in 1..(Len(log) + 1) : B(nodeEvents'[n][i])) <=>
            \E i \in 1..Len(log) : B(nodeEvents'[n][i])
      <4>1. \A i \in 1..(Len(log) + 1) : i \in 1..Len(log) \/ i = Len(log) + 1
        BY <2>4
      <4>2. 1..Len(log) \subseteq 1..(Len(log) + 1)
        BY <2>4
      <4> HIDE DEF B
      <4> QED
        BY <3>1, <4>1, <4>2
    <3>3. (\E i \in 1..Len(log) : B(nodeEvents'[n][i])) <=>
            \E i \in 1..Len(log) : B(log[i])
      BY <2>4
    <3>4. BlockedNode(n) <=> \E i \in 1..Len(log) : B(log[i])
      BY <2>4 DEF BlockedNode
    <3>5. BlockedNode(n)' <=>
            \E i \in 1..(Len(log) + 1) : B(nodeEvents'[n][i])
      BY <2>4 DEF BlockedNode
    <3> HIDE DEF B
    <3> QED
      BY <3>2, <3>3, <3>4, <3>5
  <2>9. BlockedOf(n)'
    BY <1>3, <2>8 DEF BlockedOf
  <2> QED
    BY <2>2, <2>5, <2>6, <2>7, <2>8, <2>9
<1> QED
  BY <1>2, <1>3
------------------------------------------------------------------------------
\* The jobs of the process that holds the lease.

\* A job moves without touching its siblings.
LEMMA GotoMoves ==
  ASSUME JobsReady, NEW p \in Owner, NEW n \in Node, NEW pc, Goto(p, n, pc)
  PROVE  /\ job'[p][n].pc = pc
         /\ job'[p][n].seq = job[p][n].seq
         /\ job'[p][n].result = job[p][n].result
         /\ \A m \in Node \ {n} : job'[p][m] = job[p][m]
         /\ \A q \in Owner \ {p} : job'[q] = job[q]
<1>1. job[p][n] \in Job
  BY NumberedJob
<1>2. [job[p][n] EXCEPT !.pc = pc].pc = pc
  BY <1>1 DEF Job
<1>3. /\ [job[p][n] EXCEPT !.pc = pc].seq = job[p][n].seq
      /\ [job[p][n] EXCEPT !.pc = pc].result = job[p][n].result
  BY <1>1 DEF Job
<1> QED
  BY <1>2, <1>3 DEF Goto, JobsReady

\* So does one that numbers its next attempt, or one that has its result.
ToConnect(p, n, k) ==
  job' = [job EXCEPT ![p][n].pc = "connect", ![p][n].seq = k]

ToCommit(p, n, r) ==
  job' = [job EXCEPT ![p][n].pc = "commit", ![p][n].result = r]

LEMMA ConnectMoves ==
  ASSUME JobsReady, NEW p \in Owner, NEW n \in Node, NEW k \in Nat,
         ToConnect(p, n, k)
  PROVE  /\ job'[p][n].pc = "connect" /\ job'[p][n].seq = k
         /\ \A m \in Node \ {n} : job'[p][m] = job[p][m]
         /\ \A q \in Owner \ {p} : job'[q] = job[q]
<1>1. job[p][n] \in Job
  BY NumberedJob
<1>2. /\ [job[p][n] EXCEPT !.pc = "connect", !.seq = k].pc = "connect"
      /\ [job[p][n] EXCEPT !.pc = "connect", !.seq = k].seq = k
  BY <1>1 DEF Job
<1> QED
  BY <1>2 DEF JobsReady, ToConnect

LEMMA ToCommitMoves ==
  ASSUME JobsReady, NEW p \in Owner, NEW n \in Node, NEW r \in Result,
         ToCommit(p, n, r)
  PROVE  /\ job'[p][n].pc = "commit" /\ job'[p][n].result = r
         /\ \A m \in Node \ {n} : job'[p][m] = job[p][m]
         /\ \A q \in Owner \ {p} : job'[q] = job[q]
<1>1. job[p][n] \in Job
  BY NumberedJob
<1>2. /\ [job[p][n] EXCEPT !.pc = "commit", !.result = r].pc = "commit"
      /\ [job[p][n] EXCEPT !.pc = "commit", !.result = r].result = r
  BY <1>1 DEF Job
<1> QED
  BY <1>2 DEF JobsReady, ToCommit

\* build_execution_result tells the attempt it is given, and is degraded
\* exactly if an error class says so.
LEMMA BuildResultReports ==
  ASSUME NEW status \in NodeTerminal, NEW class \in MaybeError, NEW seq,
         NEW out \in StreamKind, NEW err \in StreamKind,
         status = "FAILED" => class # NoError /\ class \notin DegradingClasses,
         status = "SUCCEEDED" => class = NoError,
         NEW a, a.status = status, a.class = class
  PROVE  LET r == BuildResult(status, class, seq, out, err)
         IN /\ r.count = seq
            /\ Reports(r.status, r.class, a)
            /\ DegradedOf(r)
<1> DEFINE r == BuildResult(status, class, seq, out, err)
<1>1. /\ r.status = IF "lost" \in {out, err} THEN "FAILED" ELSE status
      /\ r.count = seq
      /\ r.class = Primary(class, out, err)
      /\ r.secondary = Secondary(class, out, err)
      /\ r.degraded = ({out, err} # {"stored"})
  BY DEF BuildResult
<1> HIDE DEF r
<1>2. NoError \notin DegradingClasses
  BY DEF NoError, DegradingClasses
<1>3. Reports(r.status, r.class, a)
  <2>1. CASE status = "FAILED"
    BY <1>1, <2>1 DEF Reports, Primary
  <2>2. CASE status = "SUCCEEDED" /\ "lost" \in {out, err}
    BY <1>1, <2>2 DEF Reports, Primary, BlobFailed, NoError
  <2>3. CASE status = "SUCCEEDED" /\ "lost" \notin {out, err}
    BY <1>1, <2>3 DEF Reports, Primary, DegradingClasses
  <2> QED
    BY <2>1, <2>2, <2>3 DEF NodeTerminal
<1>4. Classes(r) \cap DegradingClasses # {} <=> {out, err} # {"stored"}
  <2>1. CASE out = "stored" /\ err = "stored"
    <3>1. r.class = class /\ r.secondary = {}
      BY <1>1, <2>1 DEF Primary, Secondary, BlobFailed, Binary
    <3>2. class \notin DegradingClasses
      BY <1>2 DEF NodeTerminal
    <3> QED
      BY <2>1, <3>1, <3>2 DEF Classes
  <2>2. CASE BlobFailed(out) \/ BlobFailed(err)
    <3>1. \/ r.class = "blob_write_failed"
          \/ "blob_write_failed" \in r.secondary
      BY <1>1, <2>2 DEF Primary, Secondary
    <3> QED
      BY <2>2, <3>1 DEF Classes, DegradingClasses, BlobFailed, NoError
  <2>3. CASE /\ ~(BlobFailed(out) \/ BlobFailed(err))
             /\ Binary(out) \/ Binary(err)
    <3>1. \/ r.class = "output_decode_failed"
          \/ "output_decode_failed" \in r.secondary
      BY <1>1, <2>3 DEF Primary, Secondary
    <3> QED
      BY <2>3, <3>1 DEF Classes, DegradingClasses, Binary, NoError
  <2> QED
    BY <2>1, <2>2, <2>3 DEF StreamKind, BlobFailed, Binary
<1>5. DegradedOf(r)
  BY <1>1, <1>4 DEF DegradedOf
<1> QED
  BY <1>1, <1>3, <1>5 DEF r

\* What ends a session is a failure with an error, which is never one of the
\* degrading ones, or a success without.
LEMMA AnswerSound ==
  ASSUME NEW a \in Answer
  PROVE  /\ AttemptStatus(a) = "FAILED" =>
              /\ AttemptClass(a) # NoError
              /\ AttemptClass(a) \notin DegradingClasses
         /\ AttemptStatus(a) = "SUCCEEDED" => AttemptClass(a) = NoError
         /\ a.error # NoError =>
              AttemptStatus(a) = "FAILED" /\ AttemptClass(a) = a.error
<1>1. a.error \in FaultClass \cup {NoError} /\ a.expected \in BOOLEAN
  <2>1. CASE a \in [error : {NoError}, expected : BOOLEAN, out : OutputKind,
                    err : OutputKind]
    BY <2>1
  <2>2. ASSUME NEW c \in FaultClass,
               a = [error |-> c, expected |-> FALSE, out |-> "stored",
                    err |-> "stored"]
        PROVE  a.error \in FaultClass /\ a.expected \in BOOLEAN
    BY <2>2
  <2> QED
    BY <2>1, <2>2 DEF Answer
<1>2. /\ FaultClass \cap DegradingClasses = {}
      /\ "exec_nonzero" \notin DegradingClasses /\ "exec_nonzero" # NoError
  BY BatchAssumption DEF DegradingClasses, NoError
<1> QED
  BY <1>1, <1>2 DEF AttemptStatus, AttemptClass

\* What a job may rely on.
Reliable(p, n) ==
  /\ StoreTypeOK /\ NodeCommitAtomic /\ ProcInv
  /\ NodeInv(n) /\ View(p, n) /\ Holds(p)

\* The uid a job uses is that of the checkpoint, if it has one.
LEMMA UidForTask ==
  ASSUME NEW p \in Owner, NEW n \in Node, Reliable(p, n),
         job[p][n].pc \in {"queued", "block", "checkpoint", "plan"}
  PROVE  UidFor(p, n) \in UidsOf(n) /\ task[n].uid \in {NoUid, UidFor(p, n)}
<1>1. UidFor(p, n) \in UidsOf(n)
  BY UidForBelongs DEF Reliable, ProcInv
<1>2. task[n] = snap[p][n] \/ Checkpointed(n, UidFor(p, n))
  BY DEF Reliable, View, Snapshot, Executing
<1> QED
  BY <1>1, <1>2 DEF UidFor, Checkpointed

\* A job dispatched from the snapshot is PENDING or UNKNOWN there.
LEMMA DispatchedStatus ==
  ASSUME NEW p \in Owner, NEW n \in Node, Reliable(p, n),
         job[p][n].pc # "absent"
  PROVE  snap[p][n].status \in {"PENDING", "UNKNOWN"}
BY DEF Reliable, ProcInv, ProcTypeOK, TaskRow, View, Snapshot, Writable

LEMMA AcquireKeepsView ==
  ASSUME NEW p \in Owner, NEW n \in Node, Reliable(p, n), Acquire(p, n)
  PROVE  View(p, n)'
<1> USE DEF Reliable, ProcInv
<1>1. /\ job[p][n].pc = "queued"
      /\ UNCHANGED <<dbVars, snap, resumed>>
  BY DEF Acquire, At, JobStep
<1>2. PICK pc : /\ Goto(p, n, pc)
                /\ pc \in {"lost", "block", "checkpoint"}
                /\ pc = "block" => /\ ResumedNode(p, n)
                                   /\ Disposition(UidFor(p, n)) = "blocked"
                /\ pc = "checkpoint" =>
                     ~(/\ ResumedNode(p, n)
                       /\ Disposition(UidFor(p, n)) = "blocked")
  BY DEF Acquire
<1>3. job'[p][n].pc = pc
  BY <1>2, GotoMoves
<1>4. RowsOf(n)' = RowsOf(n) /\ task' = task /\ nodeEvents' = nodeEvents
  BY <1>1 DEF RowsOf, dbVars
<1>5. Disposition(UidFor(p, n)) = "blocked" <=> Spent(n)
  BY <1>1, UidForTask, DispositionRead DEF NodeInv
<1>6. CASE pc = "lost"
  BY <1>1, <1>3, <1>4, <1>6, ViewFrame
<1>7. CASE pc \in {"block", "checkpoint"}
  <2>1. Snapshot(p, n)'
    BY <1>1, <1>3, <1>4, <1>7 DEF View, Snapshot
  <2>2. Spent(n)' <=> Spent(n)
    BY <1>4 DEF Spent
  <2>3. Disposed(p, n)'
    BY <1>1, <1>2, <1>3, <1>4, <1>5, <1>7, <2>2 DEF Disposed, ResumedNode
  <2>4. Executing(p, n)'
    BY <1>3, <1>7 DEF Executing
  <2> QED
    BY <2>1, <2>3, <2>4 DEF View
<1> QED
  BY <1>2, <1>6, <1>7

LEMMA BlockKeepsView ==
  ASSUME NEW p \in Owner, NEW n \in Node, Reliable(p, n), Block(p, n)
  PROVE  NodeInv(n)' /\ View(p, n)'
<1> USE DEF Reliable, ProcInv
<1>1. /\ job[p][n].pc = "block"
      /\ RecordNodeBlocked(p, n, UidFor(p, n))
      /\ Goto(p, n, "blocked")
      /\ UNCHANGED <<snap, resumed>>
  BY DEF Block, At, JobStep
<1>2. /\ task[n] = snap[p][n] /\ task[n].status = "UNKNOWN" /\ Spent(n)
  BY <1>1 DEF View, Snapshot, Disposed
<1>3. UidFor(p, n) \in UidsOf(n) /\ task[n].uid \in {NoUid, UidFor(p, n)}
  BY <1>1, UidForTask
<1>4. task[n].uid = UidFor(p, n)
  <2>1. task[n].attemptCount # 0
    BY <1>2 DEF Spent, AttemptCap
  <2> QED
    BY <1>3, <2>1, LedgerRead DEF NodeInv
<1>5. NodeInv(n)' /\ RowsOf(n)' = RowsOf(n) /\ task' = task
  BY <1>1, <1>2, <1>3, <1>4, RecordBlockedKeepsNode
<1>6. job'[p][n].pc = "blocked"
  BY <1>1, GotoMoves
<1>7. Snapshot(p, n)'
  BY <1>1, <1>2, <1>5, <1>6 DEF View, Snapshot
<1>8. Disposed(p, n)' /\ Executing(p, n)'
  BY <1>1, <1>2, <1>5, <1>6 DEF Disposed, Executing, Spent
<1> QED
  BY <1>5, <1>7, <1>8 DEF View

LEMMA CheckpointKeepsView ==
  ASSUME NEW p \in Owner, NEW n \in Node, Reliable(p, n), Checkpoint(p, n)
  PROVE  /\ NodeInv(n)' /\ View(p, n)'
         /\ job'[p][n].pc = "plan"
<1> USE DEF Reliable, ProcInv
<1>1. /\ job[p][n].pc = "checkpoint"
      /\ UNCHANGED <<snap, resumed>>
  BY DEF Checkpoint, At, JobStep
<1>2. task[n] = snap[p][n] /\ task[n].status \in {"PENDING", "UNKNOWN"}
  BY <1>1, DispatchedStatus DEF View, Snapshot
<1>3. SetRunning(p, n, UidFor(p, n)) /\ Goto(p, n, "plan")
  BY <1>2 DEF Checkpoint, Writable
<1>4. UidFor(p, n) \in UidsOf(n) /\ task[n].uid \in {NoUid, UidFor(p, n)}
  BY <1>1, UidForTask
<1>5. task[n].status = "PENDING" \/ ~Spent(n)
  BY <1>1, <1>2 DEF View, Disposed
<1>6. /\ NodeInv(n)' /\ RowsOf(n)' = RowsOf(n)
      /\ task'[n].status = "RUNNING" /\ task'[n].uid = UidFor(p, n)
      /\ task'[n].attemptCount = task[n].attemptCount
  BY <1>3, <1>4, <1>5, SetRunningKeepsNode
<1>8. job'[p][n].pc = "plan"
  BY <1>3, GotoMoves
<1>9. Snapshot(p, n)'
  BY <1>1, <1>6, <1>8 DEF View, Snapshot
<1>10. Disposed(p, n)'
  <2>1. snap[p][n].status = "PENDING" => task[n].attemptCount = 0
    BY <1>2, <1>4, LedgerRead DEF NodeInv, PendingBlank
  <2>2. Spent(n)' <=> Spent(n)
    BY <1>6 DEF Spent
  <2> QED
    BY <1>1, <1>2, <1>5, <1>6, <1>8, <2>1, <2>2 DEF Disposed
<1>11. Executing(p, n)'
  BY <1>1, <1>6, <1>8 DEF Executing, Checkpointed, UidFor
<1> QED
  BY <1>6, <1>8, <1>9, <1>10, <1>11 DEF View

LEMMA PlanKeepsView ==
  ASSUME NEW p \in Owner, NEW n \in Node, Reliable(p, n), Plan(p, n)
  PROVE  View(p, n)' /\ job'[p][n].pc # "raised"
<1> USE DEF Reliable, ProcInv
<1> DEFINE uid == UidFor(p, n)
           last == LastAttempt(uid)
           count == task[n].attemptCount
<1>1. /\ job[p][n].pc = "plan"
      /\ UNCHANGED <<dbVars, snap, resumed>>
  BY DEF Plan, At, JobStep
<1>2. RowsOf(n)' = RowsOf(n) /\ task' = task /\ nodeEvents' = nodeEvents
  BY <1>1 DEF RowsOf, dbVars
<1>3. uid \in UidsOf(n) /\ task[n].uid \in {NoUid, uid} /\ Checkpointed(n, uid)
  BY <1>1, UidForTask DEF View, Executing
<1>4. Checkpointed(n, UidFor(p, n))'
  BY <1>1, <1>2, <1>3 DEF Checkpointed, UidFor
<1>5. /\ MaxSeq(uid) = count
      /\ RowsOf(n) # {} =>
           /\ last \in RowsOf(n) /\ last.seq = count
           /\ \A a \in RowsOf(n) : a.seq = count => a = last
  BY <1>3, LedgerRead DEF NodeInv
<1>6. Snapshot(p, n) /\ snap[p][n].status \in {"PENDING", "UNKNOWN"}
  BY <1>1, DispatchedStatus DEF View
<1>7. count \in Nat /\ AttemptCap = 3
  <2>1. task[n] \in TaskRow
    BY DEF StoreTypeOK
  <2> QED
    BY <2>1 DEF TaskRow, AttemptCap
<1> HIDE DEF uid, last, count
<1>8. CASE ResumedNode(p, n) /\ Disposition(uid) = "reconstruct"
  <2> DEFINE r == BuildResult("FAILED", last.class, last.seq,
                              "stored", "stored")
  <2>1. last \in RowsOf(n) /\ last.status = "FAILED" /\ last.seq = count
    BY <1>3, <1>5, <1>8, DispositionRead DEF NodeInv, last
  <2>2. /\ last.class # NoError /\ last.class \notin DegradingClasses
        /\ last.class \in MaybeError
    BY <2>1 DEF NodeInv, ErrorsOf, RowsOf, StoreTypeOK, AttemptRow
  <2>3. job'[p][n].pc = "commit" /\ job'[p][n].result = r
    <3>1. ToCommit(p, n, r)
      BY <1>8 DEF Plan, ToCommit, uid, last
    <3>2. r \in Result
      BY <2>1, <2>2, BuildResultType
         DEF NodeTerminal, StreamKind, RowsOf, StoreTypeOK, AttemptRow
    <3> HIDE DEF r
    <3>3. JobsReady
      OBVIOUS
    <3> QED
      BY <3>1, <3>2, <3>3, ToCommitMoves
  <2>4. /\ r.count = count /\ Reports(r.status, r.class, last)
        /\ DegradedOf(r)
    BY <2>1, <2>2, BuildResultReports DEF NodeTerminal, StreamKind
  <2> HIDE DEF r
  <2>5. LastReports(n, r.status, r.class)
    BY <2>1, <2>4 DEF LastReports, count
  <2>6. LastReports(n, r.status, r.class)'
    <3>1. r' = r
      BY <1>2, <1>1 DEF r, last, uid, dbVars, LastAttempt, AttemptsOf, MaxSeq,
                        UidFor
    <3> QED
      BY <1>2, <2>5, <3>1 DEF LastReports, Reports
  <2>7. Executing(p, n)'
    <3>1. r' = r
      BY <1>2, <1>1 DEF r, last, uid, dbVars, LastAttempt, AttemptsOf, MaxSeq,
                        UidFor
    <3> QED
      BY <1>2, <1>4, <2>3, <2>4, <2>6, <3>1
         DEF Executing, DegradedOf, Classes, count
  <2>8. Snapshot(p, n)' /\ Disposed(p, n)'
    BY <1>1, <1>2, <1>6, <2>3 DEF Snapshot, Disposed
  <2> QED
    BY <2>3, <2>7, <2>8 DEF View
<1>9. CASE ~(ResumedNode(p, n) /\ Disposition(uid) = "reconstruct")
  <2>1. /\ count < AttemptCap
        /\ \A a \in RowsOf(n) : a.seq = count /\ a.status = "FAILED" =>
                                  ShouldRetry(a.class, a.seq)
    <3>1. CASE snap[p][n].status = "PENDING"
      <4>1. count = 0 /\ RowsOf(n) = {}
        BY <1>1, <1>3, <3>1, LedgerRead DEF View, Disposed, NodeInv, count
      <4> QED
        BY <1>7, <4>1
    <3>2. CASE snap[p][n].status = "UNKNOWN"
      <4>1. Disposition(uid) # "blocked" /\ Disposition(uid) # "reconstruct"
        BY <1>1, <1>3, <1>9, <3>2, DispositionRead
           DEF View, Disposed, NodeInv, ResumedNode
      <4>2. Disposition(uid) = "proceed"
        BY <4>1 DEF Disposition
      <4> QED
        BY <1>3, <4>2, DispositionRead DEF NodeInv, count
    <3> QED
      BY <1>6, <3>1, <3>2
  <2>2. ~(MaxSeq(uid) + 1 > AttemptCap)
    BY <1>5, <1>7, <2>1
  <2>3. ToConnect(p, n, count + 1)
    <3>1. ToConnect(p, n, MaxSeq(uid) + 1)
      BY <1>9, <2>2 DEF Plan, ToConnect, uid
    <3> QED
      BY <1>5, <3>1
  <2>4. job'[p][n].pc = "connect" /\ job'[p][n].seq = count + 1
    <3>1. count + 1 \in Nat /\ JobsReady
      BY <1>7
    <3> QED
      BY <2>3, <3>1, ConnectMoves
  <2>5. MayTry(p, n)
    BY <1>1, <1>6, <2>1 DEF MayTry, Snapshot, count
  <2>6. MayTry(p, n)'
    BY <1>2, <2>5 DEF MayTry
  <2>7. Executing(p, n)'
    BY <1>2, <1>4, <2>4, <2>6 DEF Executing, count
  <2>8. Snapshot(p, n)' /\ Disposed(p, n)'
    BY <1>1, <1>2, <1>6, <2>4 DEF Snapshot, Disposed
  <2> QED
    BY <2>4, <2>7, <2>8 DEF View
<1> QED
  BY <1>8, <1>9
LEMMA ConnectKeepsView ==
  ASSUME NEW p \in Owner, NEW n \in Node, Reliable(p, n), Connect(p, n)
  PROVE  /\ NodeInv(n)' /\ View(p, n)'
         /\ job'[p][n].pc = "ssh"
         /\ AttemptOf(p, UidFor(p, n), job[p][n].seq, "RUNNING", NoError)
              \in attempts'
<1> USE DEF Reliable, ProcInv
<1> DEFINE uid == UidFor(p, n)
           seq == job[p][n].seq
<1>1. JobsReady /\ StoreTypeOK /\ NodeInv(n)
  OBVIOUS
<1>2. job[p][n].pc = "connect" /\ UNCHANGED <<snap, resumed>>
  BY DEF Connect, At, JobStep, FencedOut, LoseLease
<1>3. /\ Checkpointed(n, uid) /\ seq = task[n].attemptCount + 1
      /\ MayTry(p, n)
  BY <1>2 DEF View, Executing
<1>4. seq \in 1..AttemptCap /\ uid \in UidsOf(n)
  BY <1>1, <1>2, NumberedJob, UidForBelongs
<1>5. task[n].attemptCount < seq
  <2>1. task[n] \in TaskRow
    BY <1>1 DEF StoreTypeOK
  <2>2. task[n].attemptCount \in Nat
    BY <2>1 DEF TaskRow, AttemptCap
  <2> QED
    BY <1>3, <2>2
<1>6. AttemptStart(p, n, uid, seq) /\ Goto(p, n, "ssh")
  BY <1>3, <1>5 DEF Connect
<1> HIDE DEF uid, seq
<1>7. /\ NodeInv(n)'
      /\ task'[n].status = task[n].status /\ task'[n].uid = task[n].uid
      /\ task'[n].attemptCount = seq
  BY <1>1, <1>3, <1>4, <1>6, AttemptStartKeepsNode
<1>8. job'[p][n].pc = "ssh" /\ job'[p][n].seq = seq
  BY <1>1, <1>6, GotoMoves DEF seq
<1>9. Snapshot(p, n)' /\ Disposed(p, n)'
  BY <1>2, <1>8 DEF View, Snapshot, Disposed
<1>10. Executing(p, n)'
  <2>1. Checkpointed(n, UidFor(p, n))'
    BY <1>2, <1>3, <1>7 DEF Checkpointed, UidFor, uid
  <2> QED
    BY <1>7, <1>8, <2>1 DEF Executing
<1>11. AttemptOf(p, UidFor(p, n), job[p][n].seq, "RUNNING", NoError)
         \in attempts'
  BY <1>6 DEF AttemptStart, uid, seq
<1> QED
  BY <1>7, <1>8, <1>9, <1>10, <1>11 DEF View

LEMMA AnsweredKeepsView ==
  ASSUME NEW p \in Owner, NEW n \in Node, NEW a \in Answer, Reliable(p, n),
         SessionRow(p), Answered(p, n, a)
  PROVE  /\ NodeInv(n)' /\ View(p, n)'
         /\ job'[p][n].pc \in {"connect", "commit"}
<1> USE DEF Reliable, ProcInv
<1> DEFINE uid == UidFor(p, n)
           seq == job[p][n].seq
           status == AttemptStatus(a)
           class  == AttemptClass(a)
<1>1. JobsReady /\ StoreTypeOK /\ NodeInv(n)
  OBVIOUS
<1>2. job[p][n].pc = "ssh" /\ UNCHANGED <<snap, resumed>>
  BY DEF Answered, At, JobStep, FencedOut, LoseLease
<1>3. /\ Checkpointed(n, uid) /\ seq = task[n].attemptCount
      /\ AttemptOf(p, uid, seq, "RUNNING", NoError) \in attempts
  BY <1>2 DEF View, Executing, SessionRow
<1>4. seq \in 1..AttemptCap /\ uid \in UidsOf(n)
  BY <1>1, <1>2, NumberedJob, UidForBelongs
<1>5. /\ AttemptEnd(p, n, uid, seq, status, class)
      /\ IF a.error # NoError /\ ShouldRetry(a.error, seq)
         THEN ToConnect(p, n, seq + 1)
         ELSE ToCommit(p, n, BuildResult(status, class, seq, a.out, a.err))
  BY <1>3 DEF Answered, ToConnect, ToCommit
<1>6. /\ status \in NodeTerminal /\ class \in MaybeError
      /\ a.out \in StreamKind /\ a.err \in StreamKind
  BY AnswerType
<1>7. /\ status = "FAILED" => class # NoError /\ class \notin DegradingClasses
      /\ status = "SUCCEEDED" => class = NoError
      /\ a.error # NoError => status = "FAILED" /\ class = a.error
  BY AnswerSound
<1> DEFINE row == AttemptOf(p, uid, seq, status, class)
<1>8. /\ row.status = status /\ row.class = class /\ row.seq = seq
  BY DEF AttemptOf
<1> HIDE DEF uid, seq, status, class, row
<1>9. NodeInv(n)' /\ task' = task /\ row \in RowsOf(n)'
  BY <1>1, <1>3, <1>4, <1>5, <1>6, <1>7, AttemptEndKeepsNode DEF row
<1>10. Checkpointed(n, UidFor(p, n))'
  BY <1>2, <1>3, <1>9 DEF Checkpointed, UidFor, uid
<1>11. CASE a.error # NoError /\ ShouldRetry(a.error, seq)
  <2> DEFINE k == seq + 1
  <2>1. k \in Nat /\ ToConnect(p, n, k)
    BY <1>4, <1>5, <1>11
  <2> HIDE DEF k
  <2>2. job'[p][n].pc = "connect" /\ job'[p][n].seq = k
    BY <1>1, <2>1, ConnectMoves
  <2>3. MayTry(p, n)'
    <3>1. \A b \in RowsOf(n)' : b.seq = seq => b = row
      BY <1>3, <1>8, <1>9 DEF NodeInv, LedgerOf
    <3> QED
      BY <1>3, <1>7, <1>8, <1>9, <1>11, <3>1 DEF MayTry
  <2>4. Executing(p, n)'
    BY <1>3, <1>9, <1>10, <2>2, <2>3 DEF Executing, k
  <2>5. Snapshot(p, n)' /\ Disposed(p, n)'
    BY <1>2, <2>2 DEF View, Snapshot, Disposed
  <2> QED
    BY <1>9, <2>2, <2>4, <2>5 DEF View
<1>12. CASE ~(a.error # NoError /\ ShouldRetry(a.error, seq))
  <2> DEFINE r == BuildResult(status, class, seq, a.out, a.err)
  <2>1. r \in Result
    BY <1>4, <1>6, BuildResultType
  <2>2. /\ r.count = seq /\ Reports(r.status, r.class, row) /\ DegradedOf(r)
    BY <1>6, <1>7, <1>8, BuildResultReports
  <2>3. ToCommit(p, n, r)
    BY <1>5, <1>12
  <2> HIDE DEF r
  <2>4. job'[p][n].pc = "commit" /\ job'[p][n].result = r
    BY <1>1, <2>1, <2>3, ToCommitMoves
  <2>5. /\ job'[p][n].result.count = task'[n].attemptCount
        /\ Reports(job'[p][n].result.status, job'[p][n].result.class, row)
        /\ DegradedOf(job[p][n].result)'
    BY <1>3, <1>9, <2>2, <2>4 DEF DegradedOf, Classes
  <2>6. \E b \in RowsOf(n)' :
          /\ b.seq = task'[n].attemptCount
          /\ Reports(job'[p][n].result.status, job'[p][n].result.class, b)
    BY <1>3, <1>8, <1>9, <2>5
  <2>7. LastReports(n, job[p][n].result.status, job[p][n].result.class)'
    BY <2>6 DEF LastReports, Reports
  <2>8. Executing(p, n)'
    BY <1>10, <2>4, <2>5, <2>7 DEF Executing
  <2>9. Snapshot(p, n)' /\ Disposed(p, n)'
    BY <1>2, <2>4 DEF View, Snapshot, Disposed
  <2> QED
    BY <1>9, <2>4, <2>8, <2>9 DEF View
<1> QED
  BY <1>11, <1>12

\* The secondary errors of a node are those of its one node_finished event.
LEMMA FinishedDataOfCommit ==
  ASSUME StoreTypeOK, NEW n \in Node, Finished(n) = {}, NEW uid, NEW status,
         NEW secondary, LogNode(n, "node_finished", uid, status, secondary)
  PROVE  FinishedData(n)' = secondary
<1> DEFINE entry == [type |-> "node_finished", uid |-> uid,
                     status |-> status, secondary |-> secondary]
           log   == nodeEvents[n]
<1>1. log \in Seq(NodeEvent) /\ nodeEvents'[n] = Append(log, entry)
  BY DEF LogNode, StoreTypeOK
<1>2. entry.type = "node_finished" /\ entry.secondary = secondary
  OBVIOUS
<1> HIDE DEF entry
<1>3. /\ DOMAIN log = 1..Len(log) /\ Len(log) \in Nat
      /\ DOMAIN nodeEvents'[n] = 1..(Len(log) + 1)
      /\ \A i \in 1..Len(log) : nodeEvents'[n][i] = log[i]
      /\ nodeEvents'[n][Len(log) + 1] = entry
  BY <1>1
<1>4. Finished(n)' = {Len(log) + 1}
  BY <1>2, <1>3 DEF Finished
<1>5. {nodeEvents'[n][i].secondary : i \in Finished(n)'} = {secondary}
  BY <1>2, <1>3, <1>4
<1> QED
  BY <1>5 DEF FinishedData

\* A checkpoint that is RUNNING has no execution and no node_finished event.
LEMMA RunningUncommitted ==
  ASSUME NodeCommitAtomic, StoreTypeOK, NEW n \in Node, NEW uid \in UidsOf(n),
         task[n].status = "RUNNING"
  PROVE  Finished(n) = {} /\ Committable(n, uid)
<1>1. task[n].status \notin NodeTerminal
  BY DEF NodeTerminal
<1>2. Finished(n) = {} /\ \A e \in executions : e.node # n
  BY <1>1 DEF NodeCommitAtomic
<1>3. \A e \in executions : e.uid \in UidsOf(e.node) /\ e.node \in Node
  BY DEF NodeCommitAtomic, StoreTypeOK, ExecutionRow
<1>4. \A e \in executions : e.uid # uid
  BY <1>2, <1>3 DEF UidsOf
<1> QED
  BY <1>2, <1>4 DEF Committable, Writable

LEMMA CommitKeepsView ==
  ASSUME NEW p \in Owner, NEW n \in Node, Reliable(p, n), CommitResult(p, n)
  PROVE  /\ NodeInv(n)' /\ View(p, n)'
         /\ leaseLost[p] \/ job'[p][n].pc = "done"
<1> USE DEF Reliable, ProcInv
<1> DEFINE uid == UidFor(p, n)
           r   == job[p][n].result
<1>1. JobsReady /\ StoreTypeOK /\ NodeInv(n) /\ NodeCommitAtomic
  OBVIOUS
<1>2. job[p][n].pc = "commit" /\ UNCHANGED <<snap, resumed>>
  BY DEF CommitResult, At, JobStep, FencedOut, LoseLease
<1>3. /\ task[n].status = "RUNNING" /\ task[n].uid = uid
      /\ LastReports(n, r.status, r.class) /\ DegradedOf(r)
  BY <1>2 DEF View, Executing, Checkpointed
<1>4. r \in Result /\ uid \in UidsOf(n)
  BY <1>1, NumberedJob, UidForBelongs
<1>5. Finished(n) = {} /\ Committable(n, uid)
  BY <1>1, <1>3, <1>4, RunningUncommitted
<1>6. CASE leaseLost[p]
  <2>1. Goto(p, n, "lost") /\ UNCHANGED dbVars
    BY <1>6 DEF CommitResult
  <2>2. job'[p][n].pc = "lost"
    BY <1>1, <2>1, GotoMoves
  <2>3. /\ task' = task /\ RowsOf(n)' = RowsOf(n)
        /\ nodeEvents' = nodeEvents
    BY <2>1 DEF dbVars, RowsOf
  <2>4. NodeInv(n)' /\ View(p, n)'
    BY <1>1, <1>2, <2>2, <2>3, NodeFrame, ViewFrame
  <2> QED
    BY <1>6, <2>4
<1>7. CASE ~leaseLost[p]
  <2>1. Commit(p, n, uid, r) /\ Goto(p, n, "done")
    BY <1>5, <1>7 DEF CommitResult
  <2>2. job'[p][n].pc = "done" /\ job'[p][n].result = r
    BY <1>1, <2>1, GotoMoves
  <2> HIDE DEF uid, r
  <2>3. /\ NodeInv(n)'
        /\ task'[n].status = r.status /\ task'[n].class = r.class
    BY <1>1, <1>3, <1>4, <2>1, CommitKeepsNode
  <2>4. FinishedData(n)' = r.secondary
    BY <1>1, <1>5, <2>1, FinishedDataOfCommit DEF Commit
  <2>5. DegradedOf(job[p][n].result)'
    BY <1>3, <2>2 DEF DegradedOf, Classes
  <2>6. Executing(p, n)'
    BY <2>2, <2>3, <2>4, <2>5 DEF Executing
  <2>7. Snapshot(p, n)' /\ Disposed(p, n)'
    BY <1>2, <2>2 DEF View, Snapshot, Disposed
  <2> QED
    BY <2>2, <2>3, <2>6, <2>7 DEF View
<1> QED
  BY <1>6, <1>7
------------------------------------------------------------------------------
\* Who may change what.

\* A process changes its own state only.
LEMMA PrivateState ==
  ASSUME ProcInv, NEW p \in Owner, ProcessStep(p), NEW q \in Owner \ {p}
  PROVE  /\ phase'[q] = phase[q] /\ resumed'[q] = resumed[q]
         /\ snap'[q] = snap[q] /\ job'[q] = job[q]
         /\ leaseLost'[q] = leaseLost[q] /\ pending'[q] = pending[q]
         /\ exit'[q] = exit[q]
<1> USE DEF ProcInv, ProcTypeOK
<1>1. CASE Start(p) \/ Resume(p) \/ ReadTasks(p)
  BY <1>1 DEF Start, Resume, ReadTasks
<1>2. ASSUME NEW jobs, LoseLease(p, jobs)
      PROVE  /\ phase'[q] = phase[q] /\ resumed'[q] = resumed[q]
             /\ snap'[q] = snap[q] /\ job'[q] = job[q]
             /\ leaseLost'[q] = leaseLost[q] /\ pending'[q] = pending[q]
             /\ exit'[q] = exit[q]
  BY <1>2 DEF LoseLease
<1>3. CASE Gather(p) \/ Finalize(p) \/ Crash(p)
  BY <1>3 DEF Gather, Finalize, Crash, Leave, Forget
<1>4. ASSUME NEW n \in Node, NodeStep(p, n)
      PROVE  /\ phase'[q] = phase[q] /\ resumed'[q] = resumed[q]
             /\ snap'[q] = snap[q] /\ job'[q] = job[q]
             /\ leaseLost'[q] = leaseLost[q] /\ pending'[q] = pending[q]
             /\ exit'[q] = exit[q]
  <2>1. CASE FencedOut(p, n)
    BY <1>2, <2>1 DEF FencedOut
  <2>2. CASE JobStep /\ job'[q] = job[q]
    BY <2>2 DEF JobStep
  <2>3. ~FencedOut(p, n) => JobStep
    BY <1>4 DEF NodeStep, Acquire, Block, Checkpoint, Plan, Connect, Answered,
                CommitResult, NodeRaises
  <2>4. ~FencedOut(p, n) => job'[q] = job[q]
    BY <1>4 DEF NodeStep, Acquire, Block, Checkpoint, Plan, Connect, Answered,
                CommitResult, NodeRaises, Goto
  <2> QED
    BY <2>1, <2>2, <2>3, <2>4
<1> QED
  BY <1>1, <1>2, <1>3, <1>4 DEF ProcessStep, HeartbeatLost

\* What a job does to the state of its process.
LEMMA JobPhase ==
  ASSUME NEW p \in Owner, NEW n \in Node, NodeStep(p, n)
  PROVE  /\ phase[p] = "running"
         /\ UNCHANGED <<phase, resumed, snap, pending, exit>>
<1>1. phase[p] = "running"
  BY DEF NodeStep, Acquire, Block, Checkpoint, Plan, Connect, Answered,
         CommitResult, NodeRaises, At
<1>2. FencedOut(p, n) \/ JobStep
  BY DEF NodeStep, Acquire, Block, Checkpoint, Plan, Connect, Answered,
         CommitResult, NodeRaises
<1> QED
  BY <1>1, <1>2 DEF FencedOut, LoseLease, JobStep

\* The transaction of a job, by the pc it is at.
LEMMA JobTransaction ==
  ASSUME NEW p \in Owner, NEW n \in Node, NodeStep(p, n)
  PROVE  LET uid == UidFor(p, n)
             j   == job[p][n]
         IN \/ UNCHANGED dbVars
            \/ /\ phase[p] = "running" /\ Holds(p)
               /\ \/ j.pc = "block" /\ RecordNodeBlocked(p, n, uid)
                  \/ j.pc = "checkpoint" /\ SetRunning(p, n, uid)
                  \/ j.pc = "connect" /\ AttemptStart(p, n, uid, j.seq)
                  \/ /\ j.pc = "ssh"
                     /\ \E a \in Answer : AttemptEnd(p, n, uid, j.seq,
                                           AttemptStatus(a), AttemptClass(a))
                  \/ j.pc = "commit" /\ Commit(p, n, uid, j.result)
<1> DEFINE uid == UidFor(p, n)
           j   == job[p][n]
<1>1. phase[p] = "running"
  BY JobPhase
<1>2. \/ UNCHANGED dbVars
      \/ j.pc = "block" /\ RecordNodeBlocked(p, n, uid)
      \/ j.pc = "checkpoint" /\ SetRunning(p, n, uid)
      \/ j.pc = "connect" /\ AttemptStart(p, n, uid, j.seq)
      \/ /\ j.pc = "ssh"
         /\ \E a \in Answer : AttemptEnd(p, n, uid, j.seq, AttemptStatus(a),
                                         AttemptClass(a))
      \/ j.pc = "commit" /\ Commit(p, n, uid, j.result)
  BY DEF NodeStep, Acquire, Block, Checkpoint, Plan, Connect, Answered,
         CommitResult, NodeRaises, FencedOut, LoseLease, At
<1> HIDE DEF uid, j
<1>3. \/ UNCHANGED dbVars
      \/ Holds(p)
  BY <1>2 DEF RecordNodeBlocked, SetRunning, AttemptStart, AttemptEnd, Commit
<1> QED
  BY <1>1, <1>2, <1>3 DEF uid, j

\* A job writes through the fence, or not at all.
LEMMA JobWrites ==
  ASSUME ProcInv, NEW p \in Owner, NEW n \in Node, NodeStep(p, n)
  PROVE  \/ UNCHANGED dbVars
         \/ /\ Holds(p) /\ Holds(p)' /\ NodeWrite(p, n)
            /\ runStatus' = runStatus
<1> DEFINE uid == UidFor(p, n)
           j   == job[p][n]
<1>1. /\ uid \in UidsOf(n) /\ j.result \in Result
      /\ j.pc \in {"connect", "ssh"} => j.seq \in 1..AttemptCap
  BY UidForBelongs, NumberedJob DEF ProcInv
<1>2. \A a \in Answer : /\ AttemptStatus(a) \in NodeTerminal
                        /\ AttemptClass(a) \in MaybeError
  BY AnswerType
<1> HIDE DEF uid, j
<1>3. CASE RecordNodeBlocked(p, n, uid)
  BY <1>1, <1>3 DEF RecordNodeBlocked, NodeWrite, Holds
<1>4. CASE SetRunning(p, n, uid)
  BY <1>1, <1>4 DEF SetRunning, NodeWrite, Holds
<1>5. CASE j.pc = "connect" /\ AttemptStart(p, n, uid, j.seq)
  BY <1>1, <1>5 DEF AttemptStart, NodeWrite, Holds
<1>6. ASSUME NEW a \in Answer, j.pc = "ssh",
             AttemptEnd(p, n, uid, j.seq, AttemptStatus(a), AttemptClass(a))
      PROVE  /\ Holds(p) /\ Holds(p)' /\ NodeWrite(p, n)
             /\ runStatus' = runStatus
  <2>1. NodeWrite(p, n)
    BY <1>1, <1>2, <1>6 DEF NodeWrite
  <2> QED
    BY <1>6, <2>1 DEF AttemptEnd, Holds
<1>7. CASE Commit(p, n, uid, j.result)
  BY <1>1, <1>7 DEF Commit, NodeWrite, Holds
<1> QED
  BY <1>3, <1>4, <1>5, <1>6, <1>7, JobTransaction DEF uid, j

\* Whoever changes the tables has the lease after that.
LEMMA WriterOwns ==
  ASSUME ProcInv, NEW p \in Owner, ProcessStep(p)
  PROVE  UNCHANGED dbVars \/ leaseOwner' = p
<1>1. CASE Start(p) \/ Resume(p)
  BY <1>1 DEF Start, StartRun, Resume, ResumeRun
<1>2. CASE ReadTasks(p) \/ HeartbeatLost(p) \/ Gather(p) \/ Crash(p)
  BY <1>2 DEF ReadTasks, HeartbeatLost, LoseLease, Gather, Crash
<1>3. ASSUME NEW n \in Node, NodeStep(p, n)
      PROVE  UNCHANGED dbVars \/ leaseOwner' = p
  BY <1>3, JobWrites DEF Holds
<1>4. CASE Finalize(p)
  BY <1>4 DEF Finalize, FinalizeRun, Holds
<1> QED
  BY <1>1, <1>2, <1>3, <1>4 DEF ProcessStep

\* A step of one job leaves its siblings as they are, or cancels them at an
\* await.
LEMMA Siblings ==
  ASSUME ProcInv, NEW p \in Owner, NEW n \in Node, NodeStep(p, n),
         NEW m \in Node \ {n}
  PROVE  /\ snap' = snap /\ resumed' = resumed /\ phase' = phase
         /\ \/ job'[p][m] = job[p][m]
            \/ /\ job[p][m].pc \in Awaits
               /\ job'[p][m].pc = "cancelled"
<1> USE DEF ProcInv, JobsReady
<1>1. CASE FencedOut(p, n)
  <2> DEFINE jobs == [job[p] EXCEPT ![n].pc = "lost"]
  <2>1. PICK late : job' = [job EXCEPT ![p] = Cancelled(jobs, late)]
    BY <1>1 DEF FencedOut, LoseLease
  <2>2. snap' = snap /\ resumed' = resumed /\ phase' = phase
    BY <1>1 DEF FencedOut, LoseLease
  <2>3. jobs[m] = job[p][m]
    OBVIOUS
  <2> HIDE DEF jobs
  <2>4. job'[p] = Cancelled(jobs, late)
    BY <2>1
  <2>5. job'[p][m] = IF job[p][m].pc \in Awaits /\ m \notin late
                     THEN [job[p][m] EXCEPT !.pc = "cancelled"]
                     ELSE job[p][m]
    BY <2>3, <2>4 DEF Cancelled
  <2>6. [job[p][m] EXCEPT !.pc = "cancelled"].pc = "cancelled"
    BY NumberedJob DEF Job
  <2> QED
    BY <2>2, <2>5, <2>6
<1>2. CASE ~FencedOut(p, n)
  <2>1. JobStep
    BY <1>2 DEF NodeStep, Acquire, Block, Checkpoint, Plan, Connect, Answered,
                CommitResult, NodeRaises
  <2>2. job'[p][m] = job[p][m]
    BY <1>2, SMTT(30) DEF NodeStep, Acquire, Block, Checkpoint, Plan, Connect, Answered,
                CommitResult, NodeRaises, Goto
  <2> QED
    BY <2>1, <2>2 DEF JobStep
<1> QED
  BY <1>1, <1>2

\* Giving up the lease stops jobs at their awaits and starts none.
LEMMA HeartbeatStops ==
  ASSUME ProcInv, NEW p \in Owner, HeartbeatLost(p), NEW m \in Node
  PROVE  /\ UNCHANGED <<dbVars, snap, resumed, phase>>
         /\ leaseLost'[p]
         /\ \/ job'[p][m] = job[p][m]
            \/ /\ job[p][m].pc \in Awaits
               /\ job'[p][m].pc = "cancelled"
<1> USE DEF ProcInv, JobsReady
<1>1. /\ UNCHANGED <<dbVars, snap, resumed, phase>>
      /\ leaseLost' = [leaseLost EXCEPT ![p] = TRUE]
  BY DEF HeartbeatLost, LoseLease
<1>2. PICK late : job' = [job EXCEPT ![p] = Cancelled(job[p], late)]
  BY DEF HeartbeatLost, LoseLease
<1>3. job'[p][m] = IF job[p][m].pc \in Awaits /\ m \notin late
                   THEN [job[p][m] EXCEPT !.pc = "cancelled"]
                   ELSE job[p][m]
  BY <1>2 DEF Cancelled
<1>4. [job[p][m] EXCEPT !.pc = "cancelled"].pc = "cancelled"
  BY NumberedJob DEF Job
<1> QED
  BY <1>1, <1>3, <1>4 DEF ProcTypeOK

------------------------------------------------------------------------------
\* The rows of every node stay sound, and the owner's view of them true.

\* What the step of a job does to its own node.
LEMMA OwnNodeKeeps ==
  ASSUME StoreTypeOK, NodeCommitAtomic, ProcInv, NEW p \in Owner,
         NEW n \in Node, NodeInv(n), View(p, n), Holds(p), SessionRow(p),
         NodeStep(p, n)
  PROVE  NodeInv(n)' /\ View(p, n)'
<1>1. Reliable(p, n)
  BY DEF Reliable
<1>2. CASE Acquire(p, n)
  <2>1. UNCHANGED dbVars
    BY <1>2 DEF Acquire
  <2>2. NodeInv(n)'
    BY <2>1, NodeFrame DEF dbVars, RowsOf
  <2> QED
    BY <1>1, <1>2, <2>2, AcquireKeepsView
<1>3. CASE Plan(p, n)
  <2>1. UNCHANGED dbVars
    BY <1>3 DEF Plan
  <2>2. NodeInv(n)'
    BY <2>1, NodeFrame DEF dbVars, RowsOf
  <2> QED
    BY <1>1, <1>3, <2>2, PlanKeepsView
<1>4. CASE NodeRaises(p, n)
  <2>1. /\ UNCHANGED <<dbVars, snap, resumed>>
        /\ Goto(p, n, "raised") /\ job[p][n].pc # "absent"
    BY <1>4 DEF NodeRaises, JobStep, At, Mid
  <2>2. job'[p][n].pc = "raised"
    BY <2>1, GotoMoves DEF ProcInv
  <2> QED
    BY <2>1, <2>2, NodeFrame, ViewFrame DEF dbVars, RowsOf
<1>5. CASE Block(p, n)
  BY <1>1, <1>5, BlockKeepsView
<1>6. CASE Checkpoint(p, n)
  BY <1>1, <1>6, CheckpointKeepsView
<1>7. CASE Connect(p, n)
  BY <1>1, <1>7, ConnectKeepsView
<1>8. ASSUME NEW a \in Answer, Answered(p, n, a)
      PROVE  NodeInv(n)' /\ View(p, n)'
  BY <1>1, <1>8, AnsweredKeepsView
<1>9. CASE CommitResult(p, n)
  BY <1>1, <1>9, CommitKeepsView
<1> QED
  BY <1>2, <1>3, <1>4, <1>5, <1>6, <1>7, <1>8, <1>9 DEF NodeStep

\* What the step of a job does to the nodes of the run.
LEMMA JobKeeps ==
  ASSUME StoreTypeOK, NodeCommitAtomic, ProcInv, NEW p \in Owner,
         NEW n \in Node, NodeStep(p, n), SessionRow(p),
         \A m \in Node : NodeInv(m),
         Holds(p) => \A m \in Node : View(p, m)
  PROVE  /\ \A m \in Node : NodeInv(m)'
         /\ Holds(p)' => \A m \in Node : View(p, m)'
<1>1. CASE ~Holds(p)
  <2>1. UNCHANGED dbVars
    BY <1>1, JobWrites
  <2>2. \A m \in Node : NodeInv(m)'
    BY <2>1, NodeFrame DEF dbVars, RowsOf
  <2>3. ~Holds(p)'
    BY <1>1, <2>1 DEF dbVars, Holds
  <2> QED
    BY <2>2, <2>3
<1>2. CASE Holds(p)
  <2>1. NodeInv(n)' /\ View(p, n)'
    BY <1>2, OwnNodeKeeps
  <2>2. ASSUME NEW m \in Node \ {n}
        PROVE  NodeInv(m)' /\ View(p, m)'
    <3>1. /\ task'[m] = task[m] /\ RowsOf(m)' = RowsOf(m)
          /\ nodeEvents'[m] = nodeEvents[m]
      <4>1. CASE UNCHANGED dbVars
        BY <4>1 DEF dbVars, RowsOf
      <4>2. CASE NodeWrite(p, n)
        BY <4>2, OtherNodes
      <4> QED
        BY <4>1, <4>2, JobWrites
    <3>2. NodeInv(m) /\ View(p, m)
      BY <1>2
    <3>3. /\ snap'[p][m] = snap[p][m] /\ resumed'[p] = resumed[p]
          /\ \/ job'[p][m] = job[p][m]
             \/ /\ job[p][m].pc # "absent"
                /\ job'[p][m].pc = "cancelled"
      BY Siblings DEF Awaits
    <3> QED
      BY <3>1, <3>2, <3>3, NodeFrame, ViewFrame
  <2> QED
    BY <2>1, <2>2
<1> QED
  BY <1>1, <1>2

\* No step of the system damages the rows of a node.
LEMMA NodeInvStep ==
  ASSUME StoreTypeOK, NodeCommitAtomic, ProcInv, LedgerInv, [Next]_vars
  PROVE  \A n \in Node : NodeInv(n)'
<1>1. \A n \in Node : NodeInv(n)
  BY DEF LedgerInv
<1>2. CASE /\ task' = task /\ attempts' = attempts
           /\ nodeEvents' = nodeEvents
  BY <1>1, <1>2, NodeFrame DEF RowsOf
<1>3. CASE LeaseLapses \/ UNCHANGED vars
  BY <1>2, <1>3 DEF LeaseLapses, Lapse, vars, dbVars
<1>4. ASSUME NEW p \in Owner, ProcessStep(p)
      PROVE  \A n \in Node : NodeInv(n)'
  <2>1. CASE Start(p) \/ ReadTasks(p) \/ HeartbeatLost(p) \/ Gather(p)
               \/ Finalize(p) \/ Crash(p)
    BY <1>2, <2>1 DEF Start, StartRun, ReadTasks, HeartbeatLost, LoseLease,
                      Gather, Finalize, FinalizeRun, Crash, dbVars
  <2>2. CASE Resume(p)
    BY <1>1, <2>2, ResumeKeepsNode DEF Resume
  <2>3. ASSUME NEW n \in Node, NodeStep(p, n)
        PROVE  \A m \in Node : NodeInv(m)'
    <3>1. phase[p] = "running"
      BY <2>3 DEF NodeStep, Acquire, Block, Checkpoint, Plan, Connect,
                  Answered, CommitResult, NodeRaises, At
    <3>2. Holds(p) => \A m \in Node : View(p, m)
      BY <3>1 DEF LedgerInv, OwnerInv, Knows
    <3>3. SessionRow(p)
      BY DEF LedgerInv, ProcessInv
    <3> QED
      BY <1>1, <2>3, <3>2, <3>3, JobKeeps
  <2> QED
    BY <1>4, <2>1, <2>2, <2>3 DEF ProcessStep
<1> QED
  BY <1>3, <1>4 DEF Next
=============================================================================
