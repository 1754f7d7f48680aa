# A TLA+ model of wft batch runs

`wft` runs one script on many hosts over SSH from a command line. The specifications
here are about the parts that have to be right when processes die, when two of
them run at once, when steps fail half-way and when files change underneath: how a
batch run is created, claimed, executed, recovered and reported, and what the
stores, files and clocks around it promise. Source paths are relative to `src/wft/` of the
repository; `PROJECT.json` maps every definition to its lines.

## 1. The system

One **run** executes one script on a fixed set of **nodes**. A CLI process creates the
run in a SQLite database and executes it. If that process dies, an operator resumes the
run with another one. There is no daemon: processes meet in the database only, and a
**lease** (`lease_owner`, `heartbeat_at`, `lease_expires_at`, 60 s, renewed every 10 s)
says whose the run is.

| Component | State | Operations | Talks to |
|---|---|---|---|
| Orchestrator `orchestration/run.py` | per process: snapshot of the checkpoints, one asyncio task per node, heartbeat task, `lease_lost`, `blocked` | `execute_run`, `run_one`, `_execute_node`, `_resume_disposition`, aggregation, finalization | Store (transactions), SSH executor (await), Throttle (await) |
| Store `storage/store.py` | tables `runs`, `node_tasks`, `attempts`, `executions`, `run_events`, `batch_summaries`, `outbox` | `create_run`, `start_run`, `renew_lease`, `resume_run`, `set_node_task`, `record_attempt`, `record_node_blocked`, `commit_execution_result`, `finalize_run`, reads | SQLite (`BEGIN IMMEDIATE`), Blob store |
| Error matrix and retry `contracts/validate.py`, `execution/retry.py`, `execution/errors.py` | none | class to category, `max_attempts`, `should_retry`, `backoff_seconds` | used by Orchestrator |
| Result builder `execution/result.py` | none | `build_stream`, `classify_exit`, `build_execution_result` | Blob store |
| SSH executor `execution/ssh.py` | one connection, remote file and process per call | `execute_script`: connect, upload, verify, run with timeout, reap, remove | hosts |
| Throttle `execution/throttle.py` | semaphore, time of the next connection | `wait` | Orchestrator |
| CLI run command `cli/run_cmd.py` | none that survives | create or reuse, resume with its refusals, exit codes | Store, Orchestrator |
| Schema and migration `storage/schema.py`, `storage/db.py` | `user_version` | `migrate` on every connection | SQLite |
| Blob store `storage/blobs.py` | content-addressed files | `write` (temp, fsync, rename), `list`, orphan scan | file system |
| Identifiers `idgen.py` | last time and counter | `new_uuid7`, `new_run_id` | everybody |
| Audit log `observability/audit.py` | hash-chained JSON lines | `append`, `verify_chain` | Host keys |
| Host keys `security/hostkey.py`, `cli/hostkey_cmd.py` | `known_hosts` | discover, confirm, replace atomically | Audit log |
| Script registry, inventory, configuration, contracts, events, CLI | none (files read once) | pure resolution, selection, validation | CLI |
| Analysis, export, notification | none | empty packages | |

What is hard, and where:

* **Processes interleave.** An owner whose lease lapsed because it was slow goes on
  beside the one that resumed the run. Every write is fenced by the lease
  (`_assert_lease_owner`); reads, the snapshot and the choice of `execution_uid` are
  not.
* **Tasks interleave.** Node tasks and the heartbeat share one event loop. They switch
  at awaits: the semaphore, the rate limiter, the SSH session, the backoff. Database
  calls are synchronous and do not yield.
* **Crashes.** `kill -9` between any two transactions. What a resume finds is a
  mixture of PENDING, RUNNING and terminal checkpoints, of attempts that have started,
  ended, or ended without a committed result.
* **Cancellation.** A lost lease cancels the sibling tasks; an answer can arrive in
  the same loop iteration.
* **Retries.** The error matrix bounds attempts per class (1, 2 or 3), the contract
  bounds them by 3, and both must hold across crashes.
* **Rebuilding.** The summary of a resumed run adds outcomes rebuilt from tables to
  outcomes computed live, and must be the same report.
* **Files without locks.** The inventory, the registry, the script, `known_hosts` and the
  audit log are read and written by processes that do not lock them; each access is a
  step of its own.
* **Power failures and kills** between a rename, a sync and a commit, or between two
  writes that belong together.
* **Time.** A lease of 60 s, a heartbeat every 10 s that shares a loop with blocking
  database calls, timers of the SSH session, a rate limit, a wall clock that may be set back.

What makes each component correct:

* Orchestrator: at most one result per node and one summary per run, the summary counts
  every node's result once; the attempts of a node form one gapless ledger; no more
  retries than the matrix gives; a blocked node is left to a human; a live owner is never
  refused; every process ends, a stale run can be recovered.
* Store: the two commit boundaries are atomic, history is never rewritten, events replay
  to the checkpoint; a healthy owner keeps its lease.
* Result builder: status and error follow from the last attempt, evidence is not lost, the encoding
  of a stream is that of all of it, its own results pass its own validator.
* SSH executor: session and connection are given back on every path; each call ends; two
  scripts of one node never overlap.
* CLI run command: a reused run stands for the work that was asked for, a resume reaches the same targets
  with the same script, a truthful exit code.
* Migration: every committed schema is that of its version. Blobs: what is referenced is there. Audit
  log: damage and loss are reported. Host keys: only vouched keys are trusted. Identifiers:
  strictly increasing. Registry: a reference never switches its version. Inventory: the walk ends with the
  right verdict. Throttle: the rate holds in every window.

The hazards, each with its line and the properties that would catch it, are in
`PROJECT.json` under `hazards`.

## 2. Modules

```
ErrorMatrix <- ExecutionResult <- RunStore <- BatchRun <- BatchRunProperties <- MCBatchRun
     ^               ^                ^                    |      |
 SshSession    ResultContract   RunStoreProofs   INSTANCE  |      |  INSTANCE
                                                 RunContract    RunLife  <--INSTANCE-- RunCommand

SshSession  StreamCapture  ResultContract        <- MCSession
Lease  Throttle  Uuid7                           <- MCClocks
Onboarding --INSTANCE--> AuditLog
Onboarding  ScriptRegistry  Inventory  Migration  BlobStore   <- MCFiles
```

| Module | Models | Role |
|---|---|---|
| `ErrorMatrix` | `ERROR_MATRIX`, `max_attempts`, `should_retry`, degrading classes | pure definitions |
| `ExecutionResult` | `build_execution_result` | pure definitions: status, primary error, secondary evidence |
| `RunStore` | the tables of one run, one action per transaction of `Store` | state and `StoreSpec`: arbitrary clients |
| `BatchRun` | `execute_run` in any number of processes over `RunStore` | `Spec` |
| `RunContract` | what a run promises to who reads its result | abstract specification |
| `RunLife` | what the row of a run promises to every process that reads it | abstract specification of both `BatchRun` and `RunCommand` |
| `BatchRunProperties` | invariants, action property, refinements, liveness | properties |
| `RunCommand` | `wft run`, `wft run --resume`, reuse, and the files they read | `Spec`, properties |
| `Lease` | `start_run`, `renew_lease`, `resume_run`, the fence, with time | `Spec`, properties |
| `SshSession` | `execute_script` and its attempts, host, network, cancellation | `Spec`, properties |
| `StreamCapture` | `_drain`, `align_utf8_tail`, `build_stream` on bytes | `Spec`, properties |
| `ResultContract` | the envelope and `validate_execution_result` | `Spec`, properties |
| `Throttle` | global semaphore and `RateLimiter` with time | `Spec`, properties |
| `Migration` | `migrate` and `connect_migrated` by several builds | `Spec`, properties |
| `BlobStore` | `BlobStore.write`, the referencing commit, `find_orphan_blobs` | `Spec`, properties |
| `AuditLog` | `append`, `verify_chain`, damage | operations, used by `Onboarding` |
| `Onboarding` | `hostkey onboard`, `commit_confirmed`, its audit records | `Spec`, properties |
| `ScriptRegistry` | `ScriptRegistry.from_file`, `resolve`, under edits | `Spec`, properties |
| `Inventory` | `validate_inventory_payload`, `_check_bastions`, `find_cycle` | `Spec`, properties |
| `Uuid7` | `Uuid7Generator.generate` | `Spec`, properties |
| `MCBatchRun` `MCRunCommand` `MCSession` `MCClocks` `MCFiles` | symmetry, instances, components side by side | TLC |
| `RunStoreProofs` `BatchRunProofs` `LedgerProofs` `RunProofs` | the run and its tables | theorems |
| `RunCommandProofs` `SessionProofs` `ClocksProofs` `FilesProofs` | the components of the modules they are named for | theorems |

**How they fit together.** `BatchRun` is one run from claim to summary. `RunCommand` is many runs and
many commands, with `execute_run` reduced to "claims, reaches nodes, ends". What `RunCommand` may assume of
a run in execution, and what `BatchRun` may assume of its row, is one specification, `RunLife`: both are shown to
implement it (`ImplementsLife`), by runs and by proof. `RunStore` has a Boolean
for the lease that may lapse at any moment; `Lease` says what a healthy owner can rely on. `BatchRun`
takes a session of `SshSession` as one await that returns, raises or is cancelled. `ExecutionResult` says
which error wins, `StreamCapture` what the bytes become, `ResultContract` that the outcome is accepted.

`MCSession`, `MCClocks` and `MCFiles` check components that have no step in common *side by side*: a behaviour picks one of
them in its initial state and never moves the variables of the others. This is not a composition; it is several
specifications checked in one run, whose state spaces add up.

### RunStore

A variable is a table or a column of `runs`. Every transaction is `BEGIN IMMEDIATE ...
COMMIT` and so is one step; a refused one rolls back, which is a stuttering step of the
tables. The caller's reaction to the refusal is in `BatchRun`.

* `StartRun`, `ResumeRun`: the QUEUED CAS and the stale CAS, with the RUNNING to UNKNOWN
  flips and their events in the same step.
* `SetRunning`, `RecordNodeBlocked`: `set_node_task(RUNNING)` and the blocked audit.
* `AttemptStart`, `AttemptEnd`: the two halves of `record_attempt` with their strong CAS
  on the checkpoint.
* `Commit`, `FinalizeRun`: the two commit boundaries.
* `Lapse`: 60 seconds pass without a renewal.
* `Holds(o)`: the fence. `Committable`: neither a replay nor a terminal checkpoint.

Abstractions and why they are sound:

* **Time.** `heartbeat_at` and `lease_expires_at` are always written together, and a lease
  that the fence accepts is one that `resume_run` refuses, so a Boolean `leaseLive`
  stands for both; `Lapse` may clear it at any moment, so that no property rests on clocks.
  A renewal in time changes nothing; one that comes late fails, which `CanRenew` says.
  A clock that steps back is outside the model.
* **Identifiers** are fresh. A uid is the pair of the process that minted it and its node;
  an `attempt_id` is the process that made the attempt.
* `finalize_run` has a replay branch for a run that is already terminal. Its fence asks
  for RUNNING first, so no fenced caller reaches it (`release_lease`, `insert_node_tasks` and
  the terminal branch of `set_node_task` have no caller either). They are left out.
* Two branches that write nothing are stuttering steps of the tables: the replay of a commit,
  and the `INSERT OR IGNORE` of an attempt log whose rows are all there. That the rows are
  there is `AttemptLedger`.
* `attempts` keeps status and class. Messages, timestamps, stream payloads and the
  retryable flag, which the class determines, are left out. So are CANCELLED and SKIPPED,
  which no code sets.

### BatchRun

A process goes `idle`, `claimed` (start or resume done, snapshot not read), `running`,
`finalizing`, `exited` or `dead`. It claims the run at most once; a second try of the same
operator is another member of `Owner`. `Gather` is `asyncio.gather` returning and
everything up to `finalize_run`, which has no await in it and no write.

A job is one `run_one` task. Its program counter names the **next** thing it does:

| pc | next | in the code |
|---|---|---|
| `queued` | `Acquire` | semaphore, `lease_lost` check, `_resume_disposition` |
| `block` | `Block` | `record_node_blocked` |
| `checkpoint` | `Checkpoint` | `set_node_task` |
| `plan` | `Plan` | head of `_execute_node`: base sequence, reconstruction, cap guard |
| `connect` | `Connect` | end of the rate limiter or of the backoff, START of the attempt |
| `ssh` | `Answered` | `execute_script` returned; END of the attempt; retry or result |
| `commit` | `CommitResult` | `lease_lost` check, `commit_execution_result` |
| `done` `blocked` `lost` `cancelled` `raised` `absent` | | how the task ended; absent: not dispatched |

`block`, `checkpoint`, `plan` and `commit` lie between two awaits. While a job is at one of
them its process takes no other step (`LoopFree`), but **other processes do**: each
transaction is its own step. So the model has exactly the interleavings that one
event loop per process and one database have.

* A refusal (`WFTLeaseLostError`) sets `leaseLost` and cancels the siblings (`FencedOut`,
  `LoseLease`), as does a heartbeat that fails (`HeartbeatLost`). A cancelled sibling ends
  at its await, unless it is at `ssh` and its script ends in the same loop iteration:
  `asyncio.wait_for` of Python 3.10 and 3.11 then returns the result and drops the
  cancellation. The model allows either.
* `Plan` and `Acquire` do several reads in one step. Whoever changes the rows in between
  must have taken the lease, after which the process that read cannot write.
* `Connect` merges limiter and backoff into one await of arbitrary length. The semaphore's FIFO
  order is left out: any waiting job may get a permit.
* `Answer` is what `execute_script` can return: a mapped error of `FaultClass`, or an exit code
  that is expected or not, with the two streams in the ways of `OutputKind`.
* `NodeRaises`, with `Faults`: any exception that is not a lost lease, such as a database
  error that rolls back, a result that the contract refuses, or an SSH error outside the mapped
  ones. Siblings go on; `Gather` then ends the command with exit code 2.
* `Crash` is `kill -9` between any two steps. Only the tables survive.
* A start or resume that the store refuses leaves the process idle.

`Disposition` is evaluated twice, as in the code: in `Acquire` (blocked or not) and in
`Plan` (reconstruct or not).

### RunContract

For readers of the result: every node gets at most one verdict (status and error
classes) and keeps it; at most one report is published, after all verdicts, and it is
`Tally` of the verdicts. The refinement mapping takes the verdict of a node from its execution
row and `node_finished` event and the report from `batch_summaries`. All other steps (claims,
attempts, crashes, takeovers) are stutters. `Tally` is defined over nodes and their verdicts,
`Aggregate` over the outcome records of the process; that they agree for live outcomes, for rebuilt
ones and for any mixture is what the run `contract` shows. `RunContract` is evaluated as a
refinement target only.

### RunLife and RunCommand

A run is created, started, taken over only after its lease has lapsed, and ended once by an owner
whose lease is live, with its exit code. That is all of `RunLife`.

A command of `RunCommand` goes through the steps of `_run` or `_resume` in their order. Each read of a file and each
transaction is a step:

| action | in the code |
|---|---|
| `Submit` | inventory loaded, validated, nodes selected, bastions refused |
| `Resume` | `get_run` and `is_resume_eligible` |
| `Resolve` | registry read, script hashed, reference resolved (a resume asks for the recorded version) |
| `Load` | a resume loads the inventory that the run names |
| `HashConfig` | `_config_snapshot_hash` reads both files again; a resume compares and picks its targets |
| `CreateRun` | `create_run`: insert, reuse or refuse, one transaction |
| `ReuseStatus`, `ReuseReport` | the two transactions of `_reused_run` |
| `Claim` | `start_run` or `resume_run` |
| `Reach` | a node is reached; the script file is read again and verified by the host |
| `Finish` | `finalize_run` with its exit code, or any other end, which is exit code 2 |

`Edit` changes a file between any two steps. The history variable `raced` notes that the *inventory* changed between the
two reads of one command; `SameHost` and the host part of `ReuseSameWork` claim nothing after that (section 5), everything
else holds regardless. `contacts` and the field `loaded` are history variables as well. `SameParams` compares
what `_param_json` compares: everything but the run id and the time of the request.

### Lease

Time is a number. A call reads the clock when it is made (`stamp`) and commits later with that
time, as `start_run`, `renew_lease` and `resume_run` do, while the fence reads the clock inside its
transaction. `OnTime` bounds what a *healthy* worker's timers and database waits take; all others may be suspended
between any two steps. `LeaseAssumption` is the inequality that matters: with 60 s, 10 s and a
busy timeout of 5 s a healthy worker may be up to 39 s late. One machine and a clock that is not set back are assumed.

### SshSession and StreamCapture

The program counter of `SshSession` names the await the task is in; each action is one way
it can end. `Verify` is outside every except clause; `ExecTimeout` cancels `_run_process`, which reaps
(`term`, then `kill`) before the timeout is reported. In `remove` the host answers the `rm -f` (`AnswersRemoval`): the file
goes, or it is `kept`, because the channel was refused or `rm` failed, which the code ignores. `Remove` ends that await and, without another in
between, does `conn.close()`. `Cancel` is a cancellation at each await in turn. The host starts a script when it gets the
request, which may be before the client knows (`StartsUnseen`: the script is `unseen` until the start is confirmed). A
connection can go silent at any time (`Break`). Attempts follow one another as the retry loop makes them.
`NothingLeft` is about attempts that returned by themselves; it excuses a script only if its connection went silent
or its start was never confirmed, and a file only if its connection went silent or the host was asked to remove it and did not.

`StreamCapture` has bytes of five kinds, enough for every way UTF-8 can be cut: whole characters, characters of
two and of four bytes, stray continuation bytes and bytes that are never valid. `IsText`, the
reference definition, cuts a sequence into characters without a decoder.

### ResultContract

`BuildAnswered` and `BuildFailed` are the calls `_execute_node` makes; `Receive` is any other producer, right or wrong. `Accepts`
is `validate_execution_result`: major version, attempt cap, status against error, exit code and version, flags, duration,
category and retryable flag of the error.

### Throttle

A task holds a permit from its first attempt to its last; `Reserve` is `RateLimiter.wait` up to its
sleep, which no other task can interrupt; `Begin` is the attempt. `LoopTick` lets a sleeper oversleep by `MaxLate`. A
cancelled task loses its slot, as in the code.

### Migration

`ReadVersion` is outside the transaction, `Begin` waits for the lock, `Apply` executes one statement, `AlreadyThere`
is the "table exists" error that rolls back. `Version` gives each process its `SCHEMA_VERSION`, so that builds of
different ages meet. A step stands for the statements that create its structures.

### BlobStore

`Look` to `SyncDir` are the steps of `write`, `CommitRef` and `Refused` the transaction that follows, `ScanRefs` and
`ScanList` the halves of `find_orphan_blobs`. `Outage` loses any directory entry that has not been synced. In the
code a failing directory sync is ignored; the model takes a directory that can be synced. `unsure` notes contents
that a second writer found in place and took for stored before the first one had synced the directory; `quiet` that
nothing was committed since a scan began.

### AuditLog and Onboarding

`append` is three accesses: `BeginAppend` (last hash), `ReadSeq`, `WriteLine`, or `TearLine` if the disk takes part of
the line. A hash is the value it is the hash of, so that two hashes are equal exactly if their arguments are. `DamageOlder`
changes or removes a line, not the last, of a log that verifies: the tampering that the docstring speaks of.
`Onboarding` uses these operations for its records and adds the decisions, `ReadKnownHosts` and
`WriteKnownHosts` (`commit_confirmed` around its `os.replace`), and a kill between any two of them. Two commands may be
at work at once; the history `overlapped` notes it, and `TrustKept` and `ChainHolds`, which no lock
protects, claim nothing after that. `OnlyVouchedTrusted`, `DamageReported` and `LossReported` hold for overlapping commands too.

### ScriptRegistry and Inventory

The registry is a file of slots that `Write`, `Remove` and `Rewrite` edit in any way, also into one that does not
load. `Run` resolves a reference and records name and hash.

`Inventory` loads any list (`Load`) and walks the chains as `find_cycle` does, node by node.

### Uuid7

`ReadClock`, `Advance` and `Issue` are the steps under the lock; `SetClock` sets the clock to anything.

## 3. Properties and runs

`E`: expected to fail, see section 5. Distinct states as TLC reports them.

| Run | Instance | Properties | States |
|---|---|---|---|
| `takeover` | 1 node, 3 processes, `conn_timeout` | `AttemptLedger` `RetryBudget` `LiveOwnerUndisturbed` `BlockedStaysOpen` `HistoryKept` | 398,910 |
| `outputs` | 1 node, 2 processes, three error classes, all outputs, faults | `TypeOK` `NodeCommitAtomic` `ResultMatchesLedger` `AuditReplay` | 160,422 |
| `contract` | 2 nodes in parallel, 2 processes, stored and binary output | `ImplementsContract` `ImplementsLife` | 82,950 |
| `faults` | 2 nodes in parallel, 2 processes, faults | `SessionOnRecord` `ExitTruthful` `RunCommitAtomic` | 299,237 |
| `liveness` | 2 nodes for 1 permit, 2 processes, fair | `ProcessEnds` `StaleRunReclaimed` | 47,033 |
| `retries` | 1 node, 2 processes, two retryable classes, fair | `UndisturbedOwnerFinishes` | 36,223 |
| `blocked` (E) | 1 node, 2 processes, `conn_timeout` | `BlockedOnlyInterrupted` | |
| `commands` | 2 commands, 3 inventories, 2 scripts, 1 edit | `TypeOK` `ReuseSameWork` `ContactsOnRecord` `ExitZeroTruthful` `ImplementsLife` | 1,520,536 |
| `queued` (E) | 2 commands, 2 inventories, no edit, fair | `QueuedRuns` | 9,222 |
| `session` | `SshSession`, `StreamCapture`, `ResultContract`; timers fair | `SessionTypes` `NothingLeft` `ScriptPhaseEnds` `EncodingRight` `TailTold` `NoGoodResultRefused` | 296,028 |
| `clocks` | `Lease`, `Throttle`, `Uuid7` | `ClockTypes` `HealthyKeepsLease` `RateBounded` `StrictlyMonotonic` | 796,256 |
| `files` | `Onboarding` with `AuditLog`, `ScriptRegistry`, `Inventory`, `Migration`, `BlobStore` | `FileTypes` `TrustAccounted` `TrustKept` `LogVerdict` `ReferencesKept` `CheckRight` `SchemaSound` `BlobsAgree` | 686,043 |

What they say (the formulas and their comments are in the modules):

* `AttemptLedger`: attempts are numbered 1, 2, ... up to `attempt_count`, one row each, under the
  checkpoint's uid, whoever wrote them.
* `RetryBudget`: an attempt follows another one only if the matrix allows it or the
  earlier one was cut off by the end of its process.
* `LiveOwnerUndisturbed`: without faults, refusals only ever hit processes that do not hold the lease. This is
  what makes the strict CAS of `record_attempt` and the reaction "lost lease" right.
  Together with `UndisturbedOwnerFinishes` it says that the cap guard at `run.py:702`, called
  unreachable there, is never reached by a live owner. (A process that has been replaced
  twice can reach it: it then raises, and writes nothing.)
* `NodeCommitAtomic`, `RunCommitAtomic`: the two commit boundaries.
* `ImplementsContract`: refinement of `RunContract`. `ImplementsLife`: refinement of `RunLife`, by `BatchRun`
  (one run, in all detail) and by `RunCommand` (every row, with the commands around it).
* `ProcessEnds`: no job waits for ever, whatever is cancelled or refused.
* `UndisturbedOwnerFinishes`: from whatever an earlier owner left, an owner that is left alone
  finishes, unless a node is blocked.
* `StaleRunReclaimed`: the lease of a dead owner is taken over if an operator is there.
* `ReuseSameWork`: comparing hashes that were read later than the inventory is as good as comparing
  what was loaded, as long as no edit falls between the two reads of one command.
* `ContactsOnRecord` = `SameHost`, `RecordedScript`, `OnlyTargets`: whoever executes a run, the hosts see its recorded script, its recorded
  nodes, and, as long as no edit falls between the two reads of one command, each node at one address. `ExitZeroTruthful`: exit code 0 is never a guess.
* `NothingLeft` = `CleanSlate`, `OneScriptPerNode`; `ScriptPhaseEnds`: both with silent connections, unconfirmed starts,
  refused removals and two cancellations.
* `EncodingRight` = `EncodingOfWhole`, `SavedTextDecodes`; `TailTold` = `SavedIsTail`, `TruncationTold`: what a reader of a result can
  conclude from its stream, against `IsText` and the stream itself.
* `NoGoodResultRefused` = `BuiltIsAccepted`, `NewerMinorAgrees`: a result is validated after the hosts have been worked on, so its refusal would
  cost it.
* `HealthyKeepsLease`: the Boolean lease of `RunStore` lapses for nobody who is on time.
* `RateBounded`: over *every* window as many attempts begin as it has slots, plus those that a late loop pushes in.
* `StrictlyMonotonic`, and `LittleAhead` in `ClockTypes`: ids increase, and their time runs ahead of the clock only by what was filled.
* `TrustAccounted` = `OnlyVouchedTrusted`, `DoneIsOnRecord`: a command that is killed and given again records what the first one already wrote.
* `LogVerdict` = `ChainHolds`, `DamageReported`, `LossReported`: `verify_chain` reports everything the log could still show, and
  no log that is sound. (A removed *last* line leaves a chain that verifies.)
* `ReferencesKept` = `RecordedStays`, `NeverSwitched`: an edit can make a reference fail, but cannot make it mean something else while the
  version it named is still registered.
* `CheckRight` = `VerdictRight`, `ReportedCyclesAreCycles`, `EveryStepAdvances`: the last is termination as an action property: each step increases
  a bounded measure.
* `SchemaSound` = `VersionIsSchema`, `ReadyHasSchema`; `BlobsAgree` = `NoDanglingRef`, `QuietScanExact`.

Every property, and most parts of a composite one, has a mutant in `PROJECT.json`: a plausible bug in one definition, kept
beside the original, that makes the property fail under the same configuration.

**Bounds.** `BatchRun` has no counter that needs cutting: processes claim once, attempts are capped by
the code. `Owner` bounds the number of claims. Two processes show crash, takeover and a stale owner
beside a new one; three are needed for what a *second* resume finds: reconstruction after a cap that
crashes used up, a blocked node that is resumed again, a process replaced twice.
Two nodes show everything that is about siblings (cancellation, permits, mixtures of
live and rebuilt outcomes); every table row and event belongs to one node, so that more nodes
add no new pair of actors. The attempt cap (3) is the real one. `conn_timeout` stands
for 3 attempts, `exec_timeout` for 2, `auth_failed` for 1; other classes with the same bound
take the same path. Symmetry is used in safety runs only: no definition singles
out a process or node, and `CHOOSE` is applied only where one element qualifies.

| Module | Bounds | Why they are enough |
|---|---|---|
| `RunCommand` | 2 commands, 1 key, 1 edit, 3 inventories, 2 scripts | reuse and resume are between a run's creator and one other command, and one edit falls between any two of their steps |
| `Lease` | lease 5, interval 1, wait 1, delay 1, horizon 12 | the shortest lease that `LeaseAssumption` allows, long enough for a lease that lapses and is taken over |
| `SshSession` | 2 cancellations, 3 attempts | one to start a reap, one to hit it; the attempts are the code's |
| `StreamCapture` | caps 4 and 3, 6 bytes, chunks of 3 | longer than the hard cap by 2, a character of 4 bytes across each cap and across chunks |
| `ResultContract` | minor versions to 2, exit codes around 0..255 | one version beyond the program's own |
| `Throttle` | 3 nodes, 2 permits, 2 attempts, horizon 6 | a retry behind a reserved slot of another node; slots are 2 apart and 1 late |
| `Uuid7` | counter of 3, 9 ids, 4 clock values | the counter fills three times |
| `Migration` | 3 processes of 2 builds, 1 fault | two of a kind race, a newer one refuses or migrates |
| `BlobStore` | 2 writers, 2 contents, a kill, an outage | a second writer of the same content |
| `Onboarding`, `AuditLog` | 2 commands, 1 slot with 2 fingerprints, 1 crash or torn line, 1 damage | a command that is killed and one that comes after or beside it; slots do not interact but in the set that is merged, for which two fingerprints of one slot do as well as two slots |
| `ScriptRegistry` | 2 places, 3 hashes of 2 digits, 2 paths | same name or same prefix twice, two files |
| `Inventory` | 3 nodes, 3 ids | a chain that leads into a cycle, cycles of 1, 2 and 3, a duplicate |

In `Files.cfg` script names and script files are interchangeable (`MCSymmetry`): no definition of `ScriptRegistry` singles one out.

`CHECK_DEADLOCK` is off where a system really ends: with the summary written and no
process left idle nothing more happens in `BatchRun`, commands are finite in number elsewhere, and time or ids reach
their bound. That no job is stuck before that is `ProcessEnds`; for the session it is `ScriptPhaseEnds`, for the inventory
`EveryStepAdvances`.

## 4. Fairness

`FairSpec` asks for weak fairness of

* `Progress(p)` for each process: a live process runs its event loop, gather and finalize; asyncio does
  not starve a ready task, and a finite number of jobs means that one condition per process is
  enough. It includes `Answered`: SSH sessions end. Connecting and executing have
  timeouts; **that upload and verification end is an assumption** (`ssh.py:118-168` gives them
  none). `Crash`, `HeartbeatLost` and `NodeRaises` are never fair.
* `Start(p)` and `Resume(p)`: an operator who sees a run that can be started or resumed does so. A
  resume is the only recovery the program has; without this nothing recovers a run.
* `LapsesUnrenewed`: the lease of an owner that has ended lapses, since nobody renews it. A lease of a
  live owner may lapse at any time but never has to.

Of the other modules,

* `SshSession` asks for the two timers of the event loop (`ExecTimeout`, `ReapTimeout`) and nothing of the host, the
  network or the script: `ScriptPhaseEnds` rests on them alone. No such property is stated for upload and
  verification, which have no timer. The fairness is on actions of the session alone.
* `RunCommand` asks for the steps of each command (`Step`) and an operator who submits and resumes (`Invoke`); the run
  `queued` fails even so.

## 5. Where code and documents differ

Two runs check a property that states what a comment or document says, and TLC finds a run of the code
that violates it. The quotations with their lines are in `PROJECT.json` under `findings`.

| Run | What is said | What happens |
|---|---|---|
| `blocked` | a blocked node's last attempt "has no outcome" (`run.py:223`, `store.py:300`) | the third attempt can be on record as SUCCEEDED, its output gone with the process |
| `queued` | recovery is at least once (`SPEC_BASELINE` line 50) | a run whose creator died before `start_run` is reported by every later command and started by none |

In the first the code is the careful side: a node whose third attempt has succeeded is rightly left to a human; it is
the comments and the audit message (`run.py:298`) that name one of two causes.

Other limits of the code appear as *conditions* of properties that hold, so that a reader sees how far a promise carries:

| Where | Limit | Condition |
|---|---|---|
| `run_cmd.py:237` | the inventory that is hashed is read later than the one that is loaded | `raced` in `SameHost`, `ReuseSameWork` |
| `run_cmd.py:244` | shell and expected exit codes of a resume are those of today's registry; nothing on record could tell | not modelled as a property |
| `run_cmd.py:309` | a reused run that has not ended is reported with exit code 1, which also means a failed node | `ExitZeroTruthful` is about 0 only |
| `ssh.py:104` | a cancellation at the `rm -f` skips the close | `NothingLeft` is about attempts that return by themselves |
| `ssh.py:105` | `rm -f` is tried once: a refused channel or an exit code that is not 0 is ignored, and the file stays, although `ssh.py:5` has it "always" removed | `kept` in `CleanSlate` |
| `ssh.py:203` | a second cancellation during the reap skips the rest of it; a start that is not confirmed in time is not reaped | the same, and `unseen` |
| `ssh.py:146` | a connection lost during verification raises, where other errors are mapped | the result `raised` |
| `hostkey.py:121` | of two overlapping onboardings one loses its keys | `overlapped` in `TrustKept`, `DoneIsOnRecord` |
| `audit.py:28` | two overlapping appends link to the same line | `overlapped` in `ChainHolds` |
| `hostkey_cmd.py:101` | between the replacement and the audit records, keys are trusted that are not on record | `DoneIsOnRecord` speaks of commands that end |
| `blobs.py:40` | a file that is there is taken for stored before its directory entry is synced; a power failure can then leave a dangling reference | `unsure` in `NoDanglingRef` |
| `store.py:816` | a blob referenced between the two reads is reported as an orphan (nothing deletes orphans) | `quiet` in `QuietScanExact` |
| `throttle.py:30` | slots are spaced, starts after a late wake-up are not | `MaxLate` in `RateBounded` |
| `schema.py:147` | of two processes that migrate at once one fails on an existing table | the stage `failed`; the schema stays sound |
| `registry.py:61` | `@<sha256>` without a name matches no script | `NoName` in `Ref` |

## 6. Proofs

TLAPS proves every safety property, action property and refinement that the passing runs check, for all values of the constants
that satisfy the `ASSUME`s of the modules: any number of nodes, processes, commands, files, bytes or edits. What is left to
TLC is liveness. The assumptions say that constants have their types, that NULL values differ from real ones, that `Node`
is finite, that `FaultClass` leaves out the classes that SSH never returns, and how the times of `Lease`
relate. The runs evaluate them on their instances.

| Properties | Theorems | In |
|---|---|---|
| `NodeCommitAtomic` `RunCommitAtomic` | `StoreNodeCommitAtomic` `StoreRunCommitAtomic`, `RunNodeCommitAtomic` `RunRunCommitAtomic` | `RunStoreProofs`, `BatchRunProofs` |
| `TypeOK`, `ImplementsLife` of `BatchRun` | `TypeCorrect` `RunLivesOneLife` | `BatchRunProofs` |
| `AttemptLedger` `RetryBudget` `ResultMatchesLedger` `AuditReplay` `SessionOnRecord` `BlockedStaysOpen` `ExitTruthful` `HistoryKept` `LiveOwnerUndisturbed` `ImplementsContract` | `LedgerNeverForks` `BudgetNeverExceeded` `ResultsMatchLedger` `AuditReplays` `SessionsOnRecord` `BlockedStays` `ExitIsTruthful` `HistoryIsKept` `OwnerNeverDisturbed` `RunImplementsContract` | `RunProofs` over `LedgerProofs` |
| `TypeOK`, `ReuseSameWork` `ContactsOnRecord` `ExitZeroTruthful`, `ImplementsLife` of `RunCommand` | `CommandTypes` `ReuseIsSameWork` `HostsSeeTheRecord` `ZeroIsTruthful` `RowsImplementLife` | `RunCommandProofs` |
| `SessionTypes` `NothingLeft` `NoGoodResultRefused` `TailTold` `EncodingRight` | `SessionPartsWellFormed` `NothingIsLeft` `GoodResultsPass` `EndIsTold` `EncodingIsRight` | `SessionProofs` |
| `ClockTypes` `HealthyKeepsLease` `RateBounded` `StrictlyMonotonic` | `ClocksWellFormed` `HealthyWorkersKeepTheirLease` `RateHolds` `IdsStrictlyMonotonic` | `ClocksProofs` |
| `FileTypes` `SchemaSound` `ReferencesKept` `BlobsAgree` `TrustAccounted` `TrustKept` `LogVerdict` `CheckRight` | `FilesWellFormed` `SchemaStaysSound` `ReferencesStay` `NothingDangles` `TrustIsAccounted` `TrustStays` `VerdictIsRight` `CheckIsRight` | `FilesProofs` |

Almost none of these is inductive. What each needs:

* `RunStoreProofs`: the inductive invariant `StoreInv` is `StoreTypeOK`, both commit boundaries, and

  - `ResumedAfterStart`: a run that was never started was never resumed (else the count of run events
    in `RunCommitAtomic` would break when a queued run is started);
  - `UidsBelong`: the uid of a checkpoint was minted for its node (else a commit for one node could meet the
    uid of another one's execution).

  The proof splits on the transactions. Those that commit nothing leave the boundary
  alone (`NoCommitFrame`, `LogNodeOther`); `Commit` is `CommitKeepsBoundary`. Since `StoreSpec`
  lets any owner issue any transaction at any time, the commit boundaries do not depend on the orchestrator.

* `BatchRunProofs`: `RunImplementsStore`, every behaviour of `BatchRun` is one of `StoreSpec`. Each action is
  a transaction with well-typed arguments or leaves the tables alone; that needs
  `BatchInv`: types, uids in snapshots belong to their nodes (so
  the uid a job writes does), jobs that attempt or commit carry a valid number and result, a process that
  finalizes carries a summary. That numbers stay within the cap rests on `RetryWithinCap`, a fact of the error matrix.
  `RunLivesOneLife`: every transaction maps to one step of the row or to a stutter; `RunCommitAtomic` gives that a run without a
  summary has not ended.

* `LedgerProofs` and `RunProofs`. The tables alone do not show why the ledger never forks: the strict CAS of `record_attempt` compares with
  what the writer *remembers*. `LedgerInv` therefore has two sides. `NodeInv(n)` is about the rows of a node: ledger,
  budget, replay, the verdict on record, what "blocked" means. `View(p, n)` is what the job of `n` in the process `p` that *holds the lease*
  knows of these rows at each `pc`: before its first write the checkpoint is its snapshot, at `connect` its number is the next one
  and the matrix allows it, at `ssh` its attempt is the last one, at `commit` its result reports that attempt. A process that has lost the
  lease knows nothing and can write nothing. Losing it and a takeover make the view trivial; what establishes a new one is the claim
  (`ClaimView`: `resume_run` has turned RUNNING into UNKNOWN) and then the read of the snapshot. `ProcessInv` adds what holds without a lease (a session
  has its row, a process that has read nothing has written nothing), `RunInv` what concerns the whole run. Frame lemmas say
  which variables each part depends on, so that a step on one node leaves the others alone.
  `LiveOwnerUndisturbed` follows action by action: the view contradicts each refusal. For
  `RunImplementsContract` the verdict of a node is read off its execution and its `node_finished` event, and
  the summary in a process that finalizes is their tally (`ReportView`), whether it is counted from live jobs or rebuilt.

* `RunCommandProofs`: rows are written once, everything but status, owner, lease and exit code is what the creator inserted
  (`RowInv`, `RowKept`). A command that was not raced by an edit holds the inventory it hashed (`Submitted`, `Resumed`), so whoever compared
  hashes with a row has compared what was loaded (`Same`); what hosts saw is in the row of their run (`ContactInv`).

* `SessionProofs`, attempts: `AttemptInv` says at each await what the attempt holds of connection, file and script. The point
  is `ScriptHandled`: at the removal of the file no script that is known to run is on a connection that works, except under a
  cancellation, whose attempt claims nothing.

* `SessionProofs`, envelope: `build_execution_result` fills the error slot by a few cases, and each is accepted by schema and matrix
  (`SlotRight`); one minor version more changes nothing that the validator reads (`NewerAccepted`).

* `SessionProofs`, streams of any length. `Reads(st, s)` says that `st` is the run of a decoder that reads all of `s` at once without an
  error; there is at most one (`ReadsOnce`). `CaptureInv` says that the decoder, chunk by chunk, has its state (`ReadsChunk`), and that the tail is
  the stream without its first bytes (`Drops`). After the end of a text the tail begins inside a character at most, and
  `align_utf8_tail` drops the rest of that character and nothing else (`RestOfCharacter`, `AlignedIsWhole`), at the hard
  cap as at the inline cap. That a stream is text for `IsText`, which cuts it into characters from the front, exactly if it
  can be read (`TextIsWhole`) connects the decoder to its specification.

* `ClocksProofs`, lease: the invariant adds, for a healthy worker that holds, when its
  timer is due against when its lease expires (`Margin`), for one that renews or claims that the
  time it has read is at most `Wait` old, and that no timestamp lies ahead of the clock. A takeover would
  need an expiry before a time that was read in the past, which contradicts these.

* `ClocksProofs`, throttle: attempts do not record the slot they were given, so the invariant asserts that there is an assignment of
  slots to starts, pairwise a spacing apart, none later than its start and none earlier by more than the lateness of the loop (`Slots`). A
  window then holds no more starts than its slots have places (an injection into an interval).

* `ClocksProofs`, identifiers: the invariant says which id each phase of the lock's holder is about to issue, and that
  nobody else is in the critical section. `IdsLittleAhead` counts ids through (`Rank`): each issue adds at most one.

* `FilesProofs`, schema: what the holder of the lock
  has created and has still to do add up to the schema of its version (`FromOn`, `ApplyInv`), if what it read
  before the lock was still true; if it was not, its first step clashes. `SchemaOnlyGrows` is proved from the same invariant and not
  listed in a run.

* `FilesProofs`, registry: lemmas about references: a longer one has fewer candidates, a unique candidate stays the only one a
  registry can give as long as it is listed.

* `FilesProofs`, blobs: what is synced is whole, what is referenced was synced or taken for stored before it was (`OnDisk`); a quiet scan knows
  the references (`ScanInv`).

* `FilesProofs`, onboarding: `TrustInv`; for the log, that a line whose place in the chain is wrong and that
  follows a record is never written again, so that damage stays visible (`BrokenAt`), and that with one command at a time the record under its pen
  continues the chain (`ChainInv`); what is to be recorded is owed, under the pen, or in the file (`RecordInv`).

* `FilesProofs`, inventory: that an accepted list has no endless chain cannot be read off the cycles that were found. `TrappedInv` says
  it for every closed set of nodes at once: a walk that starts in one stays in it until it reports a cycle. That each step advances
  needs that a walk sees no node twice (`WalkInv`), so that it is no longer than the list (`WalkBounded`, by counting).

Where data is unbounded (chunks, characters, chains) the argument by induction is one by a least counterexample: `NatLeast`, from the library's
`WFMin`, gives the least index at which a fact fails.

**Only model-checked:** `ProcessEnds`, `UndisturbedOwnerFinishes`, `StaleRunReclaimed` and `ScriptPhaseEnds`. They are liveness under
fairness, which the prover cannot reason about (`ENABLED`). For `ProcessEnds` the proofs leave out only that
jobs do not wait for ever; for the inventory, termination is proved, as `EveryStepAdvances`. The two expected violations are counterexamples, found by TLC.

## 7. Plan

Modelled first was what carries results (`RunStore`, `BatchRun`), then what surrounds it; proved likewise. What is left:

* `BlobStore` with the transaction of `RunStore` in place of its `CommitRef`.
* Shorter proofs where two modules state the same lemma about sequences or least elements (`FilesProofs`, `SessionProofs`).

## 8. Not modelled

Analysis, export and notification are empty packages. Configuration loading, argument parsing, output, logging, JSON
schema validation by a library, base64 and YAML line numbers are I/O or formatting without state of their own. Operations without
a caller in the program are left out: `release_lease`, `insert_node_tasks`, the terminal branch of `set_node_task`,
`decode_run_id`, reading a blob back, the per-node semaphore. The length of the retry backoff is an await of any length. SQLite itself is
taken to be serializable and durable under `BEGIN IMMEDIATE` and `synchronous=FULL`, the host's `sha256sum` to be right.
