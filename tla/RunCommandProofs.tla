--------------------------- MODULE RunCommandProofs ---------------------------
(***************************************************************************)
(* What `wft run` and `wft run --resume` do to the runs table and to the   *)
(* hosts, proved for any number of commands, keys, files and edits.        *)
(*                                                                         *)
(* The invariant says what a command may rely on between two transactions. *)
(* A row is written once: everything but its status, owner, lease and exit *)
(* code is what its creator inserted (RowInv, and RowKept of a step).  A   *)
(* command that was not raced by an edit holds the inventory it hashed, so *)
(* whoever compared hashes with the row has also compared what was loaded  *)
(* (CommandInv).  What hosts have seen is then on record (ContactInv).     *)
(***************************************************************************)
EXTENDS RunCommand, TLAPS

\* The states of a command in which it has read what the name says.
Working  == {"resolve", "load", "hash", "create", "claim", "execute",
             "reuse", "report"}
Unborn   == {"idle", "resolve", "load", "hash", "create"}
Hashed   == {"create", "claim", "execute", "reuse", "report"}
Claiming == {"claim", "execute"}
Reusing  == {"reuse", "report"}

\* A row that exists says whose work it is and has a code once it has ended.
RowInv(r) ==
  \/ run[r] = NoRun
  \/ /\ run[r].status # "NONE"
     /\ run[r].loaded \in Inventory
     /\ run[r].selector \in Selector
     /\ run[r].targets = Selected(run[r].loaded, run[r].selector)
     /\ raced \/ run[r].hash[1] = run[r].loaded
     /\ run[r].exit # NoExit <=> run[r].status \in Ended

\* A submission has loaded an inventory that can be run; its run is its own.
Submitted(p) ==
  cmd[p].pc \in Working /\ ~cmd[p].resume =>
    /\ cmd[p].pc # "load"
    /\ cmd[p].inv \in Inventory
    /\ cmd[p].selector \in Selector
    /\ Runnable(cmd[p].inv, Selected(cmd[p].inv, cmd[p].selector))
    /\ cmd[p].pc \notin Reusing => cmd[p].id = p

\* A resume is about a row that exists, and goes by its version.
Resumed(p) ==
  cmd[p].pc \in Working /\ cmd[p].resume =>
    /\ cmd[p].pc \notin Reusing \cup {"create"}
    /\ cmd[p].id \in Proc
    /\ run[cmd[p].id].status # "NONE"
    /\ cmd[p].pc # "resolve" => cmd[p].script = run[cmd[p].id].script
    /\ cmd[p].pc \notin {"resolve", "load"} => cmd[p].inv \in Inventory

\* What was loaded is on disk until it is hashed, and is what was hashed.
Snapshot(p) ==
  /\ Reading(p) => raced \/ cmd[p].inv = disk.inventory
  /\ cmd[p].pc \in Hashed => raced \/ cmd[p].hash[1] = cmd[p].inv

\* Whoever claims or executes a run dispatches its nodes, with its script,
\* and unless it was raced by the inventory of its creator.
Entitled(p) ==
  cmd[p].pc \in Claiming =>
    /\ run[cmd[p].id].status # "NONE"
    /\ cmd[p].script = run[cmd[p].id].script
    /\ Dispatched(p) = run[cmd[p].id].targets
    /\ Runnable(cmd[p].inv, run[cmd[p].id].targets)
    /\ raced \/ cmd[p].inv = run[cmd[p].id].loaded

\* Whoever is told of an existing run has its parameters.
Same(p) ==
  cmd[p].pc \in Reusing =>
    /\ cmd[p].id \in Proc
    /\ run[cmd[p].id].status # "NONE"
    /\ SameParams(cmd[p], run[cmd[p].id])
    /\ cmd[p].pc = "report" /\ cmd[p].told \in Ended
         => run[cmd[p].id].status = cmd[p].told

\* Only what exited has an exit code, and 0 is that of the run.
Told(p) ==
  /\ cmd[p].pc # "exited" <=> cmd[p].exit = NoExit
  /\ cmd[p].exit = 0 => /\ cmd[p].id \in Proc
                        /\ run[cmd[p].id].exit = 0

CommandInv(p) ==
  /\ cmd[p].pc \in Unborn => run[p] = NoRun
  /\ Submitted(p)
  /\ Resumed(p)
  /\ Snapshot(p)
  /\ Entitled(p)
  /\ Same(p)
  /\ Told(p)

\* What a host saw is in the row of the run it was reached for.
ContactInv(c) ==
  /\ c.run \in Proc
  /\ run[c.run].status # "NONE"
  /\ c.node \in run[c.run].targets
  /\ c.script = run[c.run].script
  /\ c.address # Bastion
  /\ raced \/ c.address = run[c.run].loaded[c.node]

FilesInv ==
  /\ TypeOK
  /\ \A r \in Proc : RowInv(r)
  /\ \A p \in Proc : CommandInv(p)
  /\ \A c \in contacts : ContactInv(c)

------------------------------------------------------------------------------
\* Rows.

\* What a step leaves of a row that exists: everything but who executes it,
\* and after its end all of it.
RowKept(r) ==
  /\ run[r].status # "NONE" =>
       /\ run'[r].status # "NONE"
       /\ run'[r].selector = run[r].selector
       /\ run'[r].script = run[r].script
       /\ run'[r].hash = run[r].hash
       /\ run'[r].targets = run[r].targets
       /\ run'[r].loaded = run[r].loaded
  /\ run[r].status \in Ended =>
       run'[r].status = run[r].status /\ run'[r].exit = run[r].exit

\* A step of the life of a run, or none.
LifeStep(r) == Life(r)!Next \/ UNCHANGED Life(r)!lifeVars

\* What every step does to a row: only its creator gives rise to it.
RowStep(r) ==
  /\ run'[r] \in Row
  /\ RowKept(r)
  /\ RowInv(r)'
  /\ LifeStep(r)
  /\ run[r] = NoRun => run'[r] = NoRun \/ cmd'[r] # cmd[r]

RowsStep ==
  /\ raced => raced'
  /\ DOMAIN run' = Proc
  /\ run' = [r \in Proc |-> run'[r]]
  /\ \A r \in Proc : RowStep(r)

\* A row that no command touches lives on.
LEMMA RowUntouched ==
  ASSUME FilesInv, NEW r \in Proc, run'[r] = run[r], raced => raced'
  PROVE  RowStep(r)
<1>1. run[r] \in Row /\ RowInv(r)
  BY DEF FilesInv, TypeOK
<1>2. run'[r] \in Row /\ RowKept(r)
  BY <1>1 DEF RowKept
<1>3. RowInv(r)'
  BY <1>1 DEF RowInv, Selected, Runnable
<1>4. UNCHANGED Life(r)!lifeVars
  BY DEF Life!lifeVars
<1> QED
  BY <1>2, <1>3, <1>4 DEF RowStep, LifeStep

LEMMA RunUnchanged ==
  ASSUME FilesInv, run' = run, raced => raced'
  PROVE  RowsStep
<1>1. run \in [Proc -> Row]
  BY DEF FilesInv, TypeOK
<1> QED
  BY <1>1, RowUntouched DEF RowsStep

\* One row is written, the others are left alone.
LEMMA OneRow ==
  ASSUME FilesInv, NEW r \in Proc, NEW row,
         run' = [run EXCEPT ![r] = row], raced' = raced, RowStep(r)
  PROVE  RowsStep
<1>1. run \in [Proc -> Row]
  BY DEF FilesInv, TypeOK
<1>2. ASSUME NEW s \in Proc, s # r PROVE RowStep(s)
  <2>1. run'[s] = run[s]
    BY <1>1, <1>2
  <2> QED
    BY <2>1, RowUntouched
<1> QED
  BY <1>1, <1>2 DEF RowsStep

\* A row that exists has a summary once it has ended.
LEMMA RowFacts ==
  ASSUME FilesInv, NEW r \in Proc, run[r].status # "NONE"
  PROVE  /\ run[r] \in Row
         /\ run[r] # NoRun
         /\ run[r].loaded \in Inventory
         /\ run[r].selector \in Selector
         /\ run[r].targets = Selected(run[r].loaded, run[r].selector)
         /\ raced \/ run[r].hash[1] = run[r].loaded
         /\ run[r].exit # NoExit <=> run[r].status \in Ended
BY DEF FilesInv, TypeOK, RowInv, NoRun

\* start_run, resume_run and an expiry write status, owner and lease.
LEMMA RowTaken ==
  ASSUME FilesInv, NEW r \in Proc, NEW p \in Proc,
         run[r].status = "QUEUED" \/ Stale(run[r]), raced' = raced,
         run' = [run EXCEPT ![r].status = "RUNNING", ![r].owner = p,
                            ![r].live = TRUE]
  PROVE  RowsStep
<1> DEFINE row == [run[r] EXCEPT !.status = "RUNNING", !.owner = p,
                                 !.live = TRUE]
<1>1. run[r].status # "NONE" /\ run[r].status \notin Ended
  BY DEF Stale, Ended
<1>2. /\ run[r] \in Row /\ run[r] # NoRun
      /\ run[r].loaded \in Inventory
      /\ run[r].selector \in Selector
      /\ run[r].targets = Selected(run[r].loaded, run[r].selector)
      /\ raced \/ run[r].hash[1] = run[r].loaded
      /\ run[r].exit # NoExit <=> run[r].status \in Ended
  BY <1>1, RowFacts
<1>3. run' = [run EXCEPT ![r] = row]
  BY DEF FilesInv, TypeOK, Row
<1>4. run'[r] = row
  BY <1>3 DEF FilesInv, TypeOK
<1>5. row \in Row
  BY <1>2 DEF Row
<1>6. /\ row.status = "RUNNING" /\ row.owner = p /\ row.live = TRUE
      /\ row.selector = run[r].selector /\ row.script = run[r].script
      /\ row.hash = run[r].hash /\ row.targets = run[r].targets
      /\ row.loaded = run[r].loaded /\ row.exit = run[r].exit
  BY <1>2 DEF Row
<1> HIDE DEF row
<1>7. RowKept(r)
  BY <1>1, <1>4, <1>6 DEF RowKept
<1>8. RowInv(r)'
  BY <1>1, <1>2, <1>4, <1>6 DEF RowInv, Selected, Ended
<1>9. LifeStep(r)
  <2>1. CASE run[r].status = "QUEUED"
    BY <2>1, <1>4, <1>6 DEF LifeStep, Life!Next, Life!Start
  <2>2. CASE Stale(run[r])
    BY <2>2, <1>4, <1>6 DEF LifeStep, Life!Next, Life!TakeOver, Stale
  <2> QED
    BY <2>1, <2>2
<1>10. RowStep(r)
  BY <1>2, <1>4, <1>5, <1>7, <1>8, <1>9 DEF RowStep
<1> QED
  BY <1>3, <1>10, OneRow

LEMMA RowLapses ==
  ASSUME FilesInv, NEW r \in Proc, Lapse(r)
  PROVE  RowsStep
<1> DEFINE row == [run[r] EXCEPT !.live = FALSE]
<1>1. run[r].status = "RUNNING" /\ run[r].live
  BY DEF Lapse
<1>2. /\ run[r] \in Row /\ run[r] # NoRun
      /\ run[r].loaded \in Inventory
      /\ run[r].selector \in Selector
      /\ run[r].targets = Selected(run[r].loaded, run[r].selector)
      /\ raced \/ run[r].hash[1] = run[r].loaded
      /\ run[r].exit # NoExit <=> run[r].status \in Ended
  BY <1>1, RowFacts
<1>3. run' = [run EXCEPT ![r] = row] /\ raced' = raced
  BY DEF Lapse, FilesInv, TypeOK, Row
<1>4. run'[r] = row
  BY <1>3 DEF FilesInv, TypeOK
<1>5. row \in Row
  BY <1>2 DEF Row
<1>6. /\ row.status = run[r].status /\ row.owner = run[r].owner
      /\ row.live = FALSE
      /\ row.selector = run[r].selector /\ row.script = run[r].script
      /\ row.hash = run[r].hash /\ row.targets = run[r].targets
      /\ row.loaded = run[r].loaded /\ row.exit = run[r].exit
  BY <1>2 DEF Row
<1> HIDE DEF row
<1>7. RowKept(r)
  BY <1>1, <1>4, <1>6 DEF RowKept
<1>8. RowInv(r)'
  BY <1>1, <1>2, <1>3, <1>4, <1>6 DEF RowInv, Selected
<1>9. LifeStep(r)
  BY <1>1, <1>4, <1>6 DEF LifeStep, Life!Next, Life!Lapse
<1>10. RowStep(r)
  BY <1>2, <1>4, <1>5, <1>7, <1>8, <1>9 DEF RowStep
<1> QED
  BY <1>3, <1>10, OneRow

\* finalize_run: the status and the exit code of a run land together.
LEMMA RowEnds ==
  ASSUME FilesInv, NEW r \in Proc, NEW p \in Proc, Holds(p, run[r]),
         NEW status \in Ended, NEW code \in {0, 1},
         status = "DEGRADED" => code = 1, raced' = raced,
         run' = [run EXCEPT ![r].status = status, ![r].exit = code]
  PROVE  RowsStep /\ run'[r].exit = code
<1> DEFINE row == [run[r] EXCEPT !.status = status, !.exit = code]
<1>1. run[r].status = "RUNNING" /\ run[r].live
  BY DEF Holds
<1>2. /\ run[r] \in Row /\ run[r] # NoRun
      /\ run[r].loaded \in Inventory
      /\ run[r].selector \in Selector
      /\ run[r].targets = Selected(run[r].loaded, run[r].selector)
      /\ raced \/ run[r].hash[1] = run[r].loaded
  BY <1>1, RowFacts
<1>3. run' = [run EXCEPT ![r] = row]
  BY DEF FilesInv, TypeOK, Row
<1>4. run'[r] = row
  BY <1>3 DEF FilesInv, TypeOK
<1>5. row \in Row
  BY <1>2 DEF Row, Ended
<1>6. /\ row.status = status /\ row.owner = run[r].owner
      /\ row.live = run[r].live
      /\ row.selector = run[r].selector /\ row.script = run[r].script
      /\ row.hash = run[r].hash /\ row.targets = run[r].targets
      /\ row.loaded = run[r].loaded /\ row.exit = code
  BY <1>2 DEF Row
<1> HIDE DEF row
<1>7. RowKept(r)
  BY <1>1, <1>4, <1>6 DEF RowKept, Ended
<1>a. row.exit # NoExit /\ row.status \in Ended /\ row.status # "NONE"
  BY <1>6 DEF NoExit, Ended
<1>8. RowInv(r)'
  <2>1. run'[r].targets = Selected(run'[r].loaded, run'[r].selector)
    BY <1>2, <1>4, <1>6 DEF Selected
  <2>2. /\ run'[r].status # "NONE" /\ run'[r].status \in Ended
        /\ run'[r].exit # NoExit
        /\ run'[r].loaded \in Inventory /\ run'[r].selector \in Selector
        /\ raced' \/ run'[r].hash[1] = run'[r].loaded
    BY <1>2, <1>3, <1>4, <1>6, <1>a
  <2> QED
    BY <2>1, <2>2 DEF RowInv, Selected
<1>9. LifeStep(r)
  <2>1. /\ run[r].status = "RUNNING" /\ run[r].live
        /\ run'[r].status = status /\ run'[r].exit = code
        /\ run'[r].owner = run[r].owner /\ run'[r].live = run[r].live
    BY <1>1, <1>4, <1>6
  <2>2. status \in Life(r)!Ended
    BY DEF Life!Ended, Ended
  <2>3. code \in IF status = "SUCCESS" THEN {0, 1} ELSE {1}
    BY DEF Ended
  <2> QED
    BY <2>1, <2>2, <2>3 DEF LifeStep, Life!Next, Life!End
<1>10. RowStep(r)
  BY <1>2, <1>4, <1>5, <1>7, <1>8, <1>9 DEF RowStep
<1> QED
  BY <1>3, <1>4, <1>6, <1>10, OneRow

\* create_run inserts the row of a submission.
LEMMA RowCreated ==
  ASSUME FilesInv, NEW p \in Proc, At(p, "create"), raced' = raced,
         NEW row,
         row = [NoRun EXCEPT !.status = "QUEUED", !.key = cmd[p].key,
                             !.selector = cmd[p].selector,
                             !.script = cmd[p].script,
                             !.hash = cmd[p].hash, !.loaded = cmd[p].inv,
                             !.targets = Selected(cmd[p].inv,
                                                  cmd[p].selector)],
         run' = [run EXCEPT ![p] = row], cmd'[p] # cmd[p]
  PROVE  /\ RowsStep
         /\ run'[p] = row
         /\ cmd[p].id = p
         /\ cmd[p].inv \in Inventory
         /\ Runnable(cmd[p].inv, Selected(cmd[p].inv, cmd[p].selector))
         /\ row.status = "QUEUED" /\ row.script = cmd[p].script
         /\ row.loaded = cmd[p].inv
         /\ row.targets = Selected(cmd[p].inv, cmd[p].selector)
<1>1. /\ cmd[p] \in Command /\ cmd[p].pc = "create"
      /\ run[p] = NoRun
      /\ Submitted(p) /\ Resumed(p) /\ Snapshot(p)
  BY DEF FilesInv, TypeOK, CommandInv, At, Unborn
<1>2. /\ ~cmd[p].resume /\ cmd[p].id = p
      /\ cmd[p].inv \in Inventory
      /\ cmd[p].selector \in Selector
      /\ Runnable(cmd[p].inv, Selected(cmd[p].inv, cmd[p].selector))
      /\ raced \/ cmd[p].hash[1] = cmd[p].inv
  BY <1>1 DEF Submitted, Resumed, Snapshot, Working, Hashed, Reusing
<1>3. run'[p] = row
  BY DEF FilesInv, TypeOK
<1>4. Selected(cmd[p].inv, cmd[p].selector)
        \in SUBSET UNION {DOMAIN inv : inv \in Inventory}
  BY <1>2 DEF Selected
<1>5. /\ row.status = "QUEUED" /\ row.owner = None /\ row.live = FALSE
      /\ row.exit = NoExit
      /\ row.selector = cmd[p].selector /\ row.script = cmd[p].script
      /\ row.hash = cmd[p].hash /\ row.loaded = cmd[p].inv
      /\ row.targets = Selected(cmd[p].inv, cmd[p].selector)
  BY DEF NoRun
<1>6. row \in Row
  BY <1>1, <1>4 DEF Row, NoRun, Command, Ended
<1>7. /\ run[p].status = "NONE" /\ run[p].owner = None
      /\ run[p].live = FALSE /\ run[p].exit = NoExit
  BY <1>1 DEF NoRun
<1>8. RowKept(p)
  BY <1>7 DEF RowKept, Ended
<1>9. RowInv(p)'
  BY <1>2, <1>3, <1>5 DEF RowInv, Selected, Ended
<1>10. LifeStep(p)
  BY <1>3, <1>5, <1>7 DEF LifeStep, Life!Next, Life!Create
<1>11. RowStep(p)
  BY <1>3, <1>6, <1>8, <1>9, <1>10 DEF RowStep
<1>12. RowsStep
  BY <1>11, OneRow
<1> QED
  BY <1>2, <1>3, <1>5, <1>12

------------------------------------------------------------------------------
\* Commands.

\* A command that does not move keeps what it may rely on.
LEMMA Bystander ==
  ASSUME FilesInv, RowsStep, NEW q \in Proc, cmd'[q] = cmd[q],
         \/ disk' = disk
         \/ disk'.inventory = disk.inventory
         \/ Reading(q) => raced'
  PROVE  CommandInv(q)'
<1>1. CommandInv(q) /\ cmd[q] \in Command
  BY DEF FilesInv, TypeOK
<1>2. /\ raced => raced'
      /\ \A r \in Proc : RowKept(r)
      /\ run[q] = NoRun => run'[q] = NoRun
  BY DEF RowsStep, RowStep
<1>3. (cmd[q].pc \in Unborn => run[q] = NoRun)'
  BY <1>1, <1>2 DEF CommandInv
<1>4. Submitted(q)'
  BY <1>1 DEF CommandInv, Submitted, Runnable, Selected
<1>5. Resumed(q)'
  BY <1>1, <1>2 DEF CommandInv, Resumed, RowKept
<1>6. Snapshot(q)'
  BY <1>1, <1>2 DEF CommandInv, Snapshot, Reading, At
<1>7. Entitled(q)'
  <2> SUFFICES ASSUME cmd[q].pc \in Claiming PROVE Entitled(q)'
    BY DEF Entitled
  <2>1. cmd[q].id \in Proc
    BY <1>1 DEF CommandInv, Submitted, Resumed, Working, Claiming, Reusing
  <2>2. /\ run[cmd[q].id].status # "NONE"
        /\ cmd[q].script = run[cmd[q].id].script
        /\ Dispatched(q) = run[cmd[q].id].targets
        /\ Runnable(cmd[q].inv, run[cmd[q].id].targets)
        /\ raced \/ cmd[q].inv = run[cmd[q].id].loaded
    BY <1>1 DEF CommandInv, Entitled
  <2>3. /\ run'[cmd[q].id].status # "NONE"
        /\ run'[cmd[q].id].script = run[cmd[q].id].script
        /\ run'[cmd[q].id].targets = run[cmd[q].id].targets
        /\ run'[cmd[q].id].loaded = run[cmd[q].id].loaded
    BY <1>2, <2>1, <2>2 DEF RowKept
  <2>4. Dispatched(q)' = Dispatched(q)
    BY <2>3 DEF Dispatched, Selected
  <2> QED
    BY <1>2, <2>2, <2>3, <2>4 DEF Entitled, Runnable
<1>8. Same(q)'
  BY <1>1, <1>2 DEF CommandInv, Same, RowKept, SameParams
<1>9. Told(q)'
  <2>1. Told(q)
    BY <1>1 DEF CommandInv
  <2>2. ASSUME cmd[q].exit = 0
        PROVE cmd[q].id \in Proc /\ run'[cmd[q].id].exit = 0
    <3>1. cmd[q].id \in Proc /\ run[cmd[q].id].exit = 0
      BY <2>1, <2>2 DEF Told
    <3>2. run[cmd[q].id].status \in Ended
      BY <3>1 DEF FilesInv, RowInv, NoRun, NoExit
    <3> QED
      BY <1>2, <3>1, <3>2 DEF RowKept
  <2> QED
    BY <2>1, <2>2 DEF Told
<1> QED
  BY <1>3, <1>4, <1>5, <1>6, <1>7, <1>8, <1>9 DEF CommandInv

\* What a step of one command is: it moves, the others stay, and the rows
\* take their steps.
Moves(p, c) ==
  /\ cmd' = [cmd EXCEPT ![p] = c]
  /\ disk' = disk /\ edits' = edits /\ raced' = raced
  /\ c \in Command
  /\ c.pc = "exited" => c.exit # NoExit
  /\ RowsStep
  /\ CommandInv(p)'

LEMMA MoverKeeps ==
  ASSUME FilesInv, NEW p \in Proc, NEW c, Moves(p, c)
  PROVE  TypeOK' /\ \A q \in Proc : CommandInv(q)'
<1>1. cmd \in [Proc -> Command] /\ run \in [Proc -> Row]
  BY DEF FilesInv, TypeOK
<1>2. cmd' \in [Proc -> Command]
  BY <1>1 DEF Moves
<1>3. run' \in [Proc -> Row]
  BY DEF Moves, RowsStep, RowStep
<1>4. ASSUME NEW q \in Proc PROVE CommandInv(q)'
  <2>1. CASE q = p
    BY <2>1 DEF Moves
  <2>2. CASE q # p
    <3>1. cmd'[q] = cmd[q]
      BY <1>1, <2>2 DEF Moves
    <3> QED
      BY <3>1, Bystander DEF Moves
  <2> QED
    BY <2>1, <2>2
<1>5. \A q \in Proc : cmd'[q].pc = "exited" => cmd'[q].exit # NoExit
  BY <1>1 DEF Moves, FilesInv, TypeOK, At
<1>6. disk' \in Disk /\ edits' \in 0..MaxEdits /\ raced' \in BOOLEAN
  BY DEF Moves, FilesInv, TypeOK
<1> QED
  BY <1>2, <1>3, <1>4, <1>5, <1>6 DEF TypeOK, At, Disk, Row, Command

\* Processes that are gone, and what they leave behind.
LEMMA GoneMoves ==
  ASSUME FilesInv, NEW p \in Proc, RowsStep,
         disk' = disk, edits' = edits, raced' = raced,
         NEW c \in Command, cmd' = [cmd EXCEPT ![p] = c],
         c.pc \in {"exited", "dead"},
         c.pc = "exited" <=> c.exit # NoExit,
         c.exit = 0 => c.id \in Proc /\ run'[c.id].exit = 0
  PROVE  Moves(p, c)
<1>1. cmd'[p] = c
  BY DEF FilesInv, TypeOK
<1>2. CommandInv(p)'
  <2>1. (cmd[p].pc \in Unborn => run[p] = NoRun)' /\ Submitted(p)'
        /\ Resumed(p)' /\ Entitled(p)' /\ Same(p)'
    BY <1>1
    DEF Unborn, Submitted, Resumed, Entitled, Same, Working, Claiming,
        Reusing
  <2>2. Snapshot(p)'
    BY <1>1 DEF Snapshot, Reading, At, Hashed
  <2>3. Told(p)'
    BY <1>1 DEF Told
  <2> QED
    BY <2>1, <2>2, <2>3 DEF CommandInv
<1> QED
  BY <1>2 DEF Moves

LEMMA Refused ==
  ASSUME FilesInv, NEW p \in Proc, RowsStep,
         disk' = disk, edits' = edits, raced' = raced, Refuse(p)
  PROVE  \E c : Moves(p, c)
<1> DEFINE c == [Idle EXCEPT !.pc = "exited", !.exit = 2]
<1>1. c \in Command /\ c.pc = "exited" /\ c.exit = 2
  BY DEF Idle, Command, NoExit
<1>2. cmd' = [cmd EXCEPT ![p] = c]
  BY DEF Refuse, Goto
<1> HIDE DEF c
<1>3. 2 # NoExit /\ 2 # 0
  BY DEF NoExit
<1> QED
  BY <1>1, <1>2, <1>3, GoneMoves

\* What a command reports of itself is the exit code, and of which run.
LEMMA Exited ==
  ASSUME FilesInv, NEW p \in Proc, RowsStep, cmd[p].id \in Proc,
         disk' = disk, edits' = edits, raced' = raced,
         NEW code \in {0, 1}, Exit(p, code),
         code = 0 => run'[cmd[p].id].exit = 0
  PROVE  \E c : Moves(p, c)
<1> DEFINE c == [Idle EXCEPT !.pc = "exited", !.exit = code,
                             !.id = cmd[p].id]
<1>1. c \in Command /\ c.pc = "exited" /\ c.exit = code /\ c.id = cmd[p].id
  BY DEF Idle, Command, NoExit
<1>2. cmd' = [cmd EXCEPT ![p] = c]
  BY DEF Exit, Goto
<1> HIDE DEF c
<1>3. code # NoExit
  BY DEF NoExit
<1> QED
  BY <1>1, <1>2, <1>3, GoneMoves

\* A command at work that moves on, to a state in which it has not exited.
LEMMA MovesOn ==
  ASSUME FilesInv, NEW p \in Proc, RowsStep,
         disk' = disk, edits' = edits, raced' = raced,
         NEW c \in Command, cmd' = [cmd EXCEPT ![p] = c],
         c.pc \in Working, c.exit = NoExit,
         (cmd[p].pc \in Unborn => run[p] = NoRun)',
         Submitted(p)', Resumed(p)', Snapshot(p)', Entitled(p)', Same(p)'
  PROVE  Moves(p, c)
<1>1. cmd'[p] = c
  BY DEF FilesInv, TypeOK
<1>2. Told(p)'
  BY <1>1 DEF Told, Working, NoExit
<1> QED
  BY <1>2 DEF Moves, CommandInv, Working

------------------------------------------------------------------------------
\* The steps of a command, one by one.

\* What the invariant says of a command and of its row, field by field.
LEMMA CommandFacts ==
  ASSUME FilesInv, NEW p \in Proc
  PROVE  /\ cmd[p] \in Command
         /\ cmd[p].pc \in Unborn => run[p] = NoRun
         /\ Submitted(p) /\ Resumed(p) /\ Snapshot(p) /\ Entitled(p)
         /\ Same(p) /\ Told(p)
         /\ cmd[p].pc \in Working => cmd[p].exit = NoExit
BY DEF FilesInv, TypeOK, CommandInv, Told, Working

LEMMA SubmitMoves ==
  ASSUME FilesInv, NEW p \in Proc, NEW key \in Key \cup {None},
         NEW selector \in Selector, Submit(p, key, selector)
  PROVE  \E c : Moves(p, c)
<1> DEFINE inv == disk.inventory
           c   == [Idle EXCEPT !.id = p, !.key = key, !.selector = selector,
                               !.inv = inv, !.pc = "resolve"]
<1>1. RowsStep /\ disk' = disk /\ edits' = edits /\ raced' = raced
  BY RunUnchanged DEF Submit
<1>2. CASE Refuse(p)
  BY <1>1, <1>2, Refused
<1>3. CASE ~Refuse(p)
  <2>1. Runnable(inv, Selected(inv, selector)) /\ Goto(p, c)
    BY <1>3 DEF Submit
  <2>2. inv \in Inventory
    BY DEF FilesInv, TypeOK, Disk
  <2>3. /\ c \in Command
        /\ c.pc = "resolve" /\ c.exit = NoExit /\ c.resume = FALSE
        /\ c.id = p /\ c.selector = selector /\ c.inv = inv
    BY <2>2 DEF Idle, Command
  <2>4. cmd' = [cmd EXCEPT ![p] = c]
    BY <2>1 DEF Goto
  <2>5. disk.inventory = inv
    OBVIOUS
  <2> HIDE DEF c, inv
  <2>6. cmd'[p] = c
    BY <2>4 DEF FilesInv, TypeOK
  <2>7. run[p] = NoRun /\ run' = run
    BY CommandFacts DEF Submit, At, Unborn
  <2>8. (cmd[p].pc \in Unborn => run[p] = NoRun)'
    BY <2>7
  <2>9. Submitted(p)'
    BY <2>1, <2>2, <2>3, <2>6 DEF Submitted, Runnable, Selected
  <2>10. Resumed(p)' /\ Snapshot(p)' /\ Entitled(p)' /\ Same(p)'
    BY <1>1, <2>3, <2>5, <2>6
    DEF Resumed, Snapshot, Entitled, Same, Hashed, Claiming, Reusing
  <2> QED
    BY <1>1, <2>3, <2>4, <2>8, <2>9, <2>10, MovesOn DEF Working
<1> QED
  BY <1>2, <1>3

LEMMA ResumeMoves ==
  ASSUME FilesInv, NEW p \in Proc, NEW r \in Proc, Resume(p, r)
  PROVE  \E c : Moves(p, c)
<1> DEFINE c == [Idle EXCEPT !.resume = TRUE, !.id = r, !.pc = "resolve"]
<1>1. RowsStep /\ disk' = disk /\ edits' = edits /\ raced' = raced
  BY RunUnchanged DEF Resume
<1>2. CASE Refuse(p)
  BY <1>1, <1>2, Refused
<1>3. CASE ~Refuse(p)
  <2>1. Stale(run[r]) /\ Goto(p, c)
    BY <1>3 DEF Resume
  <2>2. /\ c \in Command
        /\ c.pc = "resolve" /\ c.exit = NoExit /\ c.resume = TRUE
        /\ c.id = r
    BY DEF Idle, Command
  <2>3. cmd' = [cmd EXCEPT ![p] = c]
    BY <2>1 DEF Goto
  <2> HIDE DEF c
  <2>4. cmd'[p] = c
    BY <2>3 DEF FilesInv, TypeOK
  <2>5. run[p] = NoRun /\ run' = run /\ run[r].status # "NONE"
    BY <2>1, CommandFacts DEF Resume, At, Unborn, Stale
  <2>6. (cmd[p].pc \in Unborn => run[p] = NoRun)'
    BY <2>5
  <2>7. /\ Submitted(p)' /\ Resumed(p)' /\ Snapshot(p)' /\ Entitled(p)'
        /\ Same(p)'
    BY <2>2, <2>4, <2>5
    DEF Submitted, Resumed, Snapshot, Reading, At, Entitled, Same, Hashed,
        Claiming, Reusing
  <2> QED
    BY <1>1, <2>2, <2>3, <2>6, <2>7, MovesOn DEF Working
<1> QED
  BY <1>2, <1>3

\* A resume that is given a script is given the one on record.
LEMMA ResolveMoves ==
  ASSUME FilesInv, NEW p \in Proc, Resolve(p)
  PROVE  \E c : Moves(p, c)
<1> DEFINE pc == IF cmd[p].resume THEN "load" ELSE "hash"
           script == disk.script
           c  == [cmd[p] EXCEPT !.script = script, !.pc = pc]
<1>1. RowsStep /\ disk' = disk /\ edits' = edits /\ raced' = raced
  BY RunUnchanged DEF Resolve
<1>2. CASE Refuse(p)
  BY <1>1, <1>2, Refused
<1>3. CASE ~Refuse(p)
  <2>1. disk.declared = disk.script /\ Wanted(p) /\ Goto(p, c)
    BY <1>3 DEF Resolve
  <2>2. /\ cmd[p] \in Command /\ cmd[p].pc = "resolve"
        /\ run[p] = NoRun /\ cmd[p].exit = NoExit
        /\ Submitted(p) /\ Resumed(p) /\ Snapshot(p)
    BY CommandFacts DEF Resolve, At, Unborn, Working
  <2>3. /\ script \in Script /\ script = disk.script
        /\ pc = IF cmd[p].resume THEN "load" ELSE "hash"
        /\ pc \in {"load", "hash"}
    BY DEF FilesInv, TypeOK, Disk
  <2> HIDE DEF pc, script
  <2>4. /\ c \in Command
        /\ c.pc = pc
        /\ c.resume = cmd[p].resume /\ c.id = cmd[p].id
        /\ c.selector = cmd[p].selector /\ c.inv = cmd[p].inv
        /\ c.script = script /\ c.exit = cmd[p].exit
    <3>1. /\ cmd[p] \in Command
          /\ pc \in {"load", "hash"} /\ script \in Script
      BY <2>2, <2>3
    <3>2. c \in Command
      BY <3>1 DEF Command
    <3> QED
      BY <3>1, <3>2 DEF Command
  <2>5. run' = run
    BY DEF Resolve
  <2>6. cmd' = [cmd EXCEPT ![p] = c] /\ run' = run
    BY <2>1, <2>5 DEF Goto, pc, script
  <2> HIDE DEF c
  <2>7. cmd'[p] = c
    BY <2>6 DEF FilesInv, TypeOK
  <2>8. (cmd[p].pc \in Unborn => run[p] = NoRun)'
    BY <2>2, <2>6
  <2>9. Submitted(p)'
    BY <2>2, <2>4, <2>7, <2>3
    DEF Submitted, Runnable, Selected, Working, Reusing
  <2>10. Resumed(p)'
    BY <2>1, <2>2, <2>4, <2>6, <2>7, <2>3 DEF Resumed, Working, Reusing, Wanted
  <2>11. Snapshot(p)' /\ Entitled(p)' /\ Same(p)'
    BY <1>1, <2>2, <2>4, <2>7, <2>3
    DEF Snapshot, Reading, At, Entitled, Same, Hashed, Claiming, Reusing
  <2>12. c.pc \in Working
    BY <2>4, <2>3 DEF Working
  <2> QED
    BY <1>1, <2>2, <2>4, <2>6, <2>8, <2>9, <2>10, <2>11, <2>12, MovesOn
<1> QED
  BY <1>2, <1>3

LEMMA LoadMoves ==
  ASSUME FilesInv, NEW p \in Proc, Load(p)
  PROVE  \E c : Moves(p, c)
<1> DEFINE c == [cmd[p] EXCEPT !.inv = disk.inventory, !.pc = "hash"]
<1>1. RowsStep /\ disk' = disk /\ edits' = edits /\ raced' = raced
  BY RunUnchanged DEF Load
<1>2. /\ cmd[p] \in Command /\ cmd[p].pc = "load"
      /\ run[p] = NoRun /\ cmd[p].exit = NoExit
      /\ Submitted(p) /\ Resumed(p)
  BY CommandFacts DEF Load, At, Unborn, Working
<1>3. disk.inventory \in Inventory
  BY DEF FilesInv, TypeOK, Disk
<1>4. /\ c \in Command /\ c.pc = "hash"
      /\ c.resume = cmd[p].resume /\ c.id = cmd[p].id
      /\ c.inv = disk.inventory
      /\ c.script = cmd[p].script /\ c.exit = cmd[p].exit
  BY <1>2, <1>3, ZenonT(60) DEF Command
<1>5. cmd' = [cmd EXCEPT ![p] = c] /\ run' = run
  BY DEF Goto, Load
<1> HIDE DEF c
<1>6. cmd'[p] = c /\ cmd[p].resume
  BY <1>2, <1>5 DEF FilesInv, TypeOK, Submitted, Working
<1>7. (cmd[p].pc \in Unborn => run[p] = NoRun)'
  BY <1>2, <1>5
<1>8. Submitted(p)' /\ Resumed(p)'
  BY <1>2, <1>3, <1>4, <1>5, <1>6 DEF Submitted, Resumed, Working, Reusing
<1>9. Snapshot(p)' /\ Entitled(p)' /\ Same(p)'
  BY <1>1, <1>4, <1>6
  DEF Snapshot, Reading, At, Entitled, Same, Hashed, Claiming, Reusing
<1> QED
  BY <1>1, <1>2, <1>4, <1>5, <1>7, <1>8, <1>9, MovesOn DEF Working

\* A command that has hashed is a command.
LEMMA CommandHashed ==
  ASSUME NEW c \in Command,
         NEW hash \in (Inventory \cup {None}) \X (Script \cup {None}),
         NEW pc \in {"claim", "create"}
  PROVE  [c EXCEPT !.hash = hash, !.pc = pc] \in Command
<1> DEFINE d == [c EXCEPT !.hash = hash]
<1>1. d \in Command
  BY DEF Command
<1> HIDE DEF d
<1>2. [d EXCEPT !.pc = pc] \in Command
  BY <1>1 DEF Command
<1> QED
  BY <1>2 DEF d

\* What a command hashes is what it loaded, unless it was raced; a resume
\* goes on if that is what is on record.
LEMMA HashConfigMoves ==
  ASSUME FilesInv, NEW p \in Proc, HashConfig(p)
  PROVE  \E c : Moves(p, c)
<1> DEFINE hash == <<disk.inventory, disk.script>>
           pc   == IF cmd[p].resume THEN "claim" ELSE "create"
           c    == [cmd[p] EXCEPT !.hash = hash, !.pc = pc]
<1>1. RowsStep /\ disk' = disk /\ edits' = edits /\ raced' = raced
  BY RunUnchanged DEF HashConfig
<1>2. CASE Refuse(p)
  BY <1>1, <1>2, Refused
<1>3. CASE ~Refuse(p)
  <2>1. (cmd[p].resume => Resumable(p, hash)) /\ Goto(p, c)
    BY <1>3 DEF HashConfig
  <2>2. /\ cmd[p] \in Command /\ cmd[p].pc = "hash"
        /\ run[p] = NoRun /\ cmd[p].exit = NoExit
        /\ Submitted(p) /\ Resumed(p)
        /\ raced \/ cmd[p].inv = disk.inventory
    BY CommandFacts DEF HashConfig, At, Unborn, Working, Snapshot, Reading
  <2>3. /\ hash \in (Inventory \cup {None}) \X (Script \cup {None})
        /\ hash[1] = disk.inventory
    BY DEF FilesInv, TypeOK, Disk
  <2>4. /\ pc = IF cmd[p].resume THEN "claim" ELSE "create"
        /\ pc \in {"claim", "create"}
    OBVIOUS
  <2>5. cmd' = [cmd EXCEPT ![p] = c] /\ run' = run
    BY <2>1 DEF Goto, HashConfig
  <2> HIDE DEF pc, hash
  <2>6. /\ c \in Command /\ c.pc = pc
        /\ c.resume = cmd[p].resume /\ c.id = cmd[p].id
        /\ c.selector = cmd[p].selector /\ c.inv = cmd[p].inv
        /\ c.script = cmd[p].script /\ c.hash = hash
        /\ c.exit = cmd[p].exit
    <3>1. c \in Command
      BY <2>2, <2>3, <2>4, CommandHashed
    <3> QED
      BY <2>2, <3>1 DEF Command
  <2> HIDE DEF c
  <2>7. cmd'[p] = c
    BY <2>5 DEF FilesInv, TypeOK
  <2>8. (cmd[p].pc \in Unborn => run[p] = NoRun)'
    BY <2>2, <2>5
  <2>9. Submitted(p)'
    BY <2>2, <2>4, <2>6, <2>7
    DEF Submitted, Runnable, Selected, Working, Reusing
  <2>10. Resumed(p)'
    BY <2>2, <2>4, <2>5, <2>6, <2>7 DEF Resumed, Working, Reusing
  <2>11. Snapshot(p)' /\ Same(p)'
    BY <1>1, <2>2, <2>3, <2>4, <2>6, <2>7
    DEF Snapshot, Reading, At, Same, Reusing
  <2>12. Entitled(p)'
    <3> SUFFICES ASSUME c.pc \in Claiming PROVE Entitled(p)'
      BY <2>7 DEF Entitled
    <3>1. cmd[p].resume
      BY <2>4, <2>6 DEF Claiming
    <3> DEFINE r == cmd[p].id
    <3>2. /\ r \in Proc /\ run[r].status # "NONE"
          /\ cmd[p].script = run[r].script
      BY <2>2, <3>1 DEF Resumed, Working
    <3>3. /\ hash = run[r].hash
          /\ Runnable(cmd[p].inv, run[r].targets)
      BY <2>1, <3>1 DEF Resumable, Unchanged
    <3>4. raced \/ cmd[p].inv = run[r].loaded
      BY <2>2, <2>3, <3>2, <3>3, RowFacts
    <3>5. Dispatched(p)' = run[r].targets
      BY <2>5, <2>6, <2>7, <3>1 DEF Dispatched
    <3>6. /\ cmd'[p].inv = cmd[p].inv /\ cmd'[p].id = r
          /\ cmd'[p].script = cmd[p].script
      BY <2>6, <2>7
    <3> HIDE DEF r
    <3> QED
      BY <1>1, <2>5, <3>2, <3>3, <3>4, <3>5, <3>6 DEF Entitled, Runnable
  <2>13. c.pc \in Working
    BY <2>4, <2>6 DEF Working
  <2> QED
    BY <1>1, <2>2, <2>5, <2>6, <2>8, <2>9, <2>10, <2>11, <2>12, <2>13,
       MovesOn
<1> QED
  BY <1>2, <1>3

\* create_run: the new row is the work of the submission that claims it; a
\* row that is reused has its parameters.
LEMMA CreateRunMoves ==
  ASSUME FilesInv, NEW p \in Proc, CreateRun(p)
  PROVE  \E c : Moves(p, c)
<1> DEFINE row == [NoRun EXCEPT !.status = "QUEUED", !.key = cmd[p].key,
                                !.selector = cmd[p].selector,
                                !.script = cmd[p].script,
                                !.hash = cmd[p].hash, !.loaded = cmd[p].inv,
                                !.targets = Selected(cmd[p].inv,
                                                     cmd[p].selector)]
           same == {r \in Proc : cmd[p].key # None
                                 /\ run[r].key = cmd[p].key}
           new  == [cmd[p] EXCEPT !.pc = "claim"]
<1>1. disk' = disk /\ edits' = edits /\ raced' = raced
  BY DEF CreateRun
<1>2. /\ cmd[p] \in Command /\ cmd[p].pc = "create"
      /\ run[p] = NoRun /\ cmd[p].exit = NoExit
      /\ Submitted(p) /\ Resumed(p) /\ Snapshot(p)
  BY CommandFacts DEF CreateRun, At, Unborn, Working
<1>3. /\ ~cmd[p].resume
      /\ cmd[p].inv \in Inventory /\ cmd[p].selector \in Selector
      /\ raced \/ cmd[p].hash[1] = cmd[p].inv
  BY <1>2 DEF Submitted, Resumed, Snapshot, Working, Hashed, Reusing
<1>4. CASE run' = [run EXCEPT ![p] = row] /\ Goto(p, new)
  <2>1. /\ new \in Command /\ new.pc = "claim"
        /\ new.resume = cmd[p].resume /\ new.id = cmd[p].id
        /\ new.selector = cmd[p].selector /\ new.inv = cmd[p].inv
        /\ new.script = cmd[p].script /\ new.hash = cmd[p].hash
        /\ new.exit = cmd[p].exit
    BY <1>2 DEF Command
  <2>2. cmd' = [cmd EXCEPT ![p] = new]
    BY <1>4 DEF Goto
  <2> HIDE DEF new
  <2>3. cmd'[p] = new
    BY <2>2 DEF FilesInv, TypeOK
  <2>4. cmd'[p] # cmd[p]
    BY <1>2, <2>1, <2>3
  <2>5. At(p, "create")
    BY DEF CreateRun
  <2>6. /\ RowsStep
        /\ run'[p] = row
        /\ cmd[p].id = p
        /\ Runnable(cmd[p].inv, Selected(cmd[p].inv, cmd[p].selector))
        /\ row.status = "QUEUED" /\ row.script = cmd[p].script
        /\ row.loaded = cmd[p].inv
        /\ row.targets = Selected(cmd[p].inv, cmd[p].selector)
    BY <1>1, <1>4, <2>4, <2>5, RowCreated
  <2> HIDE DEF row
  <2>7. (cmd[p].pc \in Unborn => run[p] = NoRun)' /\ Resumed(p)'
        /\ Snapshot(p)' /\ Same(p)'
    BY <1>1, <1>3, <2>1, <2>3
    DEF Unborn, Resumed, Snapshot, Reading, At, Same, Reusing
  <2>8. Submitted(p)'
    BY <1>3, <2>1, <2>3, <2>6 DEF Submitted, Runnable, Selected
  <2>9. Dispatched(p)' = run'[p].targets
    BY <1>3, <2>1, <2>3, <2>6 DEF Dispatched, Selected
  <2>10. Entitled(p)'
    BY <2>1, <2>3, <2>6, <2>9 DEF Entitled, Runnable, Selected
  <2> QED
    BY <1>1, <1>2, <2>1, <2>2, <2>6, <2>7, <2>8, <2>10, MovesOn DEF Working
<1>5. ASSUME NEW r \in same, run' = run,
             \/ /\ SameParams(cmd[p], run[r])
                /\ Goto(p, [cmd[p] EXCEPT !.pc = "reuse", !.id = r])
             \/ Refuse(p)
      PROVE  \E c : Moves(p, c)
  <2> DEFINE told == [cmd[p] EXCEPT !.pc = "reuse", !.id = r]
  <2>1. RowsStep
    BY <1>1, <1>5, RunUnchanged
  <2>2. CASE Refuse(p)
    BY <1>1, <2>1, <2>2, Refused
  <2>3. CASE SameParams(cmd[p], run[r]) /\ Goto(p, told)
    <3>1. r \in Proc /\ run[r].key # None
      OBVIOUS
    <3>2. run[r] # NoRun
      BY <3>1 DEF NoRun
    <3>3. run[r].status # "NONE"
      BY <3>1, <3>2 DEF FilesInv, RowInv
    <3>4. /\ told \in Command /\ told.pc = "reuse"
          /\ told.resume = cmd[p].resume /\ told.id = r
          /\ told.selector = cmd[p].selector /\ told.inv = cmd[p].inv
          /\ told.script = cmd[p].script /\ told.hash = cmd[p].hash
          /\ told.exit = cmd[p].exit
      BY <1>2, <3>1 DEF Command
    <3>5. cmd' = [cmd EXCEPT ![p] = told]
      BY <2>3 DEF Goto
    <3> HIDE DEF told, same
    <3>6. cmd'[p] = told
      BY <3>5 DEF FilesInv, TypeOK
    <3>7. (cmd[p].pc \in Unborn => run[p] = NoRun)' /\ Resumed(p)'
          /\ Snapshot(p)' /\ Entitled(p)'
      BY <1>1, <1>3, <3>4, <3>6
      DEF Unborn, Resumed, Snapshot, Reading, At, Entitled, Claiming
    <3>8. Submitted(p)'
      BY <1>2, <1>3, <3>4, <3>6
      DEF Submitted, Runnable, Selected, Working, Reusing
    <3>9. Same(p)'
      BY <1>5, <2>3, <3>1, <3>3, <3>4, <3>6 DEF Same, SameParams
    <3> QED
      BY <1>1, <1>2, <2>1, <3>4, <3>5, <3>7, <3>8, <3>9, MovesOn
      DEF Working
  <2> QED
    BY <1>5, <2>2, <2>3
<1> QED
  BY <1>4, <1>5 DEF CreateRun

\* _reused_run: a run that was seen to have ended has ended for good.
LEMMA ReuseStatusMoves ==
  ASSUME FilesInv, NEW p \in Proc, ReuseStatus(p)
  PROVE  \E c : Moves(p, c)
<1> DEFINE r == cmd[p].id
           c == [cmd[p] EXCEPT !.told = run[r].status, !.pc = "report"]
<1>1. RowsStep /\ disk' = disk /\ edits' = edits /\ raced' = raced
  BY RunUnchanged DEF ReuseStatus
<1>2. /\ cmd[p] \in Command /\ cmd[p].pc = "reuse" /\ cmd[p].exit = NoExit
      /\ Submitted(p) /\ Resumed(p) /\ Snapshot(p) /\ Same(p)
  BY CommandFacts DEF ReuseStatus, At, Working
<1>3. /\ r \in Proc /\ run[r].status # "NONE"
      /\ SameParams(cmd[p], run[r])
  BY <1>2 DEF Same, Reusing
<1>4. run[r].status \in {"NONE", "QUEUED", "RUNNING"} \cup Ended
  BY <1>3 DEF FilesInv, TypeOK, Row
<1>5. cmd' = [cmd EXCEPT ![p] = c] /\ run' = run
  BY DEF Goto, ReuseStatus
<1>6. /\ c \in Command /\ c.pc = "report" /\ c.told = run[r].status
      /\ c.resume = cmd[p].resume /\ c.id = r
      /\ c.selector = cmd[p].selector /\ c.inv = cmd[p].inv
      /\ c.script = cmd[p].script /\ c.hash = cmd[p].hash
      /\ c.exit = cmd[p].exit
  BY <1>2, <1>4, ZenonT(60) DEF Command
<1> HIDE DEF c, r
<1>7. cmd'[p] = c
  BY <1>5 DEF FilesInv, TypeOK
<1>8. /\ (cmd[p].pc \in Unborn => run[p] = NoRun)'
      /\ Resumed(p)' /\ Snapshot(p)' /\ Entitled(p)'
  BY <1>1, <1>2, <1>6, <1>7
  DEF Unborn, Resumed, Snapshot, Reading, At, Entitled, Claiming, Working,
      Reusing, Hashed
<1>9. Submitted(p)'
  BY <1>2, <1>6, <1>7 DEF Submitted, Runnable, Selected, Working, Reusing
<1>10. Same(p)'
  BY <1>3, <1>5, <1>6, <1>7 DEF Same, SameParams
<1> QED
  BY <1>1, <1>2, <1>5, <1>6, <1>8, <1>9, <1>10, MovesOn DEF Working

\* _reused_run: the code that is reported for a run is 0 for a success only,
\* also when the run ended after its status was read.
LEMMA ReuseReportMoves ==
  ASSUME FilesInv, NEW p \in Proc, ReuseReport(p)
  PROVE  \E c : Moves(p, c)
<1> DEFINE r    == cmd[p].id
           code == ReusedExit(cmd[p].told, run[r].exit)
<1>1. /\ RowsStep /\ run' = run
      /\ disk' = disk /\ edits' = edits /\ raced' = raced
  BY RunUnchanged DEF ReuseReport
<1>2. cmd[p].pc = "report" /\ Same(p)
  BY CommandFacts DEF ReuseReport, At
<1>3. /\ r \in Proc /\ run[r].status # "NONE"
      /\ cmd[p].told \in Ended => run[r].status = cmd[p].told
  BY <1>2 DEF Same, Reusing
<1>4. /\ run[r].exit \in {0, 1, NoExit}
      /\ run[r].exit # NoExit <=> run[r].status \in Ended
  BY <1>3, RowFacts DEF Row
<1>5. code \in {0, 1}
  BY <1>4 DEF ReusedExit
<1>6. code = 0 => run[r].exit = 0
  BY <1>3, <1>4 DEF ReusedExit, Ended
<1>7. Exit(p, code)
  BY DEF ReuseReport
<1> QED
  BY <1>1, <1>3, <1>5, <1>6, <1>7, Exited

\* start_run and resume_run
LEMMA ClaimMoves ==
  ASSUME FilesInv, NEW p \in Proc, Claim(p)
  PROVE  \E c : Moves(p, c)
<1> DEFINE r == cmd[p].id
           c == [cmd[p] EXCEPT !.pc = "execute"]
<1>1. disk' = disk /\ edits' = edits /\ raced' = raced
  BY DEF Claim
<1>2. /\ cmd[p] \in Command /\ cmd[p].pc = "claim" /\ cmd[p].exit = NoExit
      /\ Submitted(p) /\ Resumed(p) /\ Snapshot(p) /\ Entitled(p)
  BY CommandFacts DEF Claim, At, Working
<1>3. CASE ~Claimable(p, run[r])
  <2>1. Refuse(p) /\ run' = run
    BY <1>3 DEF Claim
  <2> QED
    BY <1>1, <2>1, RunUnchanged, Refused
<1>4. CASE Claimable(p, run[r])
  <2>1. /\ run' = [run EXCEPT ![r].status = "RUNNING", ![r].owner = p,
                              ![r].live = TRUE]
        /\ cmd' = [cmd EXCEPT ![p] = c]
    BY <1>4 DEF Claim, Goto
  <2>2. /\ r \in Proc /\ run[r].status # "NONE"
        /\ cmd[p].script = run[r].script
        /\ Dispatched(p) = run[r].targets
        /\ Runnable(cmd[p].inv, run[r].targets)
        /\ raced \/ cmd[p].inv = run[r].loaded
    BY <1>2 DEF Entitled, Claiming, Submitted, Resumed, Working, Reusing
  <2>3. run[r].status = "QUEUED" \/ Stale(run[r])
    BY <1>4 DEF Claimable
  <2>4. /\ c \in Command /\ c.pc = "execute"
        /\ c.resume = cmd[p].resume /\ c.id = r
        /\ c.selector = cmd[p].selector /\ c.inv = cmd[p].inv
        /\ c.script = cmd[p].script /\ c.hash = cmd[p].hash
        /\ c.exit = cmd[p].exit
    BY <1>2 DEF Command
  <2> HIDE DEF c, r
  <2>5. cmd'[p] = c
    BY <2>1 DEF FilesInv, TypeOK
  <2>6. RowsStep
    BY <1>1, <2>1, <2>2, <2>3, RowTaken
  <2>7. /\ run'[r].status # "NONE"
        /\ run'[r].script = run[r].script
        /\ run'[r].targets = run[r].targets
        /\ run'[r].loaded = run[r].loaded
    BY <2>2, <2>6 DEF RowsStep, RowStep, RowKept
  <2>8. /\ (cmd[p].pc \in Unborn => run[p] = NoRun)'
        /\ Snapshot(p)' /\ Same(p)'
    BY <1>1, <1>2, <2>4, <2>5
    DEF Unborn, Snapshot, Reading, At, Same, Hashed, Reusing
  <2>9. Submitted(p)'
    BY <1>2, <2>4, <2>5 DEF Submitted, Runnable, Selected, Working, Reusing, r
  <2>10. Resumed(p)'
    BY <1>2, <2>2, <2>4, <2>5, <2>7 DEF Resumed, Working, Reusing
  <2>11. Dispatched(p)' = run'[r].targets
    BY <2>2, <2>4, <2>5, <2>7 DEF Dispatched, Selected, r
  <2>12. Entitled(p)'
    BY <1>1, <2>2, <2>4, <2>5, <2>7, <2>11 DEF Entitled, Runnable
  <2> QED
    BY <1>1, <1>2, <2>1, <2>4, <2>6, <2>8, <2>9, <2>10, <2>12, MovesOn
    DEF Working
<1> QED
  BY <1>3, <1>4

LEMMA FinishMoves ==
  ASSUME FilesInv, NEW p \in Proc, Finish(p)
  PROVE  \E c : Moves(p, c)
<1> DEFINE r == cmd[p].id
<1>1. disk' = disk /\ edits' = edits /\ raced' = raced
  BY DEF Finish
<1>2. r \in Proc
  BY CommandFacts
  DEF Finish, At, Submitted, Resumed, Working, Reusing
<1>3. CASE Refuse(p) /\ run' = run
  BY <1>1, <1>3, RunUnchanged, Refused
<1>4. ASSUME NEW status \in Ended, NEW code \in {0, 1},
             Holds(p, run[r]), status = "DEGRADED" => code = 1,
             run' = [run EXCEPT ![r].status = status, ![r].exit = code],
             Exit(p, code)
      PROVE  \E c : Moves(p, c)
  <2>1. RowsStep /\ run'[r].exit = code
    BY <1>1, <1>2, <1>4, RowEnds
  <2> QED
    BY <1>1, <1>2, <1>4, <2>1, Exited
<1> QED
  BY <1>3, <1>4 DEF Finish

LEMMA CrashMoves ==
  ASSUME FilesInv, NEW p \in Proc, Crash(p)
  PROVE  \E c : Moves(p, c)
<1> DEFINE c == [Idle EXCEPT !.pc = "dead"]
<1>1. RowsStep /\ disk' = disk /\ edits' = edits /\ raced' = raced
  BY RunUnchanged DEF Crash
<1>2. c \in Command /\ c.pc = "dead" /\ c.exit = NoExit
  BY DEF Idle, Command
<1>3. cmd' = [cmd EXCEPT ![p] = c]
  BY DEF Crash, Goto
<1> HIDE DEF c
<1>4. NoExit # 0
  BY DEF NoExit
<1> QED
  BY <1>1, <1>2, <1>3, <1>4, GoneMoves

------------------------------------------------------------------------------
\* Hosts.

\* What was on record stays on record.
LEMMA ContactKept ==
  ASSUME FilesInv, RowsStep, NEW c \in contacts
  PROVE  ContactInv(c)'
<1>1. ContactInv(c)
  BY DEF FilesInv
<1>2. RowKept(c.run) /\ (raced => raced')
  BY <1>1 DEF ContactInv, RowsStep, RowStep
<1> QED
  BY <1>1, <1>2 DEF ContactInv, RowKept

\* Whoever executes a run reaches a node of its record, at the address its
\* creator went by, with the script on record.
LEMMA ReachOnRecord ==
  ASSUME FilesInv, NEW p \in Proc, Reach(p)
  PROVE  FilesInv' /\ RowsStep
<1>1. /\ UNCHANGED <<disk, edits, raced, run, cmd>>
      /\ cmd[p].pc = "execute"
      /\ disk.script = cmd[p].script
  BY DEF Reach, At, Verified
<1>2. RowsStep
  BY <1>1, RunUnchanged
<1>3. PICK n \in Dispatched(p) :
        contacts' = contacts \cup
          {[run |-> cmd[p].id, node |-> n, address |-> cmd[p].inv[n],
            script |-> disk.script]}
  BY DEF Reach
<1>4. /\ cmd[p].id \in Proc
      /\ run[cmd[p].id].status # "NONE"
      /\ cmd[p].script = run[cmd[p].id].script
      /\ Dispatched(p) = run[cmd[p].id].targets
      /\ Runnable(cmd[p].inv, run[cmd[p].id].targets)
      /\ raced \/ cmd[p].inv = run[cmd[p].id].loaded
  BY <1>1, CommandFacts
  DEF Entitled, Claiming, Submitted, Resumed, Working, Reusing
<1>5. cmd[p].inv[n] # Bastion
  BY <1>3, <1>4 DEF Runnable
<1>6. ASSUME NEW c \in contacts' PROVE ContactInv(c)'
  <2>1. CASE c \in contacts
    BY <1>2, <2>1, ContactKept
  <2>2. CASE c = [run |-> cmd[p].id, node |-> n,
                  address |-> cmd[p].inv[n], script |-> disk.script]
    BY <1>1, <1>3, <1>4, <1>5, <2>2 DEF ContactInv
  <2> QED
    BY <1>3, <2>1, <2>2
<1>7. TypeOK'
  BY <1>1 DEF FilesInv, TypeOK, At, Disk, Row, Command
<1>8. \A q \in Proc : CommandInv(q)'
  BY <1>1, <1>2, Bystander
<1> QED
  BY <1>2, <1>6, <1>7, <1>8 DEF FilesInv, RowsStep, RowStep

------------------------------------------------------------------------------
\* The invariant.

LEMMA FilesInvInit ==
  ASSUME Init
  PROVE  FilesInv
<1>1. TypeOK
  <2>1. NoRun \in Row
    BY DEF NoRun, Row
  <2>2. Idle \in Command
    BY DEF Idle, Command
  <2>3. disk \in Disk /\ edits \in 0..MaxEdits /\ raced \in BOOLEAN
    <3>1. disk \in Disk
      BY DEF Init
    <3>2. edits \in 0..MaxEdits
      BY CommandAssumption DEF Init
    <3>3. raced \in BOOLEAN
      BY DEF Init
    <3> QED
      BY <3>1, <3>2, <3>3
  <2>4. \A p \in Proc : ~At(p, "exited")
    BY DEF Init, At, Idle
  <2> QED
    BY <2>1, <2>2, <2>3, <2>4 DEF Init, TypeOK
<1>2. \A r \in Proc : RowInv(r)
  BY DEF Init, RowInv
<1>3. ASSUME NEW p \in Proc PROVE CommandInv(p)
  <2>1. cmd[p].pc = "idle" /\ cmd[p].exit = NoExit /\ run[p] = NoRun
    BY DEF Init, Idle
  <2> QED
    BY <2>1
    DEF CommandInv, Submitted, Resumed, Snapshot, Reading, At, Entitled,
        Same, Told, Working, Hashed, Claiming, Reusing, NoExit
<1>4. contacts = {}
  BY DEF Init
<1> QED
  BY <1>1, <1>2, <1>3, <1>4 DEF FilesInv

\* A step of a command, in which no host is reached.
LEMMA CommandStep ==
  ASSUME FilesInv, NEW p \in Proc, NEW c, Moves(p, c), contacts' = contacts
  PROVE  FilesInv' /\ RowsStep
<1>1. RowsStep
  BY DEF Moves
<1>2. TypeOK' /\ \A q \in Proc : CommandInv(q)'
  BY MoverKeeps
<1>3. \A d \in contacts' : ContactInv(d)'
  BY <1>1, ContactKept
<1> QED
  BY <1>1, <1>2, <1>3 DEF FilesInv, RowsStep, RowStep

\* An edit does no harm to who has hashed, and is noticed by who has not.
LEMMA EditStep ==
  ASSUME FilesInv, Edit
  PROVE  FilesInv' /\ RowsStep
<1>1. /\ edits' = edits + 1 /\ edits < MaxEdits
      /\ run' = run /\ cmd' = cmd /\ contacts' = contacts
  BY DEF Edit
<1>2. /\ disk' \in Disk /\ raced' \in BOOLEAN
      /\ raced => raced'
      /\ \/ disk'.inventory = disk.inventory
         \/ \A q \in Proc : Reading(q) => raced'
  BY DEF Edit, FilesInv, TypeOK
<1>3. RowsStep
  BY <1>1, <1>2, RunUnchanged
<1>4. ASSUME NEW q \in Proc PROVE CommandInv(q)'
  BY <1>1, <1>2, <1>3, Bystander
<1>5. TypeOK'
  BY <1>1, <1>2, CommandAssumption
  DEF FilesInv, TypeOK, At, Row, Command, Disk
<1>6. \A d \in contacts' : ContactInv(d)'
  BY <1>1, <1>3, ContactKept
<1> QED
  BY <1>3, <1>4, <1>5, <1>6 DEF FilesInv, RowsStep, RowStep

LEMMA FilesInvStep ==
  ASSUME FilesInv, [Next]_vars
  PROVE  FilesInv' /\ RowsStep
<1>1. ASSUME NEW p \in Proc, NEW key \in Key \cup {None},
             NEW selector \in Selector, Submit(p, key, selector)
      PROVE  FilesInv' /\ RowsStep
  BY <1>1, SubmitMoves, CommandStep DEF Submit
<1>2. ASSUME NEW p \in Proc, NEW r \in Proc, Resume(p, r)
      PROVE  FilesInv' /\ RowsStep
  BY <1>2, ResumeMoves, CommandStep DEF Resume
<1>3. ASSUME NEW p \in Proc, Resolve(p) PROVE FilesInv' /\ RowsStep
  BY <1>3, ResolveMoves, CommandStep DEF Resolve
<1>4. ASSUME NEW p \in Proc, Load(p) PROVE FilesInv' /\ RowsStep
  BY <1>4, LoadMoves, CommandStep DEF Load
<1>5. ASSUME NEW p \in Proc, HashConfig(p) PROVE FilesInv' /\ RowsStep
  BY <1>5, HashConfigMoves, CommandStep DEF HashConfig
<1>6. ASSUME NEW p \in Proc, CreateRun(p) PROVE FilesInv' /\ RowsStep
  BY <1>6, CreateRunMoves, CommandStep DEF CreateRun
<1>7. ASSUME NEW p \in Proc, ReuseStatus(p) PROVE FilesInv' /\ RowsStep
  BY <1>7, ReuseStatusMoves, CommandStep DEF ReuseStatus
<1>8. ASSUME NEW p \in Proc, ReuseReport(p) PROVE FilesInv' /\ RowsStep
  BY <1>8, ReuseReportMoves, CommandStep DEF ReuseReport
<1>9. ASSUME NEW p \in Proc, Claim(p) PROVE FilesInv' /\ RowsStep
  BY <1>9, ClaimMoves, CommandStep DEF Claim
<1>10. ASSUME NEW p \in Proc, Finish(p) PROVE FilesInv' /\ RowsStep
  BY <1>10, FinishMoves, CommandStep DEF Finish
<1>11. ASSUME NEW p \in Proc, Crash(p) PROVE FilesInv' /\ RowsStep
  BY <1>11, CrashMoves, CommandStep DEF Crash
<1>12. ASSUME NEW p \in Proc, Lapse(p) PROVE FilesInv' /\ RowsStep
  <2>1. RowsStep
    BY <1>12, RowLapses
  <2>2. UNCHANGED <<disk, edits, raced, cmd, contacts>>
    BY <1>12 DEF Lapse
  <2>3. \A q \in Proc : CommandInv(q)'
    BY <2>1, <2>2, Bystander
  <2>4. \A d \in contacts' : ContactInv(d)'
    BY <2>1, <2>2, ContactKept
  <2>5. run' \in [Proc -> Row]
    BY <2>1 DEF RowsStep, RowStep
  <2>6. TypeOK'
    BY <2>2, <2>5 DEF FilesInv, TypeOK, At, Row, Command, Disk
  <2> QED
    BY <2>1, <2>3, <2>4, <2>6 DEF FilesInv, RowsStep, RowStep
<1>13. CASE UNCHANGED vars
  <2>1. /\ disk' = disk /\ edits' = edits /\ raced' = raced /\ run' = run
        /\ cmd' = cmd /\ contacts' = contacts
    BY <1>13 DEF vars
  <2>2. RowsStep
    BY <2>1, RunUnchanged
  <2>3. \A q \in Proc : CommandInv(q)'
    BY <2>1, <2>2, Bystander
  <2>4. \A d \in contacts' : ContactInv(d)'
    BY <2>1, <2>2, ContactKept
  <2>5. TypeOK'
    BY <2>1 DEF FilesInv, TypeOK, At, Row, Command, Disk
  <2> QED
    BY <2>2, <2>3, <2>4, <2>5 DEF FilesInv, RowsStep, RowStep
<1> QED
  BY <1>1, <1>2, <1>3, <1>4, <1>5, <1>6, <1>7, <1>8, <1>9, <1>10, <1>11,
     <1>12, <1>13, ReachOnRecord, EditStep
  DEF Next, Invoke, Step

\* What each command may rely on, in every reachable state.
THEOREM FilesInvariant == Spec => []FilesInv
<1>1. Init => FilesInv
  BY FilesInvInit
<1>2. FilesInv /\ [Next]_vars => FilesInv'
  BY FilesInvStep
<1> QED
  BY <1>1, <1>2, PTL DEF Spec

\* The rows, the files and the commands have their types; a command that has
\* exited has an exit code.
THEOREM CommandTypes == Spec => []TypeOK
<1>1. FilesInv => TypeOK
  BY DEF FilesInv
<1> QED
  BY <1>1, FilesInvariant, PTL

\* Whoever executes a run, by a first command or a resume, and whatever
\* happens to the files: hosts see the work on record and no other.
THEOREM HostsSeeTheRecord == Spec => []ContactsOnRecord
<1>1. FilesInv => ContactsOnRecord
  BY DEF FilesInv, ContactInv, ContactsOnRecord, SameHost, RecordedScript,
         OnlyTargets
<1> QED
  BY <1>1, FilesInvariant, PTL

\* Comparing the hashes of what create_run is given with those of the row is
\* as good as comparing what was loaded, unless the inventory changed
\* meanwhile.
THEOREM ReuseIsSameWork == Spec => []ReuseSameWork
<1>1. ASSUME FilesInv, NEW p \in Proc, At(p, "reuse") \/ At(p, "report")
      PROVE  LET r       == cmd[p].id
                 targets == Selected(cmd[p].inv, cmd[p].selector)
             IN /\ cmd[p].script = run[r].script
                /\ raced \/ /\ targets = run[r].targets
                            /\ \A n \in targets :
                                 cmd[p].inv[n] = run[r].loaded[n]
  <2>1. cmd[p].pc \in Reusing /\ cmd[p].pc \in Hashed
    BY <1>1 DEF At, Reusing, Hashed
  <2>2. /\ cmd[p].id \in Proc /\ run[cmd[p].id].status # "NONE"
        /\ SameParams(cmd[p], run[cmd[p].id])
        /\ raced \/ cmd[p].hash[1] = cmd[p].inv
    BY <1>1, <2>1, CommandFacts DEF Same, Snapshot
  <2>3. /\ run[cmd[p].id].targets = Selected(run[cmd[p].id].loaded,
                                             run[cmd[p].id].selector)
        /\ raced \/ run[cmd[p].id].hash[1] = run[cmd[p].id].loaded
    BY <1>1, <2>2, RowFacts
  <2> QED
    BY <2>2, <2>3 DEF SameParams
<1>2. FilesInv => ReuseSameWork
  BY <1>1 DEF ReuseSameWork
<1> QED
  BY <1>2, FilesInvariant, PTL

\* Exit code 0 of a command, be it the executor of a run or a submission that
\* found it already there, is the exit code of the run.
THEOREM ZeroIsTruthful == Spec => []ExitZeroTruthful
<1>1. FilesInv => ExitZeroTruthful
  BY DEF FilesInv, CommandInv, Told, ExitZeroTruthful
<1> QED
  BY <1>1, FilesInvariant, PTL

\* Each row lives the life of RunLife: the transactions of all the commands
\* together implement it, for one run as for any other.
THEOREM RowsImplementLife == Spec => ImplementsLife
<1>1. Init => \A r \in Proc : Life(r)!Init
  <2> SUFFICES ASSUME Init, NEW r \in Proc PROVE Life(r)!Init
    OBVIOUS
  <2>1. /\ run[r].status = "NONE" /\ run[r].owner = None
        /\ run[r].live = FALSE /\ run[r].exit = 99
    BY DEF Init, NoRun, NoExit
  <2> QED
    BY <2>1 DEF Life!Init, Life!NoExit
<1>2. FilesInv /\ [Next]_vars =>
        [\A r \in Proc : Life(r)!Next \/ UNCHANGED Life(r)!lifeVars]_vars
  BY FilesInvStep DEF RowsStep, RowStep, LifeStep
<1> QED
  BY <1>1, <1>2, FilesInvariant, PTL DEF Spec, ImplementsLife
=============================================================================
