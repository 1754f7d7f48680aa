------------------------------ MODULE RunCommand ------------------------------
(***************************************************************************)
(* `wft run` and `wft run --resume`: from the files on disk to a row of    *)
(* the runs table, and from that row back to the hosts.  A command reads   *)
(* the files one after the other and meets the other commands in the       *)
(* database only; the files may be edited meanwhile.                       *)
(*                                                                         *)
(* Abstractions.  The hash of a file is its content.  An inventory maps    *)
(* the nodes it defines and enables to where they are reached; a selector  *)
(* is the set of nodes its groups and tags pick.  A registry holds one     *)
(* entry, of which only the version it declares is kept.  The id of a run  *)
(* is the process that minted it.  What execute_run does between claim and *)
(* summary is in BatchRun; here it reaches targets and ends the run.       *)
(***************************************************************************)
EXTENDS Naturals

CONSTANTS Proc,        \* commands; also run ids and lease owners
          Key,         \* idempotency keys
          Inventory,   \* contents of the inventory file
          Bastion,     \* an address that routes through a bastion
          Selector,    \* sets of nodes
          Script,      \* versions of the script
          None,        \* NULL, or nothing read yet
          MaxEdits     \* bound: edits of the files

ASSUME CommandAssumption ==
  /\ None \notin Proc \cup Key \cup Script
  /\ MaxEdits \in Nat

VARIABLES
  disk,      \* the files: inventory, script, and what the registry declares
  edits,     \* how often they were edited
  raced,     \* as a history: has the inventory ever changed between the two
             \* reads of one command?
  run,       \* rows of runs with their batch_summaries, by run id; as a
             \* history, loaded is the inventory its creator went by
  cmd,       \* the commands
  contacts   \* which node was reached for which run, where and with what

vars == <<disk, edits, raced, run, cmd, contacts>>

Ended  == {"SUCCESS", "DEGRADED"}
NoExit == 99

Disk == [inventory : Inventory, script : Script,
         declared : Script \cup {None}]

NoRun == [status |-> "NONE", owner |-> None, live |-> FALSE, exit |-> NoExit,
          key |-> None, selector |-> None, script |-> None,
          hash |-> <<None, None>>, targets |-> {}, loaded |-> None]

Idle == [pc |-> "idle", resume |-> FALSE, id |-> None, key |-> None,
         selector |-> None, inv |-> None, script |-> None,
         hash |-> <<None, None>>, told |-> "NONE", exit |-> NoExit]

Init ==
  /\ disk \in {d \in Disk : d.declared = d.script}
  /\ edits = 0
  /\ raced = FALSE
  /\ run = [r \in Proc |-> NoRun]
  /\ cmd = [p \in Proc |-> Idle]
  /\ contacts = {}

------------------------------------------------------------------------------
\* Helpers.

At(p, pc)  == cmd[p].pc = pc
Goto(p, c) == cmd' = [cmd EXCEPT ![p] = c]

\* The process is gone; of the command only what it reported remains.
Exit(p, code) == Goto(p, [Idle EXCEPT !.pc = "exited", !.exit = code,
                                      !.id = cmd[p].id])

\* Any error that is raised becomes exit code 2.
Refuse(p) == Goto(p, [Idle EXCEPT !.pc = "exited", !.exit = 2])

Selected(inv, selector) == DOMAIN inv \cap selector

\* require_targets and _reject_bastion
Runnable(inv, targets) ==
  targets # {} /\ \A n \in targets : inv[n] # Bastion

\* is_resume_eligible, and the CAS of resume_run
Stale(row) == row.status = "RUNNING" /\ ~row.live

\* Mutant: the expiry of the lease is not looked at.
HoldsExpired(p, row) == row.status = "RUNNING" /\ row.owner = p

\* The fence of finalize_run
Holds(p, row) == row.status = "RUNNING" /\ row.owner = p /\ row.live

\* Mutant: the snapshot of the configuration is not part of the identity.
SameParamsWithoutHash(c, row) ==
  c.selector = row.selector /\ c.script = row.script

\* What an idempotency key stands for: _param_json leaves out the run id and
\* the time of the request.
SameParams(c, row) ==
  c.selector = row.selector /\ c.script = row.script /\ c.hash = row.hash

------------------------------------------------------------------------------
\* A new run, in the order of _run; a resume, in the order of _resume.

\* _run: the inventory is loaded first.
Submit(p, key, selector) ==
  /\ At(p, "idle")
  /\ LET inv == disk.inventory
         c   == [Idle EXCEPT !.id = p, !.key = key, !.selector = selector,
                             !.inv = inv]
     IN IF Runnable(inv, Selected(inv, selector))
        THEN Goto(p, [c EXCEPT !.pc = "resolve"])
        ELSE Refuse(p)
  /\ UNCHANGED <<disk, edits, raced, run, contacts>>

\* _resume: the row is read first, in a transaction of its own.
Resume(p, r) ==
  /\ At(p, "idle")
  /\ LET c == [Idle EXCEPT !.resume = TRUE, !.id = r]
     IN IF Stale(run[r])
        THEN Goto(p, [c EXCEPT !.pc = "resolve"])
        ELSE Refuse(p)
  /\ UNCHANGED <<disk, edits, raced, run, contacts>>

\* A resume asks for the recorded version and no other.
Wanted(p) == cmd[p].resume => disk.declared = run[cmd[p].id].script

\* The registry is read, which hashes the script file and compares.
Resolve(p) ==
  /\ At(p, "resolve")
  /\ IF disk.declared = disk.script /\ Wanted(p)
     THEN Goto(p, [cmd[p] EXCEPT
                     !.script = disk.script,
                     !.pc = IF cmd[p].resume THEN "load" ELSE "hash"])
     ELSE Refuse(p)
  /\ UNCHANGED <<disk, edits, raced, run, contacts>>

\* A resume loads the inventory that the run names.
Load(p) ==
  /\ At(p, "load")
  /\ Goto(p, [cmd[p] EXCEPT !.inv = disk.inventory, !.pc = "hash"])
  /\ UNCHANGED <<disk, edits, raced, run, contacts>>

\* Mutant: a resume does not compare the snapshots.
UnchangedUnread(p, hash) == TRUE

\* The comparison that guards a resume.
Unchanged(p, hash) == hash = run[cmd[p].id].hash

\* The nodes a resume executes are the checkpoints of the run, all of which
\* the loaded inventory must still define.
Resumable(p, hash) ==
  LET targets == run[cmd[p].id].targets
  IN /\ Unchanged(p, hash)
     /\ targets \subseteq DOMAIN cmd[p].inv
     /\ Runnable(cmd[p].inv, targets)

\* _config_snapshot_hash reads both files again.
HashConfig(p) ==
  /\ At(p, "hash")
  /\ LET hash == <<disk.inventory, disk.script>>
     IN IF cmd[p].resume /\ ~Resumable(p, hash)
        THEN Refuse(p)
        ELSE Goto(p, [cmd[p] EXCEPT
                        !.hash = hash,
                        !.pc = IF cmd[p].resume THEN "claim" ELSE "create"])
  /\ UNCHANGED <<disk, edits, raced, run, contacts>>

\* create_run, one transaction: reuse, refuse or insert.
CreateRun(p) ==
  /\ At(p, "create")
  /\ LET c    == cmd[p]
         same == {r \in Proc : c.key # None /\ run[r].key = c.key}
         row  == [NoRun EXCEPT !.status = "QUEUED", !.key = c.key,
                               !.selector = c.selector, !.script = c.script,
                               !.hash = c.hash, !.loaded = c.inv,
                               !.targets = Selected(c.inv, c.selector)]
     IN \/ /\ same = {}
           /\ run' = [run EXCEPT ![p] = row]
           /\ Goto(p, [c EXCEPT !.pc = "claim"])
        \/ \E r \in same :
             /\ IF SameParams(c, run[r])
                THEN Goto(p, [c EXCEPT !.pc = "reuse", !.id = r])
                ELSE Refuse(p)
             /\ UNCHANGED run
  /\ UNCHANGED <<disk, edits, raced, contacts>>

\* _reused_run, first transaction: the status that will be printed.
ReuseStatus(p) ==
  /\ At(p, "reuse")
  /\ Goto(p, [cmd[p] EXCEPT !.told = run[cmd[p].id].status, !.pc = "report"])
  /\ UNCHANGED <<disk, edits, raced, run, contacts>>

\* Mutant: the exit code follows from the status of the run.
ReusedExitOfStatus(told, exit) == IF told = "SUCCESS" THEN 0 ELSE 1

\* Mutant: the summary is taken to be there.
ReusedExitOfSummary(told, exit) == exit

\* The stored exit code counts; without a summary, the status that was read.
ReusedExit(told, exit) ==
  IF exit # NoExit THEN exit ELSE IF told = "SUCCESS" THEN 0 ELSE 1

\* _reused_run, second transaction: the summary, and the exit code.
ReuseReport(p) ==
  /\ At(p, "report")
  /\ Exit(p, ReusedExit(cmd[p].told, run[cmd[p].id].exit))
  /\ UNCHANGED <<disk, edits, raced, run, contacts>>

------------------------------------------------------------------------------
\* execute_run, as far as the run as a whole is concerned.

Claimable(p, row) ==
  IF cmd[p].resume THEN Stale(row) ELSE row.status = "QUEUED"

\* start_run and resume_run
Claim(p) ==
  /\ At(p, "claim")
  /\ LET r == cmd[p].id
     IN IF Claimable(p, run[r])
        THEN /\ run' = [run EXCEPT ![r].status = "RUNNING", ![r].owner = p,
                                   ![r].live = TRUE]
             /\ Goto(p, [cmd[p] EXCEPT !.pc = "execute"])
        ELSE Refuse(p) /\ UNCHANGED run
  /\ UNCHANGED <<disk, edits, raced, contacts>>

\* Mutant: the uploaded file is not verified.
VerifiedNot(p) == TRUE

\* The script is read again for every upload; the host then compares the hash.
Verified(p) == disk.script = cmd[p].script

\* Mutant: a resume selects its nodes from the inventory again.
DispatchedAgain(p) == Selected(cmd[p].inv, run[cmd[p].id].selector)

\* The nodes given to execute_run: the selection, or the recorded checkpoints.
Dispatched(p) ==
  IF cmd[p].resume THEN run[cmd[p].id].targets
  ELSE Selected(cmd[p].inv, cmd[p].selector)

\* A target is reached and runs the script.
Reach(p) ==
  /\ At(p, "execute")
  /\ Verified(p)
  /\ \E n \in Dispatched(p) :
       contacts' = contacts \cup
         {[run |-> cmd[p].id, node |-> n, address |-> cmd[p].inv[n],
           script |-> disk.script]}
  /\ UNCHANGED <<disk, edits, raced, run, cmd>>

\* finalize_run, or the loss of the lease; also a run that is left RUNNING
\* with a blocked node or an exception.
Finish(p) ==
  /\ At(p, "execute")
  /\ LET r == cmd[p].id
     IN \/ /\ Holds(p, run[r])
           /\ \E status \in Ended, code \in {0, 1} :
                /\ status = "DEGRADED" => code = 1
                /\ run' = [run EXCEPT ![r].status = status, ![r].exit = code]
                /\ Exit(p, code)
        \/ Refuse(p) /\ UNCHANGED run
  /\ UNCHANGED <<disk, edits, raced, contacts>>

------------------------------------------------------------------------------
\* The environment.

\* The lease of a run is not renewed in time.
Lapse(r) ==
  /\ run[r].status = "RUNNING" /\ run[r].live
  /\ run' = [run EXCEPT ![r].live = FALSE]
  /\ UNCHANGED <<disk, edits, raced, cmd, contacts>>

\* kill -9
Crash(p) ==
  /\ ~At(p, "idle") /\ ~At(p, "exited") /\ ~At(p, "dead")
  /\ Goto(p, [Idle EXCEPT !.pc = "dead"])
  /\ UNCHANGED <<disk, edits, raced, run, contacts>>

\* Has a command loaded the inventory and not hashed it yet?
Reading(p) == At(p, "hash") \/ (At(p, "resolve") /\ ~cmd[p].resume)

Edit ==
  /\ edits < MaxEdits
  /\ edits' = edits + 1
  /\ \E d \in Disk \ {disk} :
       /\ disk' = d
       /\ raced' = (raced \/ (/\ d.inventory # disk.inventory
                             /\ \E p \in Proc : Reading(p)))
  /\ UNCHANGED <<run, cmd, contacts>>

Step(p) ==
  \/ Resolve(p)
  \/ Load(p)
  \/ HashConfig(p)
  \/ CreateRun(p)
  \/ ReuseStatus(p)
  \/ ReuseReport(p)
  \/ Claim(p)
  \/ Finish(p)

Invoke(p) ==
  \/ \E key \in Key \cup {None}, selector \in Selector :
       Submit(p, key, selector)
  \/ \E r \in Proc : Resume(p, r)

Next ==
  \/ \E p \in Proc :
       \/ Invoke(p)
       \/ Step(p)
       \/ Reach(p)
       \/ Crash(p)
       \/ Lapse(p)
  \/ Edit

Spec == Init /\ [][Next]_vars

\* Commands end, and an operator submits and resumes whatever can be.
FairSpec ==
  /\ Spec
  /\ \A p \in Proc : WF_vars(Step(p)) /\ WF_vars(Invoke(p))

------------------------------------------------------------------------------
\* Correctness.

Command ==
  [pc : {"idle", "resolve", "load", "hash", "create", "reuse", "report",
         "claim", "execute", "exited", "dead"},
   resume : BOOLEAN, id : Proc \cup {None}, key : Key \cup {None},
   selector : Selector \cup {None}, inv : Inventory \cup {None},
   script : Script \cup {None},
   hash : (Inventory \cup {None}) \X (Script \cup {None}),
   told : {"NONE", "QUEUED", "RUNNING"} \cup Ended,
   exit : {0, 1, 2, NoExit}]

Row ==
  [status : {"NONE", "QUEUED", "RUNNING"} \cup Ended,
   owner : Proc \cup {None}, live : BOOLEAN, exit : {0, 1, NoExit},
   key : Key \cup {None}, selector : Selector \cup {None},
   script : Script \cup {None},
   hash : (Inventory \cup {None}) \X (Script \cup {None}),
   targets : SUBSET UNION {DOMAIN inv : inv \in Inventory},
   loaded : Inventory \cup {None}]

\* The rows and the commands have their types; who has exited has a code.
TypeOK ==
  /\ disk \in Disk
  /\ edits \in 0..MaxEdits /\ raced \in BOOLEAN
  /\ run \in [Proc -> Row]
  /\ cmd \in [Proc -> Command]
  /\ \A p \in Proc : At(p, "exited") => cmd[p].exit # NoExit

\* A submission that is told of an existing run would have run the same nodes
\* at the same addresses with the same script as the command that created it:
\* comparing hashes is as good as comparing what was loaded, unless the
\* inventory changed while a command was reading it.
ReuseSameWork ==
  \A p \in Proc :
    At(p, "reuse") \/ At(p, "report") =>
      LET r       == cmd[p].id
          targets == Selected(cmd[p].inv, cmd[p].selector)
      IN /\ cmd[p].script = run[r].script
         /\ raced \/ /\ targets = run[r].targets
                     /\ \A n \in targets : cmd[p].inv[n] = run[r].loaded[n]

\* "Resume only applies to the exact config the original run executed":
\* whoever executes a run, the first command or a resume, reaches each of its
\* nodes at one and the same address, under the same condition.
SameHost ==
  ~raced =>
    \A c, d \in contacts : c.run = d.run /\ c.node = d.node =>
                             c.address = d.address

\* Whoever executes a run and whatever happens to the files, hosts only ever
\* run the version of the script that the run has on record.
RecordedScript == \A c \in contacts : c.script = run[c.run].script

\* Whoever executes a run and whatever happens to the files, only the nodes
\* that were recorded when the run was created are reached, none of them
\* through a bastion.
OnlyTargets ==
  \A c \in contacts : c.node \in run[c.run].targets /\ c.address # Bastion

\* Whatever commands and editors do meanwhile, the hosts see the work that the
\* record of the run stands for, and no other: its script, on its nodes, each at
\* one address, the last under the condition of SameHost.
ContactsOnRecord == SameHost /\ RecordedScript /\ OnlyTargets

\* Exit code 0 means that the summary of the run is a success, also when the
\* run is reused and ends while it is reported.
ExitZeroTruthful ==
  \A p \in Proc : cmd[p].exit = 0 => run[cmd[p].id].exit = 0

\* Each row lives the life of a run.
Life(r) == INSTANCE RunLife
  WITH Owner <- Proc, NoOwner <- None, status <- run[r].status,
       owner <- run[r].owner, live <- run[r].live, exit <- run[r].exit

ImplementsLife ==
  /\ \A r \in Proc : Life(r)!Init
  /\ [][\A r \in Proc : Life(r)!Next \/ UNCHANGED Life(r)!lifeVars]_vars

------------------------------------------------------------------------------
\* What the specification says.

\* "Recovery is at least once": once the creator of a run is dead, a command
\* that has reported the run has also seen to it that it does not stay QUEUED.
QueuedRuns ==
  \A r, p \in Proc :
    At(r, "dead") /\ At(p, "exited") /\ cmd[p].id = r
      ~> run[r].status # "QUEUED"
==============================================================================
