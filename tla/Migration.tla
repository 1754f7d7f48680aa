------------------------------ MODULE Migration ------------------------------
(***************************************************************************)
(* connect_migrated by several processes at once: the version is read, and *)
(* then the pending steps are applied in one transaction.                  *)
(*                                                                         *)
(* Abstractions.  A step creates one structure, and creating what exists   *)
(* is an error, as with CREATE TABLE.  Builds of different ages may meet   *)
(* at one database, each with its own SCHEMA_VERSION; a statement may fail *)
(* and a process may be killed.                                            *)
(***************************************************************************)
EXTENDS Integers, FiniteSets

CONSTANTS Proc,
          Version,    \* by process: its SCHEMA_VERSION
          MaxFaults   \* bound: failed statements and killed processes

Nobody == "nobody"

ASSUME MigrationAssumption ==
  /\ Version \in [Proc -> Nat \ {0}]
  /\ MaxFaults \in Nat
  /\ Nobody \notin Proc

VARIABLES
  schema,   \* the database, committed: its structures and its user_version
  draft,    \* the same, as the transaction of the lock's holder sees it
  writer,   \* who holds the write lock
  stage,
  todo,     \* by process: the steps it has still to apply
  faults

migrationVars == <<schema, draft, writer, stage, todo, faults>>

Empty == [made |-> {}, version |-> 0]

MigrationInit ==
  /\ schema = Empty /\ draft = Empty
  /\ writer = Nobody
  /\ stage = [p \in Proc |-> "off"]
  /\ todo = [p \in Proc |-> {}]
  /\ faults = 0

ToStage(p, at) == stage' = [stage EXCEPT ![p] = at]

\* Mutant: the pending steps begin at the version itself.
PendingFromVersion(p) == schema.version..Version[p]

\* Mutant: the pending steps end before the version of the build.
PendingBeforeLast(p) == (schema.version + 1)..(Version[p] - 1)

Pending(p) == (schema.version + 1)..Version[p]

\* The version is read outside of the transaction.
ReadVersion(p) ==
  /\ stage[p] = "off"
  /\ \/ schema.version > Version[p] /\ ToStage(p, "refused") /\ UNCHANGED todo
     \/ /\ schema.version = Version[p]
        /\ ToStage(p, "ready") /\ UNCHANGED todo
     \/ /\ schema.version < Version[p]
        /\ ToStage(p, "begin")
        /\ todo' = [todo EXCEPT ![p] = Pending(p)]
  /\ UNCHANGED <<schema, draft, writer, faults>>

\* BEGIN IMMEDIATE waits for the lock.
Begin(p) ==
  /\ stage[p] = "begin" /\ writer = Nobody
  /\ writer' = p /\ draft' = schema
  /\ ToStage(p, "apply")
  /\ UNCHANGED <<schema, todo, faults>>

\* Mutant: each step is committed by itself.
WithStepCommitted(s) == schema' = [schema EXCEPT !.made = @ \cup {s}]

WithStep(s) == UNCHANGED schema

\* Mutant: CREATE TABLE IF NOT EXISTS.
ClashesNot(s) == FALSE

Clashes(s) == s \in draft.made

\* One step, in order.
Apply(p) ==
  /\ stage[p] = "apply" /\ todo[p] # {}
  /\ \E s \in todo[p] :
       /\ \A r \in todo[p] : s <= r
       /\ ~Clashes(s)
       /\ draft' = [draft EXCEPT !.made = @ \cup {s}]
       /\ todo' = [todo EXCEPT ![p] = @ \ {s}]
       /\ WithStep(s)
  /\ UNCHANGED <<writer, stage, faults>>

Rollback(p) ==
  /\ writer' = Nobody /\ draft' = Empty
  /\ UNCHANGED schema

\* The structure exists, since another process has migrated in between.
AlreadyThere(p) ==
  /\ stage[p] = "apply" /\ \E s \in todo[p] : Clashes(s)
  /\ Rollback(p)
  /\ ToStage(p, "failed")
  /\ UNCHANGED <<todo, faults>>

Bumped(p) == [draft EXCEPT !.version = Version[p]]

CommitMigration(p) ==
  /\ stage[p] = "apply" /\ todo[p] = {}
  /\ schema' = Bumped(p)
  /\ writer' = Nobody /\ draft' = Empty
  /\ ToStage(p, "ready")
  /\ UNCHANGED <<todo, faults>>

\* A statement fails, or the process is killed: the transaction is rolled back.
Fault(p) ==
  /\ faults < MaxFaults
  /\ stage[p] = "apply"
  /\ faults' = faults + 1
  /\ Rollback(p)
  /\ ToStage(p, "off")
  /\ UNCHANGED todo

MigrationNext ==
  \E p \in Proc :
    \/ ReadVersion(p)
    \/ Begin(p)
    \/ Apply(p)
    \/ AlreadyThere(p)
    \/ CommitMigration(p)
    \/ Fault(p)

MigrationSpec == MigrationInit /\ [][MigrationNext]_migrationVars

------------------------------------------------------------------------------
\* Correctness.

\* Database, transaction and processes have their types.
MigrationTypeOK ==
  /\ schema \in [made : SUBSET Nat, version : Nat]
  /\ draft \in [made : SUBSET Nat, version : Nat]
  /\ writer \in Proc \cup {Nobody}
  /\ stage \in [Proc -> {"off", "begin", "apply", "ready", "refused",
                      "failed"}]
  /\ DOMAIN todo = Proc /\ \A p \in Proc : todo[p] \subseteq 1..Version[p]
  /\ faults \in 0..MaxFaults

\* "an intermediate version can never be observed": the database has exactly
\* the structures of its version, and the version is that of some build.
VersionIsSchema ==
  /\ schema.made = 1..schema.version
  /\ schema.version \in {0} \cup {Version[p] : p \in Proc}

\* A process that goes on works on the schema that it was built for, unless a
\* newer build has migrated the database after that.
ReadyHasSchema ==
  \A p \in Proc : stage[p] = "ready" => 1..Version[p] \subseteq schema.made

\* The schema only grows, whatever fails and whoever is refused.
NeverDowngraded ==
  [][/\ schema.made \subseteq schema'.made
     /\ schema.version <= schema'.version]_migrationVars

\* The schema is at every moment that of its version, and no process goes on
\* without the one it needs.
SchemaSound == VersionIsSchema /\ ReadyHasSchema
==============================================================================
