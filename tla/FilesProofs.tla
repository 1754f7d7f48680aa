------------------------------ MODULE FilesProofs ------------------------------
(***************************************************************************)
(* The components that keep files of their own, proved for any number of   *)
(* processes and any contents: the schema of the database, the script      *)
(* registry, the blobs, known_hosts with the audit log, and the check of   *)
(* an inventory.                                                           *)
(***************************************************************************)
EXTENDS MCFiles, FiniteSetTheorems, WellFoundedInduction, SequenceTheorems, TLAPS

------------------------------------------------------------------------------
\* The schema of the database.

\* The steps a process has still to apply are those from a on, and a is not
\* beyond the first one that is missing.
FromOn(p, a) == todo[p] = a..Version[p] /\ a \in 1..(Version[p] + 1)

\* Waiting for the lock: at least one step, and none before it is missing.
BeginInv(p) ==
  \E a \in Nat :
    FromOn(p, a) /\ a <= Version[p] /\ a <= schema.version + 1

\* In the transaction: the draft holds the structures up to k.  Either the next
\* step is the one that is missing, or it clashes.
ApplyInv(p) ==
  \E a, k \in Nat :
    /\ FromOn(p, a)
    /\ draft.made = 1..k
    /\ schema.version <= k
    /\ \/ a = k + 1 /\ k <= Version[p]
       \/ a <= k /\ a <= Version[p]

MigInv ==
  /\ MigrationTypeOK
  /\ VersionIsSchema
  /\ \A p \in Proc :
       /\ stage[p] = "begin" => BeginInv(p)
       /\ stage[p] = "apply" => writer = p /\ ApplyInv(p)
       /\ stage[p] = "ready" => Version[p] <= schema.version

LEMMA MigInit == MigrationInit => MigInv
BY MigrationAssumption DEF MigrationInit, Empty, MigInv, MigrationTypeOK, VersionIsSchema

LEMMA MigReadVersion ==
  ASSUME MigInv, NEW p \in Proc, ReadVersion(p)
  PROVE  MigInv'
<1>1. /\ schema.version \in Nat /\ Version[p] \in Nat \ {0}
      /\ schema' = schema /\ draft' = draft /\ writer' = writer
  BY MigrationAssumption DEF MigInv, MigrationTypeOK, ReadVersion
<1>2. CASE schema.version < Version[p]
  <2>1. /\ stage' = [stage EXCEPT ![p] = "begin"]
        /\ todo' = [todo EXCEPT ![p] = (schema.version + 1)..Version[p]]
    BY <1>1, <1>2 DEF ReadVersion, ToStage, Pending
  <2>2. BeginInv(p)'
    <3>0. PICK a \in Nat : a = schema.version + 1
      BY <1>1
    <3>1. a <= Version[p] /\ a <= schema'.version + 1 /\ a >= 1
      BY <1>1, <1>2, <3>0
    <3>2. FromOn(p, a)'
      BY <1>1, <2>1, <3>0, <3>1 DEF FromOn, MigInv, MigrationTypeOK
    <3> QED
      BY <3>1, <3>2 DEF BeginInv
  <2>3. MigrationTypeOK'
    BY <1>1, <2>1 DEF MigInv, MigrationTypeOK, ReadVersion
  <2> QED
    BY <1>1, <2>1, <2>2, <2>3
       DEF MigInv, MigrationTypeOK, VersionIsSchema, BeginInv, ApplyInv, FromOn
<1>3. CASE schema.version >= Version[p]
  <2>1. /\ todo' = todo
        /\ \/ stage' = [stage EXCEPT ![p] = "refused"]
           \/ schema.version = Version[p] /\ stage' = [stage EXCEPT ![p] = "ready"]
    BY <1>1, <1>3 DEF ReadVersion, ToStage
  <2>2. MigrationTypeOK'
    BY <1>1, <2>1 DEF MigInv, MigrationTypeOK, ReadVersion
  <2> QED
    BY <1>1, <2>1, <2>2
       DEF MigInv, MigrationTypeOK, VersionIsSchema, BeginInv, ApplyInv, FromOn
<1> QED
  BY <1>1, <1>2, <1>3

LEMMA MigBegin ==
  ASSUME MigInv, NEW p \in Proc, Begin(p)
  PROVE  MigInv'
<1>1. /\ stage[p] = "begin" /\ writer = Nobody
      /\ writer' = p /\ draft' = schema
      /\ stage' = [stage EXCEPT ![p] = "apply"]
      /\ schema' = schema /\ todo' = todo /\ faults' = faults
  BY DEF Begin, ToStage
<1>2. \A q \in Proc : stage[q] # "apply"
  BY <1>1, MigrationAssumption DEF MigInv
<1>3. ApplyInv(p)'
  <2>1. PICK a \in Nat :
          FromOn(p, a) /\ a <= Version[p] /\ a <= schema.version + 1
    BY <1>1 DEF MigInv, BeginInv
  <2>2. schema.version \in Nat /\ schema.made = 1..schema.version
    BY DEF MigInv, MigrationTypeOK, VersionIsSchema
  <2>3. FromOn(p, a)'
    BY <1>1, <2>1 DEF FromOn
  <2>4. \/ a = schema.version + 1 /\ schema.version <= Version[p]
        \/ a <= schema.version /\ a <= Version[p]
    BY <2>1, <2>2, MigrationAssumption
  <2> QED
    BY <1>1, <2>2, <2>3, <2>4 DEF ApplyInv
<1>4. MigrationTypeOK'
  BY <1>1 DEF MigInv, MigrationTypeOK
<1> QED
  BY <1>1, <1>2, <1>3, <1>4
     DEF MigInv, MigrationTypeOK, VersionIsSchema, BeginInv, FromOn

LEMMA MigApply ==
  ASSUME MigInv, NEW p \in Proc, Apply(p)
  PROVE  MigInv'
<1>1. PICK s \in todo[p] :
        /\ \A r \in todo[p] : s <= r
        /\ s \notin draft.made
        /\ draft' = [draft EXCEPT !.made = @ \cup {s}]
        /\ todo' = [todo EXCEPT ![p] = @ \ {s}]
  BY DEF Apply, Clashes
<1>2. /\ stage[p] = "apply" /\ schema' = schema /\ writer' = writer
      /\ stage' = stage /\ faults' = faults
  BY DEF Apply, WithStep
<1>3. PICK a \in Nat, k \in Nat :
        /\ FromOn(p, a)
        /\ draft.made = 1..k
        /\ schema.version <= k
        /\ \/ a = k + 1 /\ k <= Version[p]
           \/ a <= k /\ a <= Version[p]
  BY <1>2 DEF MigInv, ApplyInv
<1>4. Version[p] \in Nat /\ schema.version \in Nat
  BY MigrationAssumption DEF MigInv, MigrationTypeOK
<1>5. s = a /\ a <= Version[p]
  BY <1>1, <1>3, <1>4 DEF FromOn
<1>6. a = k + 1
  BY <1>1, <1>3, <1>4, <1>5 DEF FromOn
<1>7. draft'.made = 1..(k + 1)
  BY <1>1, <1>3, <1>5, <1>6 DEF MigInv, MigrationTypeOK
<1>8. FromOn(p, a + 1)'
  <2>1. todo'[p] = (a..Version[p]) \ {a}
    BY <1>1, <1>3, <1>5 DEF FromOn, MigInv, MigrationTypeOK
  <2>2. (a..Version[p]) \ {a} = (a + 1)..Version[p]
    BY <1>4
  <2> QED
    BY <1>4, <1>5, <2>1, <2>2 DEF FromOn
<1>9. ApplyInv(p)'
  BY <1>2, <1>3, <1>4, <1>5, <1>6, <1>7, <1>8 DEF ApplyInv
<1>10. MigrationTypeOK'
  BY <1>1, <1>2, <1>4 DEF MigInv, MigrationTypeOK
<1>11. \A q \in Proc : q # p => stage[q] # "apply"
  BY <1>2 DEF MigInv
<1> QED
  BY <1>1, <1>2, <1>9, <1>10, <1>11
     DEF MigInv, MigrationTypeOK, VersionIsSchema, BeginInv, FromOn

\* The lock's holder gives up: the database is as it was.
LEMMA MigRollback ==
  ASSUME MigInv, NEW p \in Proc, stage[p] = "apply", Rollback(p),
         stage' = [stage EXCEPT ![p] = "failed"] \/ stage' = [stage EXCEPT ![p] = "off"],
         todo' = todo, faults' \in 0..MaxFaults
  PROVE  MigInv'
<1>1. schema' = schema /\ writer' = Nobody /\ draft' = Empty
  BY DEF Rollback
<1>2. \A q \in Proc : q # p => stage[q] # "apply"
  BY DEF MigInv
<1>3. MigrationTypeOK'
  BY <1>1 DEF MigInv, MigrationTypeOK, Empty
<1> QED
  BY <1>1, <1>2, <1>3 DEF MigInv, MigrationTypeOK, VersionIsSchema, BeginInv, FromOn

\* At the commit the draft holds exactly the structures of the build.
LEMMA CommitsOwnVersion ==
  ASSUME MigInv, NEW p \in Proc, CommitMigration(p)
  PROVE  /\ schema'.made = 1..Version[p] /\ schema'.version = Version[p]
         /\ schema.version <= Version[p]
         /\ schema' \in [made : SUBSET Nat, version : Nat]
<1>1. /\ stage[p] = "apply" /\ todo[p] = {}
      /\ schema' = [draft EXCEPT !.version = Version[p]]
  BY DEF CommitMigration, Bumped
<1>2. PICK a \in Nat, k \in Nat :
        /\ FromOn(p, a)
        /\ draft.made = 1..k
        /\ schema.version <= k
        /\ \/ a = k + 1 /\ k <= Version[p]
           \/ a <= k /\ a <= Version[p]
  BY <1>1 DEF MigInv, ApplyInv
<1>3. Version[p] \in Nat
  BY MigrationAssumption
<1>4. a > Version[p]
  <2> SUFFICES ASSUME a <= Version[p] PROVE FALSE
    BY <1>3
  <2>1. a \in a..Version[p]
    BY <1>3
  <2> QED
    BY <1>1, <1>2, <2>1 DEF FromOn
<1>5. k = Version[p]
  BY <1>2, <1>3, <1>4 DEF FromOn
<1> QED
  BY <1>1, <1>2, <1>3, <1>5 DEF MigInv, MigrationTypeOK

LEMMA MigCommit ==
  ASSUME MigInv, NEW p \in Proc, CommitMigration(p)
  PROVE  MigInv'
<1>1. /\ stage[p] = "apply" /\ writer' = Nobody /\ draft' = Empty
      /\ stage' = [stage EXCEPT ![p] = "ready"]
      /\ todo' = todo /\ faults' = faults
  BY DEF CommitMigration, ToStage
<1>2. /\ schema'.made = 1..Version[p] /\ schema'.version = Version[p]
      /\ schema.version <= Version[p]
      /\ schema' \in [made : SUBSET Nat, version : Nat]
  BY CommitsOwnVersion
<1>3. /\ schema.version \in Nat /\ schema'.version \in Nat
      /\ \A q \in Proc : Version[q] \in Nat
      /\ \A q \in Proc : q # p => stage[q] # "apply"
  BY <1>1, <1>2, MigrationAssumption DEF MigInv, MigrationTypeOK
<1>4. MigrationTypeOK'
  BY <1>1, <1>2 DEF MigInv, MigrationTypeOK, Empty
<1>5. VersionIsSchema'
  BY <1>2 DEF VersionIsSchema
<1>6. ASSUME NEW q \in Proc, stage'[q] = "begin" PROVE BeginInv(q)'
  <2>1. stage[q] = "begin"
    BY <1>1, <1>6 DEF MigInv, MigrationTypeOK
  <2>2. PICK a \in Nat :
          FromOn(q, a) /\ a <= Version[q] /\ a <= schema.version + 1
    BY <2>1 DEF MigInv, BeginInv
  <2>3. a <= schema'.version + 1 /\ FromOn(q, a)'
    BY <1>1, <1>2, <1>3, <2>2 DEF FromOn
  <2> QED
    BY <2>2, <2>3 DEF BeginInv
<1>7. ASSUME NEW q \in Proc, stage'[q] = "ready"
      PROVE  Version[q] <= schema'.version
  BY <1>1, <1>2, <1>3, <1>7 DEF MigInv, MigrationTypeOK
<1>8. \A q \in Proc : stage'[q] # "apply"
  BY <1>1, <1>3 DEF MigInv, MigrationTypeOK
<1> QED
  BY <1>4, <1>5, <1>6, <1>7, <1>8 DEF MigInv

LEMMA MigStep == MigInv /\ [MigrationNext]_migrationVars => MigInv'
<1> SUFFICES ASSUME MigInv, [MigrationNext]_migrationVars PROVE MigInv'
  OBVIOUS
<1>1. ASSUME NEW p \in Proc, AlreadyThere(p) PROVE MigInv'
  <2>1. faults' \in 0..MaxFaults
    BY <1>1 DEF AlreadyThere, MigInv, MigrationTypeOK
  <2> QED
    BY <1>1, <2>1, MigRollback DEF AlreadyThere, ToStage
<1>2. ASSUME NEW p \in Proc, Fault(p) PROVE MigInv'
  <2>1. faults' \in 0..MaxFaults
    BY <1>2, MigrationAssumption DEF Fault, MigInv, MigrationTypeOK
  <2> QED
    BY <1>2, <2>1, MigRollback DEF Fault, ToStage
<1>3. CASE UNCHANGED migrationVars
  BY <1>3 DEF migrationVars, MigInv, MigrationTypeOK, VersionIsSchema, BeginInv, ApplyInv, FromOn
<1> QED
  BY <1>1, <1>2, <1>3, MigReadVersion, MigBegin, MigApply, MigCommit DEF MigrationNext

\* The inductive invariant of the migration.
THEOREM MigrationInvariant == MigrationSpec => []MigInv
BY MigInit, MigStep, PTL DEF MigrationSpec

\* Database, transaction and processes keep their types.
THEOREM MigrationTypes == MigrationSpec => []MigrationTypeOK
<1>1. MigInv => MigrationTypeOK
  BY DEF MigInv
<1> QED
  BY <1>1, MigrationInvariant, PTL

\* No process ever finds an intermediate schema.
THEOREM SchemaOfItsVersion == MigrationSpec => []VersionIsSchema
<1>1. MigInv => VersionIsSchema
  BY DEF MigInv
<1> QED
  BY <1>1, MigrationInvariant, PTL

\* A process that goes on finds at least the schema of its build.
THEOREM ReadyFindsSchema == MigrationSpec => []ReadyHasSchema
<1>1. MigInv => ReadyHasSchema
  <2> SUFFICES ASSUME MigInv, NEW p \in Proc, stage[p] = "ready"
               PROVE  1..Version[p] \subseteq schema.made
    BY DEF ReadyHasSchema
  <2>1. /\ Version[p] \in Nat /\ schema.version \in Nat
        /\ Version[p] <= schema.version
        /\ schema.made = 1..schema.version
    BY MigrationAssumption DEF MigInv, MigrationTypeOK, VersionIsSchema
  <2> QED
    BY <2>1
<1> QED
  BY <1>1, MigrationInvariant, PTL

\* The schema only grows.
THEOREM SchemaOnlyGrows == MigrationSpec => NeverDowngraded
<1>1. MigInv /\ [MigrationNext]_migrationVars =>
        [schema.made \subseteq schema'.made /\ schema.version <= schema'.version]_migrationVars
  <2> SUFFICES ASSUME MigInv, [MigrationNext]_migrationVars
               PROVE  /\ schema.made \subseteq schema'.made
                      /\ schema.version <= schema'.version
    OBVIOUS
  <2>1. schema.version \in Nat /\ schema.made = 1..schema.version
    BY DEF MigInv, MigrationTypeOK, VersionIsSchema
  <2>2. ASSUME NEW p \in Proc, CommitMigration(p)
        PROVE  /\ schema.made \subseteq schema'.made
               /\ schema.version <= schema'.version
    <3>1. /\ schema'.made = 1..Version[p] /\ schema'.version = Version[p]
          /\ schema.version <= Version[p] /\ Version[p] \in Nat
      BY <2>2, CommitsOwnVersion, MigrationAssumption
    <3> QED
      BY <2>1, <3>1
  <2>3. CASE schema' = schema
    BY <2>1, <2>3
  <2> QED
    BY <2>2, <2>3
       DEF MigrationNext, migrationVars, ReadVersion, Begin, Apply, WithStep, AlreadyThere,
           Rollback, Fault
<1> QED
  BY <1>1, MigrationInvariant, PTL DEF MigrationSpec, NeverDowngraded

\* At every moment the schema is that of its version, and no process goes on
\* without the one it needs: for every number of processes, every assignment of
\* builds and every number of faults.
THEOREM SchemaStaysSound == MigrationSpec => []SchemaSound
  BY SchemaOfItsVersion, ReadyFindsSchema, PTL DEF SchemaSound

------------------------------------------------------------------------------
\* The script registry.

\* An answer is one entry of the file, it matches the reference, and its file
\* holds what it declares.
LEMMA AnswerIsEntry ==
  ASSUME NEW ref \in Ref, NEW e \in Answer(ref)
  PROVE  /\ Answer(ref) = {e}
         /\ e \in Scripts
         /\ e.name = ref.name
         /\ StartsWith(e.sha, ref.digits)
         /\ content[e.path] = e.sha
<1>1. Loads /\ e \in Chosen(Candidates(ref))
  BY DEF Answer
<1>2. Candidates(ref) = {e} /\ Chosen(Candidates(ref)) = {e}
  BY <1>1 DEF Chosen
<1>3. e \in Candidates(ref)
  BY <1>2
<1>4. e \in Scripts /\ e.name = ref.name /\ StartsWith(e.sha, ref.digits)
  BY <1>3 DEF Candidates
<1> QED
  BY <1>1, <1>2, <1>4 DEF Answer, Loads, Authentic

\* Two entries that the same file answers with, for the same reference, are one.
LEMMA OneAnswer ==
  ASSUME NEW ref \in Ref, NEW e \in Answer(ref)', NEW f \in Scripts',
         f.name = ref.name, StartsWith(f.sha, ref.digits)
  PROVE  e = f
<1>1. Candidates(ref)' = {e}
  BY DEF Answer, Chosen
<1>2. f \in Candidates(ref)'
  BY DEF Candidates
<1> QED
  BY <1>1, <1>2

\* Full hashes that start with one another are equal.
LEMMA FullHash ==
  ASSUME NEW g \in Hash, NEW h \in Hash, StartsWith(g, h)
  PROVE  g = h
<1>1. g \in [1..HashLen -> Digit] /\ h \in [1..HashLen -> Digit]
  BY RegistryAssumption
<1>2. \A i \in 1..HashLen : g[i] = h[i]
  BY <1>1 DEF StartsWith
<1>3. /\ g = [i \in 1..HashLen |-> g[i]]
      /\ h = [i \in 1..HashLen |-> h[i]]
  BY <1>1
<1>4. [i \in 1..HashLen |-> g[i]] = [i \in 1..HashLen |-> h[i]]
  BY <1>2
<1> QED
  BY <1>3, <1>4

LEMMA ScriptsAreEntries ==
  ASSUME RegistryTypeOK
  PROVE  Scripts \subseteq Entry
BY DEF RegistryTypeOK, Scripts, Used

\* The files keep their types, and what a run records is a full hash.
THEOREM RegistryTypes == RegistrySpec => []RegistryTypeOK
<1>1. RegistryInit => RegistryTypeOK
  <2> SUFFICES ASSUME RegistryInit PROVE RegistryTypeOK
    OBVIOUS
  <2>1. file \in [{} -> Entry]
    BY DEF RegistryInit
  <2> QED
    BY <2>1 DEF RegistryInit, RegistryTypeOK
<1>2. RegistryTypeOK /\ [RegistryNext]_registryVars => RegistryTypeOK'
  <2> SUFFICES ASSUME RegistryTypeOK, [RegistryNext]_registryVars PROVE RegistryTypeOK'
    OBVIOUS
  <2>0. PICK used \in SUBSET Place : file \in [used -> Entry]
    BY DEF RegistryTypeOK
  <2>1. ASSUME NEW s \in Place, NEW e \in Entry, Write(s, e) PROVE RegistryTypeOK'
    <3>1. file' \in [used \cup {s} -> Entry]
      BY <2>0, <2>1 DEF Write, Used
    <3> QED
      BY <2>1, <3>1 DEF RegistryTypeOK, Write
  <2>2. ASSUME NEW s \in Place, Remove(s) PROVE RegistryTypeOK'
    <3>1. file' \in [used \ {s} -> Entry]
      BY <2>0, <2>2 DEF Remove, Used
    <3> QED
      BY <2>2, <3>1 DEF RegistryTypeOK, Remove
  <2>3. ASSUME NEW p \in Path, NEW h \in Hash, Rewrite(p, h) PROVE RegistryTypeOK'
    BY <2>3 DEF RegistryTypeOK, Rewrite
  <2>4. ASSUME NEW ref \in Ref, Run(ref) PROVE RegistryTypeOK'
    <3>1. PICK e : e \in Answer(ref)
      BY <2>4 DEF Run
    <3>2. Answer(ref) = {e} /\ e \in Entry
      BY <3>1, AnswerIsEntry, ScriptsAreEntries
    <3>3. recorded' = {Stored(ref, e)}
      BY <2>4, <3>2 DEF Run
    <3>4. Stored(ref, e) \in [name : Name, sha : Hash]
      BY <3>2 DEF Stored, Entry
    <3> QED
      BY <2>4, <3>3, <3>4 DEF RegistryTypeOK, Run
  <2>5. CASE UNCHANGED registryVars
    BY <2>5 DEF RegistryTypeOK, registryVars
  <2> QED
    BY <2>1, <2>2, <2>3, <2>4, <2>5 DEF RegistryNext
<1> QED
  BY <1>1, <1>2, PTL DEF RegistrySpec

\* A resume finds the bytes that were recorded, or nothing.
THEOREM RecordedVersionStays == RegistrySpec => []RecordedStays
<1>1. RegistryTypeOK => RecordedStays
  <2> SUFFICES ASSUME RegistryTypeOK, NEW r \in recorded, NEW e \in Answer(FullRef(r))
               PROVE  e.name = r.name /\ content[e.path] = r.sha
    BY DEF RecordedStays
  <2>1. r.name \in Name /\ r.sha \in Hash
    BY DEF RegistryTypeOK
  <2>2. FullRef(r) \in Ref
    <3>1. r.sha \in [1..HashLen -> Digit] /\ HashLen \in 0..HashLen
      BY <2>1, RegistryAssumption
    <3> QED
      BY <2>1, <3>1 DEF FullRef, Ref
  <2>3. /\ e \in Scripts /\ e.name = r.name
        /\ StartsWith(e.sha, r.sha) /\ content[e.path] = e.sha
    BY <2>2, AnswerIsEntry DEF FullRef
  <2>4. e.sha \in Hash
    BY <2>3, ScriptsAreEntries DEF Entry
  <2> QED
    BY <2>1, <2>3, <2>4, FullHash
<1> QED
  BY <1>1, RegistryTypes, PTL

\* No edit turns a reference from a version that stays registered to another.
THEOREM ReferencesNeverSwitch == RegistrySpec => [][NeverSwitched]_registryVars
<1>1. NeverSwitched
  <2> SUFFICES ASSUME NEW ref \in Ref, NEW e \in Answer(ref), e \in Scripts',
                      NEW f \in Answer(ref)'
               PROVE  f = e
    BY DEF NeverSwitched
  <2>1. e.name = ref.name /\ StartsWith(e.sha, ref.digits)
    BY AnswerIsEntry
  <2> QED
    BY <2>1, OneAnswer
<1> QED
  BY <1>1, PTL

\* Whatever is edited, a reference that has named a version names that one or
\* none, and a recorded version is found with its bytes or refused.
THEOREM ReferencesStay == RegistrySpec => ReferencesKept
<1>1. RecordedStays' /\ [NeverSwitched]_registryVars =>
        [RecordedStays' /\ NeverSwitched]_registryVars
  OBVIOUS
<1> QED
  BY <1>1, RecordedVersionStays, ReferencesNeverSwitch, PTL DEF ReferencesKept

------------------------------------------------------------------------------
\* The blobs.

Busy(at) == [at : {at}, content : Content]
BlobTask == {Free} \cup Busy("create") \cup Busy("replace") \cup Busy("sync")
                   \cup Busy("commit")
BlobScan == [at : {"none", "refs", "done"}, refs : SUBSET Content,
             orphans : SUBSET Content, quiet : BOOLEAN]

\* What is on the disk is a whole file; a writer goes on to commit only what is
\* on the disk, or what it took for stored before that.
OnDisk ==
  /\ \A c \in synced : dest[c] = "whole"
  /\ refs \subseteq synced \cup unsure
  /\ \A w \in Writer :
       At(w, "commit") => task[w].content \in synced \cup unsure
  /\ \A w \in Writer : At(w, "sync") => dest[task[w].content] = "whole"

\* As long as nothing is committed behind it, a scan knows the references.
ScanInv ==
  /\ scan.at = "refs" /\ scan.quiet => scan.refs = refs
  /\ scan.at = "done" /\ scan.quiet =>
       \A c \in scan.orphans : c \notin refs /\ dest[c] = "whole"

BlobInv ==
  /\ BlobTypeOK
  /\ task \in [Writer -> BlobTask]
  /\ scan \in BlobScan
  /\ OnDisk
  /\ ScanInv

LEMMA BlobInvInit == BlobInit => BlobInv
  BY BlobAssumption DEF BlobInit, BlobInv, BlobTypeOK, BlobTask, BlobScan,
    OnDisk, ScanInv, Free, NoScan, At

LEMMA BlobTasks ==
  ASSUME task \in [Writer -> BlobTask], NEW w \in Writer
  PROVE  /\ task[w].at \in {"free", "create", "replace", "sync", "commit"}
         /\ task[w].at = "free" <=> task[w] = Free
         /\ task[w].at # "free" => task[w].content \in Content
BY DEF BlobTask, Busy, Free

LEMMA BlobProceeds ==
  ASSUME task \in [Writer -> BlobTask], NEW w \in Writer, NEW at, Proceed(w, at),
         task[w].at # "free", at \in {"create", "replace", "sync", "commit"}
  PROVE  /\ task' \in [Writer -> BlobTask]
         /\ \A v \in Writer \ {w} : task'[v] = task[v]
         /\ task'[w].at = at /\ task'[w].content = task[w].content
<1>1. /\ task[w] \in BlobTask \ {Free}
      /\ task[w].content \in Content
  BY BlobTasks
<1>2. [task[w] EXCEPT !.at = at] \in Busy(at)
  BY <1>1 DEF BlobTask, Busy
<1>3. Busy(at) \subseteq BlobTask
  BY DEF BlobTask
<1>4. task' = [task EXCEPT ![w] = [task[w] EXCEPT !.at = at]]
  BY DEF Proceed
<1>5. /\ [task[w] EXCEPT !.at = at].at = at
      /\ [task[w] EXCEPT !.at = at].content = task[w].content
  BY <1>1 DEF BlobTask, Busy
<1> QED
  BY <1>2, <1>3, <1>4, <1>5

LEMMA BlobFreed ==
  ASSUME task \in [Writer -> BlobTask], NEW w \in Writer,
         task' = [task EXCEPT ![w] = Free]
  PROVE  /\ task' \in [Writer -> BlobTask]
         /\ \A v \in Writer \ {w} : task'[v] = task[v]
         /\ task'[w].at = "free"
BY DEF BlobTask, Free

LEMMA BlobInvStep == BlobInv /\ [BlobNext]_blobVars => BlobInv'
<1> SUFFICES ASSUME BlobInv, [BlobNext]_blobVars
             PROVE  BlobInv'
  OBVIOUS
<1> USE DEF BlobInv
<1>0. \A w \in Writer :
        /\ task[w].at \in {"free", "create", "replace", "sync", "commit"}
        /\ task[w].at # "free" => task[w].content \in Content
  BY BlobTasks
<1>1. ASSUME NEW w \in Writer, NEW c \in Content, Look(w, c)
      PROVE  BlobInv'
  <2>1. /\ task' \in [Writer -> BlobTask]
        /\ \A v \in Writer \ {w} : task'[v] = task[v]
        /\ task'[w].content = c
        /\ Present(c) => task'[w].at = "commit"
        /\ ~Present(c) => task'[w].at = "create"
    BY <1>1 DEF Look, BlobTask, Busy
  <2>2. BlobTypeOK' /\ scan' \in BlobScan
    BY <1>1, <2>1, BlobTasks DEF Look, BlobTypeOK
  <2>3. OnDisk'
    BY <1>0, <1>1, <2>1 DEF Look, OnDisk, At, Present
  <2>4. ScanInv'
    BY <1>1 DEF Look, ScanInv
  <2> QED
    BY <2>1, <2>2, <2>3, <2>4
<1>2. ASSUME NEW w \in Writer, CreateTemp(w)
      PROVE  BlobInv'
  <2>1. /\ task' \in [Writer -> BlobTask]
        /\ \A v \in Writer \ {w} : task'[v] = task[v]
        /\ task'[w].at = "replace"
    BY <1>2, BlobProceeds DEF CreateTemp, At
  <2>2. BlobTypeOK' /\ scan' \in BlobScan
    BY <1>0, <1>2, <2>1, BlobTasks DEF CreateTemp, BlobTypeOK, At
  <2>3. OnDisk'
    BY <1>0, <1>2, <2>1 DEF CreateTemp, OnDisk, At
  <2>4. ScanInv'
    BY <1>2 DEF CreateTemp, ScanInv
  <2> QED
    BY <2>1, <2>2, <2>3, <2>4
<1>3. ASSUME NEW w \in Writer, Replace(w)
      PROVE  BlobInv'
  <2>1. /\ task' \in [Writer -> BlobTask]
        /\ \A v \in Writer \ {w} : task'[v] = task[v]
        /\ task'[w].at = "sync" /\ task'[w].content = task[w].content
        /\ task[w].content \in Content
    BY <1>0, <1>3, BlobProceeds DEF Replace, At
  <2>2. BlobTypeOK' /\ scan' \in BlobScan
    BY <1>3, <2>1, BlobTasks DEF Replace, BlobTypeOK
  <2>3. /\ dest'[task[w].content] = "whole"
        /\ \A c \in Content : dest[c] = "whole" => dest'[c] = "whole"
    BY <1>3, <2>1 DEF Replace, BlobTypeOK
  <2>4. OnDisk'
    BY <1>0, <1>3, <2>1, <2>3 DEF Replace, OnDisk, At, BlobTypeOK
  <2>5. ScanInv'
    BY <1>3, <2>3 DEF Replace, ScanInv, BlobScan
  <2> QED
    BY <2>1, <2>2, <2>4, <2>5
<1>4. ASSUME NEW w \in Writer, SyncDir(w)
      PROVE  BlobInv'
  <2>1. /\ task' \in [Writer -> BlobTask]
        /\ \A v \in Writer \ {w} : task'[v] = task[v]
        /\ task'[w].at = "commit" /\ task'[w].content = task[w].content
        /\ task[w].content \in Content
    BY <1>0, <1>4, BlobProceeds DEF SyncDir, At
  <2>2. BlobTypeOK' /\ scan' \in BlobScan
    BY <1>4, <2>1, BlobTasks DEF SyncDir, BlobTypeOK, Synced
  <2>3. /\ \A c \in Synced : c \in Content /\ dest[c] = "whole"
        /\ synced \subseteq Synced
        /\ task[w].content \in Synced
    BY <1>4, <2>1 DEF SyncDir, Synced, OnDisk, BlobTypeOK, At
  <2>4. OnDisk'
    BY <1>0, <1>4, <2>1, <2>3 DEF SyncDir, OnDisk, At, BlobTypeOK
  <2>5. ScanInv'
    BY <1>4 DEF SyncDir, ScanInv
  <2> QED
    BY <2>1, <2>2, <2>4, <2>5
<1>5. ASSUME NEW w \in Writer, WriteFails(w)
      PROVE  BlobInv'
  <2>1. /\ task' \in [Writer -> BlobTask]
        /\ \A v \in Writer \ {w} : task'[v] = task[v]
        /\ task'[w].at = "free"
    BY <1>5, BlobFreed DEF WriteFails
  <2>2. BlobTypeOK' /\ scan' \in BlobScan
    BY <1>5, <2>1, BlobTasks DEF WriteFails, BlobTypeOK
  <2>3. OnDisk' /\ ScanInv'
    BY <1>5, <2>1 DEF WriteFails, OnDisk, ScanInv, At
  <2> QED
    BY <2>1, <2>2, <2>3
<1>6. ASSUME NEW w \in Writer, CommitRef(w)
      PROVE  BlobInv'
  <2>1. /\ task' \in [Writer -> BlobTask]
        /\ \A v \in Writer \ {w} : task'[v] = task[v]
        /\ task'[w].at = "free"
        /\ task[w].content \in Content
    BY <1>0, <1>6, BlobFreed DEF CommitRef, At
  <2>2. /\ scan' \in BlobScan /\ ~scan'.quiet
        /\ scan'.refs = scan.refs /\ scan'.orphans = scan.orphans
    BY <1>6 DEF CommitRef, BlobScan
  <2>3. BlobTypeOK'
    BY <1>6, <2>1, <2>2, BlobTasks DEF CommitRef, BlobTypeOK
  <2>4. OnDisk' /\ ScanInv'
    BY <1>6, <2>1, <2>2 DEF CommitRef, OnDisk, ScanInv, At
  <2> QED
    BY <2>1, <2>2, <2>3, <2>4
<1>7. ASSUME NEW w \in Writer, Refused(w)
      PROVE  BlobInv'
  <2>1. /\ task' \in [Writer -> BlobTask]
        /\ \A v \in Writer \ {w} : task'[v] = task[v]
        /\ task'[w].at = "free"
    BY <1>7, BlobFreed DEF Refused
  <2>2. BlobTypeOK' /\ scan' \in BlobScan
    BY <1>7, <2>1, BlobTasks DEF Refused, BlobTypeOK
  <2>3. OnDisk' /\ ScanInv'
    BY <1>7, <2>1 DEF Refused, OnDisk, ScanInv, At
  <2> QED
    BY <2>1, <2>2, <2>3
<1>8. ASSUME NEW w \in Writer, Kill(w)
      PROVE  BlobInv'
  <2>1. /\ task' \in [Writer -> BlobTask]
        /\ \A v \in Writer \ {w} : task'[v] = task[v]
        /\ task'[w].at = "free"
    BY <1>8, BlobFreed DEF Kill
  <2>2. BlobTypeOK' /\ scan' \in BlobScan
    BY <1>8, <2>1, BlobTasks, BlobAssumption DEF Kill, BlobTypeOK
  <2>3. OnDisk' /\ ScanInv'
    BY <1>8, <2>1 DEF Kill, OnDisk, ScanInv, At
  <2> QED
    BY <2>1, <2>2, <2>3
<1>9. CASE ScanRefs
  <2>1. /\ scan' \in BlobScan /\ scan'.at = "refs" /\ scan'.refs = refs
        /\ scan'.orphans = {}
    BY <1>9 DEF ScanRefs, NoScan, BlobScan, BlobTypeOK
  <2>2. BlobTypeOK' /\ OnDisk' /\ ScanInv'
    BY <1>9, <2>1 DEF ScanRefs, BlobTypeOK, OnDisk, ScanInv, At
  <2> QED
    BY <1>9, <2>1, <2>2 DEF ScanRefs
<1>10. CASE ScanList
  <2>1. /\ scan' \in BlobScan /\ scan'.at = "done" /\ scan'.refs = scan.refs
        /\ scan'.orphans = Listed \ scan.refs /\ scan'.quiet = scan.quiet
        /\ Listed \subseteq Content
    BY <1>10 DEF ScanList, BlobScan, Listed
  <2>2. BlobTypeOK' /\ OnDisk'
    BY <1>10, <2>1 DEF ScanList, BlobTypeOK, OnDisk, At
  <2>3. ScanInv'
    BY <1>10, <2>1 DEF ScanList, ScanInv, Listed, BlobTypeOK
  <2> QED
    BY <1>10, <2>1, <2>2, <2>3 DEF ScanList
<1>11. CASE Outage
  <2>1. PICK kept \in SUBSET Content :
          /\ synced \subseteq kept
          /\ dest' = [c \in Content |-> IF c \in kept THEN dest[c] ELSE "none"]
          /\ synced' = {c \in kept : dest[c] # "none"}
    BY <1>11 DEF Outage
  <2>2. /\ task' \in [Writer -> BlobTask] /\ \A w \in Writer : task'[w].at = "free"
        /\ scan' \in BlobScan /\ scan'.at = "none" /\ scan'.orphans = {}
        /\ scan'.refs = {}
    BY <1>11 DEF Outage, Free, NoScan, BlobTask, BlobScan
  <2>3. synced \subseteq synced' /\ \A c \in synced' : dest'[c] = "whole"
    BY <2>1 DEF OnDisk, BlobTypeOK
  <2>4. dest' \in [Content -> {"none", "whole"}] /\ synced' \subseteq Content
    BY <2>1 DEF BlobTypeOK
  <2>5. BlobTypeOK'
    BY <1>11, <2>2, <2>4, BlobAssumption DEF Outage, BlobTypeOK
  <2>6. OnDisk' /\ ScanInv'
    BY <1>11, <2>2, <2>3 DEF Outage, OnDisk, ScanInv, At
  <2> QED
    BY <2>2, <2>5, <2>6
<1>12. CASE UNCHANGED blobVars
  BY <1>12 DEF blobVars, BlobTypeOK, OnDisk, ScanInv, At
<1> QED
  BY <1>1, <1>2, <1>3, <1>4, <1>5, <1>6, <1>7, <1>8, <1>9, <1>10, <1>11, <1>12
  DEF BlobNext

\* Files, references, writers and scan have their types.
THEOREM BlobTypes == BlobSpec => []BlobTypeOK
<1>1. BlobInv => BlobTypeOK
  BY DEF BlobInv
<1> QED
  BY <1>1, BlobInvInit, BlobInvStep, PTL DEF BlobSpec

\* For any number of writers, contents, kills and outages: what a committed
\* execution references is there in full, unless a writer took a file for
\* stored that another one had not synced; and a scan behind which nothing is
\* committed names only blobs that nothing references.
THEOREM NothingDangles == BlobSpec => []BlobsAgree
<1>1. BlobInv => BlobsAgree
  BY DEF BlobInv, OnDisk, ScanInv, BlobsAgree, NoDanglingRef, QuietScanExact
<1> QED
  BY <1>1, BlobInvInit, BlobInvStep, PTL DEF BlobSpec

------------------------------------------------------------------------------
\* The file of the audit log, as a sequence.

Elements(s) == {s[i] : i \in DOMAIN s}
IsFile(s) == s \in Seq(Elements(s))

\* t is s with a line added, with another line at k, or without its line k.
WithLine(s, line, t) ==
  /\ IsFile(t) /\ Len(s) \in Nat
  /\ Len(t) = Len(s) + 1 /\ DOMAIN t = 1..(Len(s) + 1)
  /\ t[Len(s) + 1] = line
  /\ \A i \in 1..Len(s) : t[i] = s[i]

WithLineAt(s, k, line, t) ==
  /\ IsFile(t) /\ Len(s) \in Nat
  /\ Len(t) = Len(s) /\ DOMAIN t = 1..Len(s) /\ DOMAIN s = 1..Len(s)
  /\ t[k] = line
  /\ \A i \in 1..Len(s) : i # k => t[i] = s[i]

WithoutLine(s, k, t) ==
  /\ IsFile(t) /\ Len(s) \in Nat
  /\ Len(t) = Len(s) - 1 /\ DOMAIN t = 1..(Len(s) - 1)
  /\ \A i \in 1..(k - 1) : t[i] = s[i]
  /\ \A i \in k..(Len(s) - 1) : t[i] = s[i + 1]

LEMMA FileSeq ==
  ASSUME NEW S, NEW s \in Seq(S)
  PROVE  /\ IsFile(s) /\ Len(s) \in Nat /\ DOMAIN s = 1..Len(s)
         /\ s = <<>> <=> Len(s) = 0
<1>1. /\ Len(s) \in Nat /\ DOMAIN s = 1..Len(s)
      /\ s \in [1..Len(s) -> S]
      /\ s = <<>> <=> Len(s) = 0
  OBVIOUS
<1>2. s \in [1..Len(s) -> Elements(s)]
  BY <1>1 DEF Elements
<1>3. IsFile(s)
  BY <1>1, <1>2, SeqDef DEF IsFile
<1> QED
  BY <1>1, <1>3

LEMMA FileAppend ==
  ASSUME NEW s, IsFile(s), NEW line
  PROVE  WithLine(s, line, Append(s, line))
<1> DEFINE S == Elements(s) \cup {line}
<1>1. s \in [1..Len(s) -> S] /\ Len(s) \in Nat
  BY DEF IsFile, Elements
<1>2. s \in Seq(S) /\ line \in S
  BY <1>1, SeqDef
<1> HIDE DEF S
<1>3. /\ Append(s, line) \in Seq(S)
      /\ Len(Append(s, line)) = Len(s) + 1
      /\ Append(s, line)[Len(s) + 1] = line
      /\ \A i \in 1..Len(s) : Append(s, line)[i] = s[i]
  BY <1>2, AppendProperties
<1>4. IsFile(Append(s, line)) /\ DOMAIN Append(s, line) = 1..Len(Append(s, line))
  BY <1>3, FileSeq
<1> QED
  BY <1>1, <1>3, <1>4 DEF WithLine

LEMMA SameEnd ==
  ASSUME NEW m \in Nat, NEW n \in Nat, 1..m = 1..n
  PROVE  m = n
<1>1. \A i \in Int : (1 <= i /\ i <= m) <=> (1 <= i /\ i <= n)
  <2>1. \A i \in Int : i \in 1..m <=> i \in 1..n
    OBVIOUS
  <2> QED
    BY <2>1
<1> QED
  BY <1>1

LEMMA FileReplace ==
  ASSUME NEW s, IsFile(s), NEW k \in DOMAIN s, NEW line
  PROVE  WithLineAt(s, k, line, [s EXCEPT ![k] = line])
<1> DEFINE t == [s EXCEPT ![k] = line]
           S == Elements(s) \cup {line}
<1>1. /\ s \in [1..Len(s) -> S] /\ Len(s) \in Nat /\ DOMAIN s = 1..Len(s)
  BY DEF IsFile, Elements
<1>2. t \in [1..Len(s) -> S]
  BY <1>1
<1>3. t \in Seq(S)
  BY <1>1, <1>2, SeqDef
<1>4. DOMAIN t = 1..Len(s)
  BY <1>1
<1>5. Len(t) = Len(s) /\ IsFile(t)
  <2> HIDE DEF t
  <2>1. IsFile(t) /\ Len(t) \in Nat /\ DOMAIN t = 1..Len(t)
    <3> HIDE DEF S
    <3> QED
      BY <1>3, FileSeq
  <2>2. Len(t) = Len(s)
    BY <1>1, <1>4, <2>1, SameEnd
  <2> QED
    BY <2>1, <2>2
<1>6. t[k] = line /\ \A i \in 1..Len(s) : i # k => t[i] = s[i]
  BY <1>1
<1> QED
  BY <1>1, <1>4, <1>5, <1>6 DEF WithLineAt

LEMMA PieceOf ==
  ASSUME NEW S, NEW s, NEW m \in Int, NEW n \in Int, m <= n + 1,
         \A i \in m..n : s[i] \in S,
         NEW t, t = SubSeq(s, m, n)
  PROVE  /\ t \in Seq(S)
         /\ Len(t) = n - m + 1
         /\ \A i \in 1..(n - m + 1) : t[i] = s[m + i - 1]
<1>1. SubSeq(s, m, n) \in Seq(S)
  BY SubSeqProperties
<1>2. Len(SubSeq(s, m, n)) = n - m + 1
  OBVIOUS
<1>3. \A i \in 1..(n - m + 1) : SubSeq(s, m, n)[i] = s[m + i - 1]
  OBVIOUS
<1> QED
  BY <1>1, <1>2, <1>3, Zenon

LEMMA BothPieces ==
  ASSUME NEW S, NEW a \in Seq(S), NEW b \in Seq(S)
  PROVE  /\ a \o b \in Seq(S)
         /\ Len(a \o b) = Len(a) + Len(b)
         /\ \A i \in 1..Len(a) : (a \o b)[i] = a[i]
         /\ \A i \in (Len(a) + 1)..(Len(a) + Len(b)) : (a \o b)[i] = b[i - Len(a)]
<1>1. a \o b \in Seq(S) /\ Len(a) \in Nat /\ Len(b) \in Nat
  BY ConcatProperties
<1>2. Len(a \o b) = Len(a) + Len(b)
  BY ConcatProperties
<1>3. \A i \in 1..Len(a) : (a \o b)[i] = a[i]
  OBVIOUS
<1>4. \A i \in (Len(a) + 1)..(Len(a) + Len(b)) : (a \o b)[i] = b[i - Len(a)]
  OBVIOUS
<1> QED
  BY <1>1, <1>2, <1>3, <1>4, Zenon

\* A file without its line k.
LEMMA FileWithout ==
  ASSUME NEW s, IsFile(s), NEW k \in 1..(Len(s) - 1)
  PROVE  WithoutLine(s, k, SubSeq(s, 1, k - 1) \o SubSeq(s, k + 1, Len(s)))
<1> DEFINE S == Elements(s)
           a == SubSeq(s, 1, k - 1)
           b == SubSeq(s, k + 1, Len(s))
<1>1. s \in Seq(S) /\ Len(s) \in Nat /\ k \in Int /\ k >= 1 /\ k <= Len(s) - 1
  BY DEF IsFile
<1> HIDE DEF S
<1>2. /\ a \in Seq(S) /\ Len(a) = k - 1
      /\ \A i \in 1..(k - 1) : a[i] = s[i]
  <2>1. /\ \A i \in 1..(k - 1) : s[i] \in S
        /\ 1 \in Int /\ k - 1 \in Int /\ 1 <= k - 1 + 1
        /\ k - 1 - 1 + 1 = k - 1 /\ \A i \in 1..(k - 1) : 1 + i - 1 = i
    BY <1>1
  <2>2. a = SubSeq(s, 1, k - 1)
    OBVIOUS
  <2> HIDE DEF a
  <2>3. /\ a \in Seq(S) /\ Len(a) = k - 1 - 1 + 1
        /\ \A i \in 1..(k - 1 - 1 + 1) : a[i] = s[1 + i - 1]
    BY <2>1, <2>2, PieceOf
  <2> QED
    BY <2>1, <2>3
<1>3. /\ b \in Seq(S) /\ Len(b) = Len(s) - k
      /\ \A i \in 1..(Len(s) - k) : b[i] = s[k + i]
  <2>1. /\ \A i \in (k + 1)..Len(s) : s[i] \in S
        /\ k + 1 \in Int /\ Len(s) \in Int /\ k + 1 <= Len(s) + 1
        /\ Len(s) - (k + 1) + 1 = Len(s) - k
        /\ \A i \in 1..(Len(s) - k) : k + 1 + i - 1 = k + i
    BY <1>1
  <2>2. b = SubSeq(s, k + 1, Len(s))
    OBVIOUS
  <2> HIDE DEF b
  <2>3. /\ b \in Seq(S) /\ Len(b) = Len(s) - (k + 1) + 1
        /\ \A i \in 1..(Len(s) - (k + 1) + 1) : b[i] = s[k + 1 + i - 1]
    BY <2>1, <2>2, PieceOf
  <2> QED
    BY <2>1, <2>3
<1> HIDE DEF a, b
<1> DEFINE t == a \o b
<1>4. /\ a \o b \in Seq(S)
      /\ Len(a \o b) = Len(a) + Len(b)
      /\ \A i \in 1..Len(a) : (a \o b)[i] = a[i]
      /\ \A i \in (Len(a) + 1)..(Len(a) + Len(b)) : (a \o b)[i] = b[i - Len(a)]
  BY <1>2, <1>3, BothPieces, Zenon
<1>5. /\ Len(t) = Len(s) - 1
      /\ \A i \in 1..(k - 1) : t[i] = s[i]
      /\ \A i \in k..(Len(s) - 1) : t[i] = s[i + 1]
  <2> HIDE DEF t
  <2>1. /\ Len(t) = Len(a) + Len(b)
        /\ \A i \in 1..Len(a) : t[i] = a[i]
        /\ \A i \in (Len(a) + 1)..(Len(a) + Len(b)) : t[i] = b[i - Len(a)]
    BY <1>4 DEF t
  <2>2. ASSUME NEW i \in k..(Len(s) - 1)
        PROVE  t[i] = s[i + 1]
    <3>0. i \in (Len(a) + 1)..(Len(a) + Len(b)) /\ Len(a) = k - 1
      BY <1>1, <1>2, <1>3
    <3>1. t[i] = b[i - (k - 1)]
      BY <2>1, <3>0
    <3>2. i - (k - 1) \in 1..(Len(s) - k) /\ k + (i - (k - 1)) = i + 1
      BY <1>1
    <3> QED
      BY <1>3, <3>1, <3>2
  <2>3. \A i \in 1..(k - 1) : t[i] = s[i]
    BY <1>2, <2>1
  <2>4. Len(t) = Len(s) - 1
    BY <1>1, <1>2, <1>3, <2>1
  <2> QED
    BY <2>2, <2>3, <2>4
<1>6. IsFile(t) /\ DOMAIN t = 1..(Len(s) - 1)
  <2>1. t \in Seq(S)
    BY <1>4
  <2> HIDE DEF t
  <2> QED
    BY <1>5, <2>1, FileSeq
<1> QED
  <2>1. WithoutLine(s, k, t)
    <3> HIDE DEF t
    <3> QED
      BY <1>1, <1>5, <1>6 DEF WithoutLine
  <2> QED
    BY <2>1 DEF a, b

------------------------------------------------------------------------------
\* known_hosts and the audit log.

JobAt == {"off", "decide", "write", "audit", "append", "done"}
JobRec == [at : JobAt, reviewed : [Slot -> Fingerprint \cup {Unreviewed}],
        offered : SUBSET Key, accepted : SUBSET Key, rejected : SUBSET Slot,
        existing : SUBSET Key, owed : SUBSET Fact]

\* Whatever a command was told, has accepted or has read is vouched for; and
\* while one command is at work at a time, it writes to the file that it read.
TrustInv ==
  /\ trusted \subseteq vouched
  /\ \A p \in Onboarder :
       /\ job[p].accepted \cup job[p].existing \subseteq vouched
       /\ \A k \in Key : job[p].reviewed[k.slot] = k.print => k \in vouched
  /\ ~overlapped =>
       /\ \A p, q \in AtWork : p = q
       /\ \A p \in Onboarder :
            /\ job[p].at = "write" => job[p].existing = trusted
            /\ job[p].at \in {"audit", "append", "done"} =>
                 job[p].accepted \subseteq trusted

Unreadable(line) == line \in {Log!Torn, Log!Garbled}

Chained(line) == line = Log!Record(line.seq, line.subject, line.prev)

\* Records are about facts; before the damage each one has its own hash.
LogShape ==
  /\ IsFile(lines)
  /\ \A i \in DOMAIN lines : ~Unreadable(lines[i]) =>
       /\ lines[i].subject \in Fact /\ lines[i].seq \in Nat \ {0}
       /\ ~damaged => Chained(lines[i])
  /\ returned \in Nat

\* Who is in append holds a pen, and nobody else.
PenInv ==
  /\ DOMAIN pen = Onboarder
  /\ \A p \in Onboarder :
       LET q == pen[p]
       IN  /\ q = [at |-> q.at, subject |-> q.subject, prev |-> q.prev, seq |-> q.seq]
           /\ q.at \in {"rest", "seq", "write"}
           /\ q.at = "rest" <=> job[p].at # "append"
           /\ q.at # "rest" => q.subject \in Fact
           /\ q.at = "write" => q.seq \in Nat \ {0}

\* The line at i is a record whose place in the chain is wrong, behind a record.
BrokenAt(f, i) ==
  /\ i \in 1..Len(f) /\ ~Unreadable(f[i])
  /\ i > 1 => ~Unreadable(f[i - 1])
  /\ LET prev == IF i = 1 THEN Log!NoHash ELSE f[i - 1].hash
     IN  ~ /\ f[i].seq = i
           /\ f[i].prev = prev
           /\ f[i].hash = Log!HashOf(f[i].seq, f[i].subject, prev)

\* A log that nobody touched has one line for every append that returned, and
\* with one command at a time it is linked and the pen continues it.  Damage
\* breaks the chain between records, and these are not written again.
ChainInv ==
  /\ Intact => Len(lines) = returned
  /\ Intact /\ ~overlapped =>
       /\ Log!Linked(lines)
       /\ \A p \in Onboarder :
            /\ pen[p].at # "rest" => pen[p].prev = Log!LastHash
            /\ pen[p].at = "write" => pen[p].seq = Len(lines) + 1
  /\ damaged => \E i \in Nat : BrokenAt(lines, i)

\* What a command has to record is still owed, under its pen, or in the file.
RecordInv ==
  \A p \in Onboarder :
    /\ job[p].at = "done" => job[p].owed = {}
    /\ Intact /\ job[p].at \in {"write", "audit", "append", "done"} =>
         \A fact \in OwedFor(job[p].accepted, job[p].rejected) :
           \/ fact \in job[p].owed
           \/ job[p].at = "append" /\ pen[p].subject = fact
           \/ Recorded(fact)

OnbTypes ==
  /\ trusted \subseteq Key /\ vouched \subseteq Key
  /\ crashes \in 0..MaxCrashes
  /\ overlapped \in BOOLEAN /\ damaged \in BOOLEAN
  /\ job \in [Onboarder -> JobRec]

OnbInv == OnbTypes /\ TrustInv /\ LogShape /\ PenInv /\ ChainInv /\ RecordInv

LEMMA NatLeast ==
  ASSUME NEW T \in SUBSET Nat, T # {}
  PROVE  \E x \in T : \A y \in T : x <= y
<1>1. PICK x \in T : \A y \in T : ~ (<<y, x>> \in OpToRel(<, Nat))
  BY NatLessThanWellFounded, WFMin, Zenon
<1>2. \A y \in T : ~ (y < x)
  BY <1>1 DEF OpToRel
<1> QED
  BY <1>2

LEMMA Latest ==
  ASSUME NEW n \in Nat, NEW T \in SUBSET (1..n), T # {}
  PROVE  LET i == CHOOSE i \in T : \A j \in T : j <= i
         IN  i \in T /\ \A j \in T : j <= i
<1> DEFINE U == {n - i : i \in T}
<1>1. U \in SUBSET Nat /\ U # {}
  <2>1. \A i \in T : n - i \in Nat
    OBVIOUS
  <2> QED
    BY <2>1
<1>2. PICK x \in U : \A y \in U : x <= y
  <2> HIDE DEF U
  <2> QED
    BY <1>1, NatLeast
<1>3. PICK i \in T : x = n - i
  BY <1>2
<1>4. \A j \in T : j <= i
  <2> SUFFICES ASSUME NEW j \in T
               PROVE  j <= i
    OBVIOUS
  <2>1. n - j \in U
    OBVIOUS
  <2>2. n - i <= n - j
    BY <1>2, <1>3, <2>1
  <2> QED
    BY <2>2
<1> QED
  BY <1>4

LEMMA RecordFields ==
  ASSUME NEW seq, NEW subject, NEW prev
  PROVE  LET r == Log!Record(seq, subject, prev)
         IN  /\ r.seq = seq /\ r.subject = subject /\ r.prev = prev
             /\ r.hash = Log!HashOf(seq, subject, prev)
             /\ ~Unreadable(r) /\ Chained(r)
<1> DEFINE r == Log!Record(seq, subject, prev)
<1>1. /\ r.seq = seq /\ r.subject = subject /\ r.prev = prev /\ r.is = "record"
      /\ r.hash = Log!HashOf(seq, subject, prev)
  BY DEF Log!Record
<1>2. r # Log!Torn /\ r # Log!Garbled
  BY DEF Log!Record, Log!Torn, Log!Garbled
<1>3. Chained(r)
  BY <1>1 DEF Chained
<1> QED
  BY <1>1, <1>2, <1>3 DEF Unreadable

\* The file went on with one more line; a torn one at its end may have swallowed
\* it.
GrownBy(line) ==
  /\ IsFile(lines') /\ Len(lines) \in Nat /\ Len(lines') \in Nat
  /\ DOMAIN lines = 1..Len(lines) /\ DOMAIN lines' = 1..Len(lines')
  /\ \A i \in 1..Len(lines) :
       \/ lines'[i] = lines[i]
       \/ Unreadable(lines[i]) /\ Unreadable(lines'[i])
  /\ \/ /\ Len(lines') = Len(lines)
        /\ \E i \in 1..Len(lines) : Unreadable(lines[i]) /\ Unreadable(lines'[i])
     \/ /\ Len(lines') = Len(lines) + 1
        /\ lines'[Len(lines) + 1] = line

LEMMA LastLine ==
  ASSUME IsFile(lines), lines # <<>>
  PROVE  Len(lines) \in 1..Len(lines) /\ DOMAIN lines = 1..Len(lines)
<1>1. Len(lines) \in Nat /\ DOMAIN lines = 1..Len(lines) /\ Len(lines) # 0
  BY FileSeq DEF IsFile
<1> QED
  BY <1>1

LEMMA LineGrows ==
  ASSUME IsFile(lines), NEW line, WithLine(lines, line, lines')
  PROVE  GrownBy(line)
<1>1. DOMAIN lines = 1..Len(lines)
  BY FileSeq DEF IsFile
<1> QED
  BY <1>1 DEF GrownBy, WithLine

LEMMA WriteGrows ==
  ASSUME IsFile(lines), NEW line, lines' = Log!Added(line)
  PROVE  GrownBy(line)
<1>1. CASE Log!Unended
  <2>1. /\ Len(lines) \in 1..Len(lines) /\ DOMAIN lines = 1..Len(lines)
        /\ lines[Len(lines)] = Log!Torn
    BY <1>1, LastLine DEF Log!Unended
  <2>2. lines' = [lines EXCEPT ![Len(lines)] = Log!Garbled]
    BY <1>1 DEF Log!Added
  <2>3. WithLineAt(lines, Len(lines), Log!Garbled, lines')
    <3>1. Len(lines) \in DOMAIN lines
      BY <2>1
    <3>2. WithLineAt(lines, Len(lines), Log!Garbled,
                     [lines EXCEPT ![Len(lines)] = Log!Garbled])
      BY <3>1, FileReplace, Zenon
    <3> QED
      BY <2>2, <3>2, Zenon
  <2> QED
    BY <2>1, <2>3 DEF GrownBy, Unreadable, WithLineAt
<1>2. CASE ~Log!Unended
  <2>1. lines' = Append(lines, line)
    BY <1>2 DEF Log!Added
  <2>2. WithLine(lines, line, Append(lines, line))
    BY FileAppend, Zenon
  <2>3. WithLine(lines, line, lines')
    BY <2>1, <2>2, Zenon
  <2> QED
    BY <2>3, LineGrows, Zenon
<1> QED
  BY <1>1, <1>2

LEMMA TearGrows ==
  ASSUME IsFile(lines),
         lines' = IF Log!Unended THEN lines ELSE Append(lines, Log!Torn)
  PROVE  GrownBy(Log!Torn)
<1>0. Len(lines) \in Nat /\ DOMAIN lines = 1..Len(lines)
  BY FileSeq DEF IsFile
<1>1. CASE Log!Unended
  <2>1. /\ Len(lines) \in 1..Len(lines) /\ lines[Len(lines)] = Log!Torn
    BY <1>1, LastLine DEF Log!Unended
  <2>2. lines' = lines
    BY <1>1
  <2> QED
    BY <1>0, <2>1, <2>2 DEF GrownBy, Unreadable
<1>2. CASE ~Log!Unended
  <2>1. lines' = Append(lines, Log!Torn)
    BY <1>2
  <2>2. WithLine(lines, Log!Torn, Append(lines, Log!Torn))
    BY FileAppend, Zenon
  <2>3. WithLine(lines, Log!Torn, lines')
    BY <2>1, <2>2, Zenon
  <2> QED
    BY <2>3, LineGrows, Zenon
<1> QED
  BY <1>1, <1>2

\* What is readable stays; a file without an unreadable line had none before.
LEMMA GrownShape ==
  ASSUME LogShape, NEW line, GrownBy(line), damaged' = damaged, returned' \in Nat,
         \/ Unreadable(line)
         \/ /\ line.subject \in Fact /\ line.seq \in Nat \ {0}
            /\ Chained(line)
  PROVE  LogShape'
<1> SUFFICES ASSUME NEW i \in DOMAIN lines', ~Unreadable(lines'[i])
             PROVE  /\ lines'[i].subject \in Fact /\ lines'[i].seq \in Nat \ {0}
                    /\ ~damaged' => Chained(lines'[i])
  BY DEF LogShape, GrownBy, Unreadable, Chained
<1>1. CASE i \in 1..Len(lines)
  <2>1. lines'[i] = lines[i] /\ i \in DOMAIN lines
    BY <1>1 DEF GrownBy
  <2> QED
    BY <2>1 DEF LogShape
<1>2. CASE i \notin 1..Len(lines)
  <2>1. /\ i \in 1..Len(lines') /\ Len(lines) \in Nat
        /\ \/ Len(lines') = Len(lines)
           \/ Len(lines') = Len(lines) + 1 /\ lines'[Len(lines) + 1] = line
    BY DEF GrownBy
  <2>2. lines'[i] = line
    BY <1>2, <2>1
  <2> QED
    BY <2>2
<1> QED
  BY <1>1, <1>2

LEMMA GrownIntact ==
  ASSUME NEW line, GrownBy(line), damaged' = damaged, Intact'
  PROVE  /\ Intact /\ ~Unreadable(line)
         /\ Len(lines') = Len(lines) + 1
         /\ lines'[Len(lines) + 1] = line
         /\ \A i \in 1..Len(lines) : lines'[i] = lines[i]
<1>1. \A i \in 1..Len(lines') : ~Unreadable(lines'[i])
  BY DEF Intact, GrownBy, Log!ReadableAt, Log!Torn, Log!Garbled, Unreadable
<1>2. Len(lines') = Len(lines) + 1 /\ lines'[Len(lines) + 1] = line
  BY <1>1 DEF GrownBy
<1>3. Len(lines) + 1 \in 1..Len(lines') /\ 1..Len(lines) \subseteq 1..Len(lines')
  BY <1>2 DEF GrownBy
<1>4. \A i \in 1..Len(lines) : lines'[i] = lines[i] /\ ~Unreadable(lines[i])
  BY <1>1, <1>3 DEF GrownBy
<1>5. Intact
  BY <1>4 DEF Intact, GrownBy, Log!ReadableAt, Unreadable
<1> QED
  BY <1>1, <1>2, <1>3, <1>4, <1>5

LEMMA GrownBroken ==
  ASSUME NEW line, GrownBy(line), NEW i \in Nat, BrokenAt(lines, i)
  PROVE  BrokenAt(lines, i)'
<1>1. i \in 1..Len(lines) /\ ~Unreadable(lines[i])
      /\ (i > 1 => i - 1 \in 1..Len(lines) /\ ~Unreadable(lines[i - 1]))
  <2>1. /\ i \in 1..Len(lines) /\ ~Unreadable(lines[i])
        /\ (i > 1 => ~Unreadable(lines[i - 1]))
    BY DEF BrokenAt
  <2>2. Len(lines) \in Nat
    BY DEF GrownBy
  <2>3. i > 1 => i - 1 \in 1..Len(lines)
    BY <2>1, <2>2
  <2> QED
    BY <2>1, <2>3
<1>2. lines'[i] = lines[i] /\ (i > 1 => lines'[i - 1] = lines[i - 1])
  BY <1>1 DEF GrownBy
<1>3. i \in 1..Len(lines')
  <2>1. /\ Len(lines) \in Nat /\ Len(lines') \in Nat
        /\ Len(lines') = Len(lines) \/ Len(lines') = Len(lines) + 1
    BY DEF GrownBy
  <2> QED
    BY <1>1, <2>1
<1> QED
  BY <1>1, <1>2, <1>3 DEF BrokenAt, Unreadable, Log!NoHash, Log!HashOf,
    Log!Torn, Log!Garbled

LEMMA IdleIsJob == Idle \in JobRec
BY DEF Idle, JobRec, JobAt

LEMMA OnbInvInit == OnboardingInit => OnbInv
<1> SUFFICES ASSUME OnboardingInit
             PROVE  OnbInv
  OBVIOUS
<1> USE DEF OnboardingInit
<1>1. OnbTypes
  <2>1. job \in [Onboarder -> JobRec]
    BY IdleIsJob
  <2>2. 0 \in 0..MaxCrashes
    BY OnboardingAssumption
  <2> QED
    BY <2>1, <2>2 DEF OnbTypes
<1>2. TrustInv
  BY OnboardingAssumption DEF TrustInv, Idle, AtWork, Key
<1>3. lines = <<>> /\ IsFile(lines) /\ Len(lines) = 0 /\ DOMAIN lines = {}
  <2>1. <<>> \in Seq({})
    OBVIOUS
  <2>2. IsFile(<<>>)
    BY <2>1, FileSeq
  <2>3. Len(<<>>) = 0 /\ DOMAIN <<>> = {}
    OBVIOUS
  <2>4. lines = <<>>
    BY DEF Log!LogInit
  <2> QED
    BY <2>2, <2>3, <2>4
<1>4. LogShape
  BY <1>3 DEF LogShape, Log!LogInit
<1>5. PenInv
  BY DEF PenInv, Log!LogInit, Log!Resting, Idle
<1>6. ChainInv
  BY <1>3 DEF ChainInv, Log!LogInit, Log!Resting, Log!Linked
<1>7. RecordInv
  BY DEF RecordInv, Idle
<1> QED
  BY <1>1, <1>2, <1>4, <1>5, <1>6, <1>7 DEF OnbInv

LEMMA JobSet ==
  ASSUME OnbTypes, NEW p \in Onboarder, NEW row \in JobRec,
         job' = [job EXCEPT ![p] = row]
  PROVE  /\ job' \in [Onboarder -> JobRec]
         /\ job'[p] = row
         /\ \A q \in Onboarder \ {p} : job'[q] = job[q]
BY DEF OnbTypes

LEMMA JobFields ==
  ASSUME OnbTypes, NEW p \in Onboarder
  PROVE  /\ job[p] \in JobRec /\ job[p].at \in JobAt
         /\ job[p].reviewed \in [Slot -> Fingerprint \cup {Unreviewed}]
         /\ job[p].offered \subseteq Key /\ job[p].accepted \subseteq Key
         /\ job[p].rejected \subseteq Slot /\ job[p].existing \subseteq Key
         /\ job[p].owed \subseteq Fact
BY DEF OnbTypes, JobRec

\* A step that leaves the log alone, and nobody enters or leaves append.
LEMMA LogKept ==
  ASSUME LogShape, PenInv, ChainInv, UNCHANGED <<damaged, logVars>>,
         overlapped => overlapped',
         \A q \in Onboarder : job'[q].at = "append" <=> job[q].at = "append"
  PROVE  LogShape' /\ PenInv' /\ ChainInv'
<1>1. lines' = lines /\ pen' = pen /\ returned' = returned /\ damaged' = damaged
  BY DEF logVars
<1>2. LogShape'
  BY <1>1 DEF LogShape, Unreadable, Chained
<1>3. PenInv'
  BY <1>1 DEF PenInv
<1>4. Intact' <=> Intact
  BY <1>1 DEF Intact
<1>5. Log!LastHash' = Log!LastHash
  BY <1>1 DEF Log!LastHash
<1>6. ASSUME NEW i \in Nat, BrokenAt(lines, i)
      PROVE  BrokenAt(lines, i)'
  BY <1>1, <1>6 DEF BrokenAt, Unreadable
<1>7. Log!Linked(lines)' <=> Log!Linked(lines)
  BY <1>1 DEF Log!Linked
<1>8. ChainInv'
  BY <1>1, <1>4, <1>5, <1>6, <1>7 DEF ChainInv
<1> QED
  BY <1>2, <1>3, <1>8

\* Then nothing changes about who has recorded what, but for p.
LEMMA RecordKept ==
  ASSUME RecordInv, UNCHANGED <<damaged, logVars>>, NEW p \in Onboarder,
         \A q \in Onboarder \ {p} : job'[q] = job[q],
         job'[p].at = "done" => job'[p].owed = {},
         Intact /\ job'[p].at \in {"write", "audit", "append", "done"} =>
           \A fact \in OwedFor(job'[p].accepted, job'[p].rejected) :
             \/ fact \in job'[p].owed
             \/ job'[p].at = "append" /\ pen[p].subject = fact
             \/ Recorded(fact)
  PROVE  RecordInv'
<1>1. lines' = lines /\ pen' = pen /\ damaged' = damaged
  BY DEF logVars
<1>2. /\ Intact' <=> Intact
      /\ \A fact : Recorded(fact)' <=> Recorded(fact)
  BY <1>1 DEF Intact, Recorded
<1> SUFFICES ASSUME NEW q \in Onboarder
             PROVE  /\ job'[q].at = "done" => job'[q].owed = {}
                    /\ Intact /\ job'[q].at \in {"write", "audit", "append", "done"} =>
                         \A fact \in OwedFor(job'[q].accepted, job'[q].rejected) :
                           \/ fact \in job'[q].owed
                           \/ job'[q].at = "append" /\ pen[q].subject = fact
                           \/ Recorded(fact)
  BY <1>1, <1>2 DEF RecordInv, OwedFor
<1>3. CASE q = p
  BY <1>3
<1>4. CASE q # p
  BY <1>4 DEF RecordInv
<1> QED
  BY <1>3, <1>4

LEMMA OnbStart ==
  ASSUME OnbInv, NEW p \in Onboarder, Start(p)
  PROVE  OnbInv'
<1> USE DEF OnbInv
<1>1. PICK reviewed \in [Slot -> Fingerprint \cup {Unreviewed}],
           offered \in SUBSET Key :
        /\ job' = [job EXCEPT ![p] = [Idle EXCEPT !.at = "decide",
                                                  !.reviewed = reviewed,
                                                  !.offered = offered]]
        /\ vouched' = vouched \cup {k \in Key : reviewed[k.slot] = k.print}
  BY DEF Start
<1> DEFINE row == [Idle EXCEPT !.at = "decide", !.reviewed = reviewed,
                               !.offered = offered]
<1>2. /\ row \in JobRec /\ row.at = "decide" /\ row.reviewed = reviewed
      /\ row.accepted = {} /\ row.existing = {}
  BY DEF Idle, JobRec, JobAt
<1>3. job' = [job EXCEPT ![p] = row]
  BY <1>1
<1> HIDE DEF row
<1>4. /\ job' \in [Onboarder -> JobRec] /\ job'[p] = row
      /\ \A q \in Onboarder \ {p} : job'[q] = job[q]
  BY <1>2, <1>3, JobSet
<1>5. /\ UNCHANGED <<trusted, crashes, damaged, logVars>>
      /\ overlapped' = (overlapped \/ AtWork # {})
      /\ job[p].at = "off"
  BY DEF Start
<1>6. OnbTypes'
  BY <1>1, <1>4, <1>5 DEF OnbTypes
<1>7. TrustInv'
  <2>1. trusted' \subseteq vouched'
    BY <1>1, <1>5 DEF TrustInv
  <2>2. \A q \in Onboarder :
          /\ job'[q].accepted \cup job'[q].existing \subseteq vouched'
          /\ \A k \in Key : job'[q].reviewed[k.slot] = k.print => k \in vouched'
    BY <1>1, <1>2, <1>4 DEF TrustInv
  <2>3. ASSUME ~overlapped'
        PROVE  \A q \in Onboarder :
                 /\ job'[q].at = "write" => job'[q].existing = trusted'
                 /\ job'[q].at \in {"audit", "append", "done"} =>
                      job'[q].accepted \subseteq trusted'
    BY <1>2, <1>4, <1>5, <2>3 DEF TrustInv
  <2>4. ASSUME ~overlapped'
        PROVE  \A q, r \in AtWork' : q = r
    <3>1. \A q \in Onboarder : job[q].at \in {"off", "done"}
      BY <1>5, <2>4 DEF AtWork
    <3>2. \A q \in AtWork' : q = p
      BY <1>4, <3>1 DEF AtWork
    <3> QED
      BY <3>2
  <2> QED
    BY <2>1, <2>2, <2>3, <2>4 DEF TrustInv
<1>8. LogShape' /\ PenInv' /\ ChainInv'
  BY <1>2, <1>4, <1>5, LogKept
<1>9. RecordInv'
  BY <1>2, <1>4, <1>5, RecordKept
<1> QED
  BY <1>6, <1>7, <1>8, <1>9

LEMMA OnbDecide ==
  ASSUME OnbInv, NEW p \in Onboarder, Decide(p)
  PROVE  OnbInv'
<1> USE DEF OnbInv
<1>0. PICK key \in job[p].offered : \E yes \in Answers(job[p].reviewed, key) :
        /\ job' = [job EXCEPT
             ![p].offered = @ \ {key},
             ![p].accepted = IF yes THEN @ \cup {key} ELSE @,
             ![p].rejected = IF yes THEN @ ELSE @ \cup {key.slot}]
        /\ vouched' = IF yes /\ job[p].reviewed[key.slot] = Unreviewed
                      THEN vouched \cup {key} ELSE vouched
  BY DEF Decide
<1>1. PICK yes \in Answers(job[p].reviewed, key) :
        /\ job' = [job EXCEPT
             ![p].offered = @ \ {key},
             ![p].accepted = IF yes THEN @ \cup {key} ELSE @,
             ![p].rejected = IF yes THEN @ ELSE @ \cup {key.slot}]
        /\ vouched' = IF yes /\ job[p].reviewed[key.slot] = Unreviewed
                      THEN vouched \cup {key} ELSE vouched
  BY <1>0
<1> DEFINE row == [job[p] EXCEPT !.offered = @ \ {key},
                     !.accepted = IF yes THEN @ \cup {key} ELSE @,
                     !.rejected = IF yes THEN @ ELSE @ \cup {key.slot}]
<1>2. key \in Key /\ key.slot \in Slot
  BY <1>1, JobFields DEF Key
<1>3. /\ row \in JobRec /\ row.at = job[p].at /\ row.reviewed = job[p].reviewed
      /\ row.existing = job[p].existing
      /\ row.accepted = IF yes THEN job[p].accepted \cup {key} ELSE job[p].accepted
  BY <1>2, JobFields DEF JobRec
<1>4. job' = [job EXCEPT ![p] = row]
  BY <1>1, JobFields DEF OnbTypes, JobRec
<1> HIDE DEF row
<1>5. /\ job' \in [Onboarder -> JobRec] /\ job'[p] = row
      /\ \A q \in Onboarder \ {p} : job'[q] = job[q]
  BY <1>3, <1>4, JobSet
<1>6. /\ UNCHANGED <<trusted, crashes, overlapped, damaged, logVars>>
      /\ job[p].at = "decide"
  BY DEF Decide
<1>7. OnbTypes'
  BY <1>1, <1>2, <1>5, <1>6 DEF OnbTypes
<1>8. TrustInv'
  <2>1. yes => key \in vouched'
    <3>1. CASE job[p].reviewed[key.slot] = Unreviewed
      BY <1>1, <3>1
    <3>2. CASE job[p].reviewed[key.slot] # Unreviewed
      BY <1>1, <1>2, <3>2 DEF Answers, TrustInv
    <3> QED
      BY <3>1, <3>2
  <2>2. vouched \subseteq vouched'
    BY <1>1
  <2>3. \A q \in Onboarder :
          /\ job'[q].accepted \cup job'[q].existing \subseteq vouched'
          /\ \A k \in Key : job'[q].reviewed[k.slot] = k.print => k \in vouched'
    BY <1>3, <1>5, <2>1, <2>2 DEF TrustInv
  <2>4. AtWork' = AtWork /\ trusted' \subseteq vouched'
    BY <1>3, <1>5, <1>6, <2>2 DEF AtWork, TrustInv
  <2>5. ~overlapped' => \A q \in Onboarder :
          /\ job'[q].at = "write" => job'[q].existing = trusted'
          /\ job'[q].at \in {"audit", "append", "done"} =>
               job'[q].accepted \subseteq trusted'
    BY <1>3, <1>5, <1>6 DEF TrustInv
  <2> QED
    BY <1>6, <2>3, <2>4, <2>5 DEF TrustInv
<1>9. LogShape' /\ PenInv' /\ ChainInv'
  BY <1>3, <1>5, <1>6, LogKept
<1>10. RecordInv'
  BY <1>3, <1>5, <1>6, RecordKept
<1> QED
  BY <1>7, <1>8, <1>9, <1>10

LEMMA OwedAreFacts ==
  ASSUME NEW accepted \in SUBSET Key, NEW rejected \in SUBSET Slot
  PROVE  OwedFor(accepted, rejected) \subseteq Fact
<1>1. \A k \in accepted : [action |-> "confirm", slot |-> k.slot] \in Fact
  BY DEF Key, Fact
<1>2. [action : {"reject"}, slot : rejected] \subseteq Fact
  BY DEF Fact
<1> QED
  BY <1>1, <1>2 DEF OwedFor

LEMMA OnbReadKnownHosts ==
  ASSUME OnbInv, NEW p \in Onboarder, ReadKnownHosts(p)
  PROVE  OnbInv'
<1> USE DEF OnbInv
<1> DEFINE to == IF job[p].accepted = {} THEN "audit" ELSE "write"
           row == [job[p] EXCEPT !.at = to, !.existing = trusted,
                     !.owed = OwedFor(job[p].accepted, job[p].rejected)]
<1>1. OwedFor(job[p].accepted, job[p].rejected) \subseteq Fact
  BY JobFields, OwedAreFacts
<1>2. trusted \subseteq Key
  BY DEF OnbTypes
<1>3. /\ row \in JobRec /\ row.at = to /\ row.reviewed = job[p].reviewed
      /\ row.existing = trusted
      /\ row.accepted = job[p].accepted /\ row.rejected = job[p].rejected
      /\ row.owed = OwedFor(job[p].accepted, job[p].rejected)
  BY <1>1, <1>2, JobFields DEF JobRec, JobAt
<1>4. job' = [job EXCEPT ![p] = row]
  BY JobFields DEF ReadKnownHosts, OnbTypes, JobRec
<1>5. to \in {"audit", "write"} /\ (to = "audit" => job[p].accepted = {})
  OBVIOUS
<1> HIDE DEF row, to
<1>6. /\ job' \in [Onboarder -> JobRec] /\ job'[p] = row
      /\ \A q \in Onboarder \ {p} : job'[q] = job[q]
  BY <1>3, <1>4, JobSet
<1>7. /\ UNCHANGED <<trusted, vouched, crashes, overlapped, damaged, logVars>>
      /\ job[p].at = "decide"
  BY DEF ReadKnownHosts
<1>8. OnbTypes'
  BY <1>6, <1>7 DEF OnbTypes
<1>9. TrustInv'
  <2>1. \A q \in Onboarder :
          /\ job'[q].accepted \cup job'[q].existing \subseteq vouched'
          /\ \A k \in Key : job'[q].reviewed[k.slot] = k.print => k \in vouched'
    BY <1>3, <1>6, <1>7 DEF TrustInv
  <2>2. AtWork' = AtWork /\ trusted' \subseteq vouched'
    BY <1>3, <1>5, <1>6, <1>7 DEF AtWork, TrustInv
  <2>3. ~overlapped' => \A q \in Onboarder :
          /\ job'[q].at = "write" => job'[q].existing = trusted'
          /\ job'[q].at \in {"audit", "append", "done"} =>
               job'[q].accepted \subseteq trusted'
    BY <1>3, <1>5, <1>6, <1>7 DEF TrustInv
  <2> QED
    BY <1>7, <2>1, <2>2, <2>3 DEF TrustInv
<1>10. LogShape' /\ PenInv' /\ ChainInv'
  BY <1>3, <1>5, <1>6, <1>7, LogKept
<1>11. RecordInv'
  BY <1>3, <1>5, <1>6, <1>7, RecordKept
<1> QED
  BY <1>8, <1>9, <1>10, <1>11

\* While one command is at work at a time, what is trusted stays.
LEMMA WriteKeeps ==
  ASSUME OnbInv, NEW p \in Onboarder, WriteKnownHosts(p), ~overlapped
  PROVE  trusted \subseteq trusted'
BY DEF OnbInv, TrustInv, WriteKnownHosts, Merged

LEMMA JobTo ==
  ASSUME OnbTypes, NEW p \in Onboarder, NEW to \in JobAt,
         job' = [job EXCEPT ![p].at = to]
  PROVE  /\ job' \in [Onboarder -> JobRec]
         /\ job'[p].at = to /\ job'[p].reviewed = job[p].reviewed
         /\ job'[p].accepted = job[p].accepted /\ job'[p].owed = job[p].owed
         /\ job'[p].rejected = job[p].rejected
         /\ job'[p].existing = job[p].existing
         /\ \A q \in Onboarder \ {p} : job'[q] = job[q]
<1> DEFINE row == [job[p] EXCEPT !.at = to]
<1>1. /\ row \in JobRec /\ row.at = to /\ row.reviewed = job[p].reviewed
      /\ row.accepted = job[p].accepted /\ row.owed = job[p].owed
      /\ row.rejected = job[p].rejected /\ row.existing = job[p].existing
  BY JobFields DEF JobRec
<1>2. job' = [job EXCEPT ![p] = row]
  BY DEF OnbTypes
<1> HIDE DEF row
<1> QED
  BY <1>1, <1>2, JobSet

LEMMA OnbWriteKnownHosts ==
  ASSUME OnbInv, NEW p \in Onboarder, WriteKnownHosts(p)
  PROVE  OnbInv'
<1> USE DEF OnbInv
<1>1. /\ job[p].at = "write"
      /\ trusted' = job[p].existing \cup job[p].accepted
      /\ job' = [job EXCEPT ![p].at = "audit"]
      /\ UNCHANGED <<vouched, crashes, overlapped, damaged, logVars>>
  BY DEF WriteKnownHosts, Merged
<1>2. /\ job' \in [Onboarder -> JobRec]
      /\ job'[p].at = "audit" /\ job'[p].reviewed = job[p].reviewed
      /\ job'[p].accepted = job[p].accepted /\ job'[p].owed = job[p].owed
      /\ job'[p].rejected = job[p].rejected
      /\ job'[p].existing = job[p].existing
      /\ \A q \in Onboarder \ {p} : job'[q] = job[q]
  BY <1>1, JobTo DEF JobAt
<1>3. OnbTypes'
  BY <1>1, <1>2, JobFields DEF OnbTypes
<1>4. TrustInv'
  <2>1. \A q \in Onboarder :
          /\ job'[q].accepted \cup job'[q].existing \subseteq vouched'
          /\ \A k \in Key : job'[q].reviewed[k.slot] = k.print => k \in vouched'
    BY <1>1, <1>2 DEF TrustInv
  <2>2. AtWork' = AtWork /\ trusted' \subseteq vouched' /\ p \in AtWork
    BY <1>1, <1>2 DEF AtWork, TrustInv
  <2>3. ASSUME ~overlapped', NEW q \in Onboarder
        PROVE  /\ job'[q].at = "write" => job'[q].existing = trusted'
               /\ job'[q].at \in {"audit", "append", "done"} =>
                    job'[q].accepted \subseteq trusted'
    <3>1. CASE q = p
      BY <1>1, <1>2, <3>1
    <3>2. CASE q # p
      <4>1. q \notin AtWork
        BY <1>1, <2>2, <2>3, <3>2 DEF TrustInv
      <4>2. job'[q].at \in {"off", "done"} /\ job'[q] = job[q]
        BY <1>2, <3>2, <4>1 DEF AtWork
      <4> QED
        BY <1>1, <2>3, <4>2, WriteKeeps DEF TrustInv
    <3> QED
      BY <3>1, <3>2
  <2> QED
    BY <1>1, <2>1, <2>2, <2>3 DEF TrustInv
<1>5. LogShape' /\ PenInv' /\ ChainInv'
  BY <1>1, <1>2, LogKept
<1>6. RecordInv'
  BY <1>1, <1>2, RecordKept DEF RecordInv
<1> QED
  BY <1>3, <1>4, <1>5, <1>6

LEMMA OnbFinish ==
  ASSUME OnbInv, NEW p \in Onboarder, Finish(p)
  PROVE  OnbInv'
<1> USE DEF OnbInv
<1>1. /\ job[p].at = "audit" /\ job[p].owed = {}
      /\ job' = [job EXCEPT ![p].at = "done"]
      /\ UNCHANGED <<trusted, vouched, crashes, overlapped, damaged, logVars>>
  BY DEF Finish
<1>2. /\ job' \in [Onboarder -> JobRec]
      /\ job'[p].at = "done" /\ job'[p].reviewed = job[p].reviewed
      /\ job'[p].accepted = job[p].accepted /\ job'[p].owed = job[p].owed
      /\ job'[p].rejected = job[p].rejected
      /\ job'[p].existing = job[p].existing
      /\ \A q \in Onboarder \ {p} : job'[q] = job[q]
  BY <1>1, JobTo DEF JobAt
<1>3. OnbTypes'
  BY <1>1, <1>2 DEF OnbTypes
<1>4. TrustInv'
  <2>1. AtWork' \subseteq AtWork
    BY <1>1, <1>2 DEF AtWork
  <2> QED
    BY <1>1, <1>2, <2>1 DEF TrustInv
<1>5. LogShape' /\ PenInv' /\ ChainInv'
  BY <1>1, <1>2, LogKept
<1>6. RecordInv'
  BY <1>1, <1>2, RecordKept DEF RecordInv
<1> QED
  BY <1>3, <1>4, <1>5, <1>6

\* Between append and what surrounds it, nothing changes about trust.
LEMMA TrustMoved ==
  ASSUME TrustInv, UNCHANGED <<trusted, vouched, overlapped>>,
         \A q \in Onboarder :
           /\ job'[q].accepted = job[q].accepted
           /\ job'[q].existing = job[q].existing
           /\ job'[q].reviewed = job[q].reviewed
           /\ \/ job'[q].at = job[q].at
              \/ {job'[q].at, job[q].at} = {"audit", "append"}
  PROVE  TrustInv'
<1>1. AtWork' = AtWork
  BY DEF AtWork
<1>2. \A q \in Onboarder :
        /\ job'[q].accepted \cup job'[q].existing \subseteq vouched'
        /\ \A k \in Key : job'[q].reviewed[k.slot] = k.print => k \in vouched'
  BY DEF TrustInv
<1>3. ~overlapped' => \A q \in Onboarder :
        /\ job'[q].at = "write" => job'[q].existing = trusted'
        /\ job'[q].at \in {"audit", "append", "done"} =>
             job'[q].accepted \subseteq trusted'
  <2> SUFFICES ASSUME ~overlapped, NEW q \in Onboarder
               PROVE  /\ job'[q].at = "write" => job[q].existing = trusted
                      /\ job'[q].at \in {"audit", "append", "done"} =>
                           job[q].accepted \subseteq trusted
    OBVIOUS
  <2>1. CASE job'[q].at = job[q].at
    BY <2>1 DEF TrustInv
  <2>2. CASE {job'[q].at, job[q].at} = {"audit", "append"}
    <3>1. job'[q].at # "write" /\ job[q].at \in {"audit", "append", "done"}
      BY <2>2
    <3> QED
      BY <3>1 DEF TrustInv
  <2> QED
    BY <2>1, <2>2
<1> QED
  BY <1>1, <1>2, <1>3 DEF TrustInv

LEMMA PenSet ==
  ASSUME DOMAIN pen = Onboarder, NEW p \in Onboarder, NEW q,
         pen' = [pen EXCEPT ![p] = q]
  PROVE  /\ DOMAIN pen' = Onboarder /\ pen'[p] = q
         /\ \A r \in Onboarder \ {p} : pen'[r] = pen[r]
OBVIOUS

LEMMA PenBegins ==
  ASSUME NEW f, NEW h
  PROVE  [Log!Resting EXCEPT !.at = "seq", !.prev = h, !.subject = f] =
           [at |-> "seq", subject |-> f, prev |-> h, seq |-> 0]
<1> DEFINE t == [Log!Resting EXCEPT !.at = "seq", !.prev = h, !.subject = f]
<1>1. DOMAIN Log!Resting = {"at", "subject", "prev", "seq"}
  BY DEF Log!Resting
<1>2. /\ DOMAIN t = {"at", "subject", "prev", "seq"}
      /\ t.at = "seq" /\ t.subject = f /\ t.prev = h
      /\ t = [x \in DOMAIN Log!Resting |-> t[x]]
  BY <1>1
<1>3. t.seq = 0
  BY DEF Log!Resting
<1> HIDE DEF t
<1>4. t = [at |-> "seq", subject |-> f, prev |-> h, seq |-> 0]
  BY <1>1, <1>2, <1>3
<1> QED
  BY <1>4 DEF t

LEMMA PenReads ==
  ASSUME NEW q, NEW n,
         q = [at |-> q.at, subject |-> q.subject, prev |-> q.prev, seq |-> q.seq]
  PROVE  [q EXCEPT !.at = "write", !.seq = n] =
           [at |-> "write", subject |-> q.subject, prev |-> q.prev, seq |-> n]
<1> DEFINE t == [q EXCEPT !.at = "write", !.seq = n]
<1>1. DOMAIN q = {"at", "subject", "prev", "seq"}
  OBVIOUS
<1>2. /\ DOMAIN t = {"at", "subject", "prev", "seq"}
      /\ t.at = "write" /\ t.subject = q.subject /\ t.prev = q.prev /\ t.seq = n
      /\ t = [x \in DOMAIN q |-> t[x]]
  BY <1>1
<1> HIDE DEF t
<1>3. t = [at |-> "write", subject |-> q.subject, prev |-> q.prev, seq |-> n]
  BY <1>1, <1>2
<1> QED
  BY <1>3 DEF t

LEMMA OnbBeginAudit ==
  ASSUME OnbInv, NEW p \in Onboarder, BeginAudit(p)
  PROVE  OnbInv'
<1> USE DEF OnbInv
<1>1. PICK fact \in job[p].owed :
        /\ Log!BeginAppend(p, fact)
        /\ job' = [job EXCEPT ![p].at = "append", ![p].owed = @ \ {fact}]
  BY DEF BeginAudit
<1>2. /\ job[p].at = "audit"
      /\ UNCHANGED <<trusted, vouched, crashes, overlapped, damaged, lines, returned>>
  BY <1>1 DEF BeginAudit, Log!BeginAppend
<1> DEFINE row == [job[p] EXCEPT !.at = "append", !.owed = @ \ {fact}]
           q == [Log!Resting EXCEPT !.at = "seq", !.prev = Log!LastHash,
                                    !.subject = fact]
<1>3. /\ row \in JobRec /\ row.at = "append" /\ row.reviewed = job[p].reviewed
      /\ row.existing = job[p].existing
      /\ row.accepted = job[p].accepted /\ row.rejected = job[p].rejected
      /\ row.owed = job[p].owed \ {fact}
  BY JobFields DEF JobRec, JobAt
<1>4. job' = [job EXCEPT ![p] = row]
  BY <1>1, JobFields DEF OnbTypes, JobRec
<1>5. /\ q.at = "seq" /\ q.prev = Log!LastHash /\ q.subject = fact
      /\ q = [at |-> q.at, subject |-> q.subject, prev |-> q.prev, seq |-> q.seq]
  <2>1. q = [at |-> "seq", subject |-> fact, prev |-> Log!LastHash, seq |-> 0]
    BY PenBegins, Zenon
  <2> HIDE DEF q
  <2> QED
    BY <2>1
<1>6. pen' = [pen EXCEPT ![p] = q]
  BY <1>1 DEF Log!BeginAppend
<1>7. fact \in Fact
  BY <1>1, JobFields
<1> HIDE DEF row, q
<1>8. /\ job' \in [Onboarder -> JobRec] /\ job'[p] = row
      /\ \A r \in Onboarder \ {p} : job'[r] = job[r]
  BY <1>3, <1>4, JobSet
<1>9. /\ DOMAIN pen' = Onboarder /\ pen'[p] = q
      /\ \A r \in Onboarder \ {p} : pen'[r] = pen[r]
  BY <1>6, PenSet DEF PenInv
<1>10. OnbTypes'
  BY <1>2, <1>8 DEF OnbTypes
<1>11. TrustInv'
  BY <1>2, <1>3, <1>8, TrustMoved
<1>12. LogShape'
  BY <1>2 DEF LogShape, Unreadable, Chained
<1>13. PenInv'
  BY <1>3, <1>5, <1>7, <1>8, <1>9 DEF PenInv
<1>14. ChainInv'
  <2>1. (Intact' <=> Intact) /\ Log!LastHash' = Log!LastHash
        /\ (Log!Linked(lines)' <=> Log!Linked(lines))
    BY <1>2 DEF Intact, Log!LastHash, Log!Linked
  <2>2. ASSUME NEW i \in Nat, BrokenAt(lines, i)
        PROVE  BrokenAt(lines, i)'
    BY <1>2, <2>2 DEF BrokenAt, Unreadable
  <2>3. ASSUME Intact', ~overlapped', NEW r \in Onboarder
        PROVE  /\ pen'[r].at # "rest" => pen'[r].prev = Log!LastHash'
               /\ pen'[r].at = "write" => pen'[r].seq = Len(lines') + 1
    BY <1>2, <1>5, <1>9, <2>1, <2>3 DEF ChainInv
  <2> QED
    BY <1>2, <2>1, <2>2, <2>3 DEF ChainInv
<1>15. RecordInv'
  <2>1. /\ Intact' <=> Intact
        /\ \A f : Recorded(f)' <=> Recorded(f)
    BY <1>2 DEF Intact, Recorded
  <2> SUFFICES ASSUME NEW r \in Onboarder
               PROVE  /\ job'[r].at = "done" => job'[r].owed = {}
                      /\ Intact /\ job'[r].at \in {"write", "audit", "append", "done"} =>
                           \A f \in OwedFor(job'[r].accepted, job'[r].rejected) :
                             \/ f \in job'[r].owed
                             \/ job'[r].at = "append" /\ pen'[r].subject = f
                             \/ Recorded(f)
    BY <2>1 DEF RecordInv, OwedFor
  <2>2. CASE r = p
    BY <1>2, <1>3, <1>5, <1>8, <1>9, <2>2 DEF RecordInv
  <2>3. CASE r # p
    BY <1>8, <1>9, <2>3 DEF RecordInv
  <2> QED
    BY <2>2, <2>3
<1> QED
  BY <1>10, <1>11, <1>12, <1>13, <1>14, <1>15

LEMMA NextSeqIs ==
  ASSUME LogShape
  PROVE  /\ Log!NextSeq \in Nat \ {0}
         /\ Intact /\ Log!Linked(lines) => Log!NextSeq = Len(lines) + 1
<1> DEFINE at == Log!ReadableAt(lines)
           last == CHOOSE i \in at : \A j \in at : j <= i
<1>1. Len(lines) \in Nat /\ DOMAIN lines = 1..Len(lines)
  BY FileSeq DEF LogShape, IsFile
<1>2. at \in SUBSET (1..Len(lines)) /\ \A i \in at : ~Unreadable(lines[i])
  BY <1>1 DEF Log!ReadableAt, Unreadable
<1>3. CASE at = {}
  <2>1. Log!NextSeq = 1
    BY <1>3 DEF Log!NextSeq
  <2>2. Intact => 1..Len(lines) = {}
    BY <1>1, <1>3 DEF Intact
  <2>3. Intact => Len(lines) = 0
    <3>1. Len(lines) # 0 => 1 \in 1..Len(lines)
      BY <1>1
    <3> QED
      BY <2>2, <3>1
  <2> QED
    BY <2>1, <2>3
<1>4. CASE at # {}
  <2>1. Log!NextSeq = lines[last].seq + 1
    BY <1>4 DEF Log!NextSeq
  <2>2. last \in at /\ \A j \in at : j <= last
    <3> HIDE DEF at
    <3> QED
      BY <1>1, <1>2, <1>4, Latest
  <2> HIDE DEF at, last
  <2>3. lines[last].seq \in Nat \ {0} /\ last \in 1..Len(lines)
    BY <1>1, <1>2, <2>2 DEF LogShape
  <2>4. ASSUME Intact, Log!Linked(lines)
        PROVE  lines[last].seq = Len(lines)
    <3>1. at = 1..Len(lines)
      BY <1>1, <2>4 DEF Intact, at
    <3>2. Len(lines) \in 1..Len(lines)
      BY <1>1, <2>3
    <3>3. last = Len(lines)
      <4>1. Len(lines) <= last
        BY <2>2, <3>1, <3>2
      <4>2. last \in 1..Len(lines) /\ Len(lines) \in Int
        BY <1>1, <2>3
      <4>3. last \in Int /\ last <= Len(lines)
        BY <4>2
      <4> QED
        BY <4>1, <4>2, <4>3
    <3> QED
      BY <1>1, <2>3, <2>4, <3>3 DEF Log!Linked
  <2> QED
    BY <2>1, <2>3, <2>4
<1> QED
  BY <1>3, <1>4

LEMMA OnbReadAuditSeq ==
  ASSUME OnbInv, NEW p \in Onboarder, ReadAuditSeq(p)
  PROVE  OnbInv'
<1> USE DEF OnbInv
<1>1. /\ pen[p].at = "seq"
      /\ pen' = [pen EXCEPT ![p].at = "write", ![p].seq = Log!NextSeq]
      /\ UNCHANGED <<lines, returned, trusted, vouched, job, crashes, overlapped,
                     damaged>>
  BY DEF ReadAuditSeq, Log!ReadSeq
<1> DEFINE q == [pen[p] EXCEPT !.at = "write", !.seq = Log!NextSeq]
<1>2. /\ q.at = "write" /\ q.prev = pen[p].prev /\ q.subject = pen[p].subject
      /\ q.seq = Log!NextSeq
      /\ q = [at |-> q.at, subject |-> q.subject, prev |-> q.prev, seq |-> q.seq]
  <2>1. pen[p] = [at |-> pen[p].at, subject |-> pen[p].subject,
                  prev |-> pen[p].prev, seq |-> pen[p].seq]
    BY DEF PenInv
  <2>2. q = [at |-> "write", subject |-> pen[p].subject,
             prev |-> pen[p].prev, seq |-> Log!NextSeq]
    BY <2>1, PenReads, Zenon
  <2> HIDE DEF q
  <2> QED
    BY <2>2
<1>3. pen' = [pen EXCEPT ![p] = q]
  BY <1>1 DEF PenInv
<1> HIDE DEF q
<1>4. /\ DOMAIN pen' = Onboarder /\ pen'[p] = q
      /\ \A r \in Onboarder \ {p} : pen'[r] = pen[r]
  BY <1>3, PenSet DEF PenInv
<1>5. OnbTypes' /\ TrustInv' /\ LogShape'
  BY <1>1 DEF OnbTypes, TrustInv, AtWork, LogShape, Unreadable, Chained
<1>6. PenInv'
  BY <1>1, <1>2, <1>4, NextSeqIs DEF PenInv
<1>7. ChainInv'
  <2>1. (Intact' <=> Intact) /\ Log!LastHash' = Log!LastHash
        /\ (Log!Linked(lines)' <=> Log!Linked(lines))
    BY <1>1 DEF Intact, Log!LastHash, Log!Linked
  <2>2. ASSUME NEW i \in Nat, BrokenAt(lines, i)
        PROVE  BrokenAt(lines, i)'
    BY <1>1, <2>2 DEF BrokenAt, Unreadable
  <2>3. ASSUME Intact', ~overlapped', NEW r \in Onboarder
        PROVE  /\ pen'[r].at # "rest" => pen'[r].prev = Log!LastHash'
               /\ pen'[r].at = "write" => pen'[r].seq = Len(lines') + 1
    <3>1. CASE r = p
      BY <1>1, <1>2, <1>4, <2>1, <2>3, <3>1, NextSeqIs DEF ChainInv
    <3>2. CASE r # p
      BY <1>1, <1>4, <2>1, <2>3, <3>2 DEF ChainInv
    <3> QED
      BY <3>1, <3>2
  <2> QED
    BY <1>1, <2>1, <2>2, <2>3 DEF ChainInv
<1>8. RecordInv'
  <2>1. /\ Intact' <=> Intact
        /\ \A f : Recorded(f)' <=> Recorded(f)
        /\ \A r \in Onboarder : pen'[r].subject = pen[r].subject
    BY <1>1, <1>2, <1>4 DEF Intact, Recorded
  <2> QED
    BY <1>1, <2>1 DEF RecordInv, OwedFor
<1> QED
  BY <1>5, <1>6, <1>7, <1>8

LEMMA GrownRecorded ==
  ASSUME NEW line, GrownBy(line), damaged' = damaged, Intact'
  PROVE  /\ \A f : Recorded(f) => Recorded(f)'
         /\ Recorded(line.subject)'
<1>1. /\ Len(lines') = Len(lines) + 1 /\ lines'[Len(lines) + 1] = line
      /\ \A i \in 1..Len(lines) : lines'[i] = lines[i]
  BY GrownIntact
<1>2. /\ Len(lines) \in Nat
      /\ DOMAIN lines = 1..Len(lines) /\ DOMAIN lines' = 1..Len(lines')
  BY DEF GrownBy
<1>3. /\ Len(lines) + 1 \in DOMAIN lines'
      /\ \A i \in DOMAIN lines : i \in DOMAIN lines' /\ lines'[i] = lines[i]
  BY <1>1, <1>2
<1> QED
  BY <1>1, <1>3 DEF Recorded

\* A log that only grows, by a line that continues it, stays linked.
LEMMA GrownLinked ==
  ASSUME IsFile(lines), NEW line, GrownBy(line), damaged' = damaged, Intact',
         Log!Linked(lines),
         line = Log!Record(Len(lines) + 1, line.subject, Log!LastHash)
  PROVE  Log!Linked(lines)'
<1>1. /\ Len(lines') = Len(lines) + 1 /\ lines'[Len(lines) + 1] = line
      /\ \A i \in 1..Len(lines) : lines'[i] = lines[i]
      /\ Intact
  BY GrownIntact
<1>2. /\ Len(lines) \in Nat
      /\ DOMAIN lines = 1..Len(lines) /\ DOMAIN lines' = 1..Len(lines')
  BY DEF GrownBy
<1>3. /\ line.seq = Len(lines) + 1 /\ line.prev = Log!LastHash
      /\ line.hash = Log!HashOf(line.seq, line.subject, Log!LastHash)
  BY RecordFields
<1>4. Log!LastHash = IF Len(lines) + 1 = 1 THEN Log!NoHash ELSE lines[Len(lines)].hash
  <2>1. lines = <<>> <=> Len(lines) = 0
    BY FileSeq DEF IsFile
  <2>2. Len(lines) # 0 => Len(lines) \in DOMAIN lines
    BY <1>2
  <2>3. Len(lines) # 0 => lines[Len(lines)] \notin {Log!Torn, Log!Garbled}
    BY <1>1, <2>2 DEF Intact, Log!ReadableAt
  <2>4. Len(lines) + 1 = 1 <=> Len(lines) = 0
    BY <1>2
  <2> QED
    BY <2>1, <2>3, <2>4 DEF Log!LastHash
<1> SUFFICES ASSUME NEW i \in DOMAIN lines'
             PROVE  LET prev == IF i = 1 THEN Log!NoHash ELSE lines'[i - 1].hash
                    IN /\ lines'[i].seq = i
                       /\ lines'[i].prev = prev
                       /\ lines'[i].hash =
                            Log!HashOf(lines'[i].seq, lines'[i].subject, prev)
  BY DEF Log!Linked, Log!NoHash, Log!HashOf
<1>5. CASE i \in 1..Len(lines)
  <2>1. /\ lines'[i] = lines[i]
        /\ i # 1 => i - 1 \in 1..Len(lines) /\ lines'[i - 1] = lines[i - 1]
    BY <1>1, <1>2, <1>5
  <2> QED
    BY <1>2, <1>5, <2>1 DEF Log!Linked
<1>6. CASE i = Len(lines) + 1
  <2>1. lines'[i] = line /\ i - 1 = Len(lines)
    BY <1>1, <1>2, <1>6
  <2>2. i # 1 => lines'[i - 1] = lines[Len(lines)]
    BY <1>1, <1>2, <1>6, <2>1
  <2> QED
    BY <1>3, <1>4, <1>6, <2>1, <2>2
<1> QED
  BY <1>1, <1>2, <1>5, <1>6

\* Alone at work, the others hold no pen.
LEMMA OthersRest ==
  ASSUME TrustInv, PenInv, ~overlapped, NEW p \in Onboarder, job[p].at = "append",
         NEW q \in Onboarder \ {p}
  PROVE  pen[q].at = "rest"
<1>1. p \in AtWork /\ (job[q].at = "append" => q \in AtWork)
  BY DEF AtWork
<1> QED
  BY <1>1 DEF TrustInv, PenInv

LEMMA RestingPen ==
  LET q == Log!Resting
  IN  /\ q.at = "rest"
      /\ q = [at |-> q.at, subject |-> q.subject, prev |-> q.prev, seq |-> q.seq]
BY DEF Log!Resting

LEMMA OnbEndAudit ==
  ASSUME OnbInv, NEW p \in Onboarder, EndAudit(p)
  PROVE  OnbInv'
<1> USE DEF OnbInv
<1>0. PICK line : line = Log!Record(pen[p].seq, pen[p].subject, pen[p].prev)
  OBVIOUS
<1>1. /\ pen[p].at = "write" /\ lines' = Log!Added(line)
      /\ pen' = [pen EXCEPT ![p] = Log!Resting]
      /\ returned' = returned + 1
      /\ job' = [job EXCEPT ![p].at = "audit"]
      /\ UNCHANGED <<trusted, vouched, crashes, overlapped, damaged>>
  BY <1>0 DEF EndAudit, Log!WriteLine
<1>2. /\ job[p].at = "append" /\ pen[p].subject \in Fact /\ pen[p].seq \in Nat \ {0}
  BY <1>1 DEF PenInv
<1>3. /\ job' \in [Onboarder -> JobRec]
      /\ job'[p].at = "audit" /\ job'[p].reviewed = job[p].reviewed
      /\ job'[p].accepted = job[p].accepted /\ job'[p].owed = job[p].owed
      /\ job'[p].rejected = job[p].rejected
      /\ job'[p].existing = job[p].existing
      /\ \A q \in Onboarder \ {p} : job'[q] = job[q]
  BY <1>1, JobTo DEF JobAt
<1>4. /\ DOMAIN pen' = Onboarder /\ pen'[p] = Log!Resting
      /\ \A r \in Onboarder \ {p} : pen'[r] = pen[r]
  BY <1>1, PenSet DEF PenInv
<1>5. /\ line.seq = pen[p].seq /\ line.subject = pen[p].subject
      /\ line.prev = pen[p].prev /\ ~Unreadable(line) /\ Chained(line)
  BY <1>0, RecordFields
<1>6. line = Log!Record(line.seq, line.subject, line.prev)
  BY <1>5 DEF Chained
<1>7. GrownBy(line)
  BY <1>1, WriteGrows DEF LogShape
<1>8. OnbTypes'
  BY <1>1, <1>3 DEF OnbTypes
<1>9. TrustInv'
  BY <1>1, <1>2, <1>3, TrustMoved
<1>10. LogShape'
  <2>1. returned' \in Nat
    BY <1>1 DEF LogShape
  <2> QED
    BY <1>1, <1>2, <1>5, <1>7, <2>1, GrownShape
<1>11. PenInv'
  BY <1>3, <1>4, RestingPen DEF PenInv
<1>12. ChainInv'
  <2>1. Intact' => Len(lines') = returned'
    BY <1>1, <1>7, GrownIntact DEF ChainInv
  <2>2. ASSUME Intact', ~overlapped'
        PROVE  Log!Linked(lines)'
    <3>1. Intact /\ Log!Linked(lines)
      BY <1>1, <1>7, <2>2, GrownIntact DEF ChainInv
    <3>2. line.seq = Len(lines) + 1 /\ line.prev = Log!LastHash
      BY <1>1, <1>5, <2>2, <3>1 DEF ChainInv
    <3> QED
      BY <1>1, <1>6, <1>7, <2>2, <3>1, <3>2, GrownLinked DEF LogShape
  <2>3. ~overlapped' => \A r \in Onboarder : pen'[r].at = "rest"
    BY <1>1, <1>2, <1>4, OthersRest, RestingPen
  <2>4. damaged' => \E i \in Nat : BrokenAt(lines, i)'
    BY <1>1, <1>7, GrownBroken DEF ChainInv
  <2> QED
    BY <2>1, <2>2, <2>3, <2>4 DEF ChainInv
<1>13. RecordInv'
  <2> SUFFICES ASSUME NEW r \in Onboarder, Intact',
                      job'[r].at \in {"write", "audit", "append", "done"},
                      NEW f \in OwedFor(job'[r].accepted, job'[r].rejected)
               PROVE  \/ f \in job'[r].owed
                      \/ job'[r].at = "append" /\ pen'[r].subject = f
                      \/ Recorded(f)'
    <3>1. \A r \in Onboarder : job'[r].at = "done" => job'[r].owed = {}
      BY <1>3 DEF RecordInv
    <3> QED
      BY <3>1 DEF RecordInv, OwedFor
  <2>0. Intact'
    OBVIOUS
  <2>1. Intact
    BY <1>1, <1>7, GrownIntact
  <2>2. /\ \A g : Recorded(g) => Recorded(g)'
        /\ Recorded(line.subject)'
    BY <1>1, <1>7, <2>0, GrownRecorded
  <2>3. CASE r = p
    BY <1>2, <1>3, <1>5, <2>1, <2>2, <2>3 DEF RecordInv
  <2>4. CASE r # p
    BY <1>3, <1>4, <2>1, <2>2, <2>4 DEF RecordInv
  <2> QED
    BY <2>3, <2>4
<1> QED
  BY <1>8, <1>9, <1>10, <1>11, <1>12, <1>13

\* A command that is gone leaves neither a decision nor an obligation.
LEMMA GoneTrust ==
  ASSUME OnbInv, NEW p \in Onboarder, Gone(p)
  PROVE  /\ OnbTypes' /\ TrustInv'
         /\ job'[p].at = "off" /\ job'[p].owed = {}
         /\ \A q \in Onboarder \ {p} : job'[q] = job[q]
<1> USE DEF OnbInv
<1>1. /\ crashes < MaxCrashes /\ crashes' = crashes + 1
      /\ job' = [job EXCEPT ![p] = Idle]
      /\ UNCHANGED <<trusted, vouched, overlapped, damaged>>
  BY DEF Gone
<1>2. /\ job' \in [Onboarder -> JobRec] /\ job'[p] = Idle
      /\ \A q \in Onboarder \ {p} : job'[q] = job[q]
  BY <1>1, IdleIsJob, JobSet
<1>3. /\ Idle.at = "off" /\ Idle.owed = {} /\ Idle.accepted = {}
      /\ Idle.existing = {} /\ \A s \in Slot : Idle.reviewed[s] = Unreviewed
  BY DEF Idle
<1>4. OnbTypes'
  <2>1. crashes' \in 0..MaxCrashes
    BY <1>1, OnboardingAssumption DEF OnbTypes
  <2> QED
    BY <1>1, <1>2, <2>1 DEF OnbTypes
<1>5. TrustInv'
  <2>1. AtWork' \subseteq AtWork
    BY <1>2, <1>3 DEF AtWork
  <2>2. \A k \in Key : Idle.reviewed[k.slot] # k.print
    BY <1>3, OnboardingAssumption DEF Key
  <2>3. \A q \in Onboarder :
          /\ job'[q].accepted \cup job'[q].existing \subseteq vouched'
          /\ \A k \in Key : job'[q].reviewed[k.slot] = k.print => k \in vouched'
    BY <1>1, <1>2, <1>3, <2>2 DEF TrustInv
  <2>4. ~overlapped' => \A q \in Onboarder :
          /\ job'[q].at = "write" => job'[q].existing = trusted'
          /\ job'[q].at \in {"audit", "append", "done"} =>
               job'[q].accepted \subseteq trusted'
    BY <1>1, <1>2, <1>3 DEF TrustInv
  <2> QED
    BY <1>1, <2>1, <2>3, <2>4 DEF TrustInv
<1> QED
  BY <1>2, <1>3, <1>4, <1>5

LEMMA GonePens ==
  ASSUME PenInv, NEW p \in Onboarder, job'[p].at = "off",
         \A q \in Onboarder \ {p} : job'[q] = job[q],
         pen' = [pen EXCEPT ![p] = Log!Resting]
  PROVE  /\ PenInv' /\ pen'[p] = Log!Resting
         /\ \A r \in Onboarder \ {p} : pen'[r] = pen[r]
<1>1. /\ DOMAIN pen' = Onboarder /\ pen'[p] = Log!Resting
      /\ \A r \in Onboarder \ {p} : pen'[r] = pen[r]
  BY PenSet DEF PenInv
<1> QED
  BY <1>1, RestingPen DEF PenInv

LEMMA OnbCrash ==
  ASSUME OnbInv, NEW p \in Onboarder, Crash(p)
  PROVE  OnbInv'
<1> USE DEF OnbInv
<1>1. /\ Gone(p) /\ pen' = [pen EXCEPT ![p] = Log!Resting]
      /\ UNCHANGED <<lines, returned, overlapped, damaged>>
  BY DEF Crash, Gone
<1>2. /\ OnbTypes' /\ TrustInv'
      /\ job'[p].at = "off" /\ job'[p].owed = {}
      /\ \A q \in Onboarder \ {p} : job'[q] = job[q]
  BY <1>1, GoneTrust
<1>3. /\ PenInv' /\ pen'[p] = Log!Resting
      /\ \A r \in Onboarder \ {p} : pen'[r] = pen[r]
  BY <1>1, <1>2, GonePens
<1>4. LogShape'
  BY <1>1 DEF LogShape, Unreadable, Chained
<1>5. ChainInv'
  <2>1. (Intact' <=> Intact) /\ Log!LastHash' = Log!LastHash
        /\ (Log!Linked(lines)' <=> Log!Linked(lines))
    BY <1>1 DEF Intact, Log!LastHash, Log!Linked
  <2>2. ASSUME NEW i \in Nat, BrokenAt(lines, i)
        PROVE  BrokenAt(lines, i)'
    BY <1>1, <2>2 DEF BrokenAt, Unreadable
  <2>3. ASSUME Intact', ~overlapped', NEW r \in Onboarder
        PROVE  /\ pen'[r].at # "rest" => pen'[r].prev = Log!LastHash'
               /\ pen'[r].at = "write" => pen'[r].seq = Len(lines') + 1
    BY <1>1, <1>3, <2>1, <2>3, RestingPen DEF ChainInv
  <2> QED
    BY <1>1, <2>1, <2>2, <2>3 DEF ChainInv
<1>6. RecordInv'
  <2>1. /\ Intact' <=> Intact
        /\ \A f : Recorded(f)' <=> Recorded(f)
    BY <1>1 DEF Intact, Recorded
  <2> QED
    BY <1>2, <1>3, <2>1 DEF RecordInv, OwedFor
<1> QED
  BY <1>2, <1>3, <1>4, <1>5, <1>6

LEMMA OnbTearAudit ==
  ASSUME OnbInv, NEW p \in Onboarder, TearAudit(p)
  PROVE  OnbInv'
<1> USE DEF OnbInv
<1>1. /\ Gone(p) /\ pen' = [pen EXCEPT ![p] = Log!Resting]
      /\ lines' = IF Log!Unended THEN lines ELSE Append(lines, Log!Torn)
      /\ returned' = returned /\ damaged' = damaged
  BY DEF TearAudit, Log!TearLine, Gone
<1>2. /\ OnbTypes' /\ TrustInv'
      /\ job'[p].at = "off" /\ job'[p].owed = {}
      /\ \A q \in Onboarder \ {p} : job'[q] = job[q]
  BY <1>1, GoneTrust
<1>3. PenInv'
  BY <1>1, <1>2, GonePens
<1>4. GrownBy(Log!Torn) /\ Unreadable(Log!Torn)
  BY <1>1, TearGrows DEF LogShape, Unreadable
<1>5. LogShape'
  <2>1. returned' \in Nat
    BY <1>1 DEF LogShape
  <2> QED
    BY <1>1, <1>4, <2>1, GrownShape
<1>6. ~Intact'
  BY <1>1, <1>4, GrownIntact
<1>7. ChainInv'
  <2>1. damaged' => \E i \in Nat : BrokenAt(lines, i)'
    BY <1>1, <1>4, GrownBroken DEF ChainInv
  <2> QED
    BY <1>6, <2>1 DEF ChainInv
<1>8. RecordInv'
  BY <1>2, <1>6 DEF RecordInv
<1> QED
  BY <1>2, <1>3, <1>5, <1>7, <1>8

LEMMA TriplesDiffer ==
  ASSUME NEW a, NEW b, NEW c, NEW x, NEW y, NEW z, b # y
  PROVE  Log!HashOf(a, b, c) # Log!HashOf(x, y, z)
BY DEF Log!HashOf

\* Another subject, with whatever hash, in a record.
IsEdited(r, s, h, t) ==
  /\ t.subject = s /\ t.hash = h /\ t.seq = r.seq /\ t.prev = r.prev
  /\ ~Unreadable(t)

LEMMA EditedLine ==
  ASSUME NEW r, Chained(r), NEW s, NEW h
  PROVE  IsEdited(r, s, h, [r EXCEPT !.subject = s, !.hash = h])
<1> DEFINE t == [r EXCEPT !.subject = s, !.hash = h]
<1>1. /\ {"is", "seq", "subject", "prev", "hash"} \subseteq DOMAIN r
      /\ r.is = "record"
  BY DEF Chained, Log!Record
<1>2. /\ t.subject = s /\ t.hash = h /\ t.seq = r.seq /\ t.prev = r.prev
      /\ t.is = "record"
  BY <1>1
<1>3. Log!Torn.is = "torn" /\ Log!Garbled.is = "garbled"
  BY DEF Log!Torn, Log!Garbled
<1> QED
  BY <1>2, <1>3 DEF Unreadable, IsEdited

LEMMA EditBreaks ==
  ASSUME LogShape, ~damaged, Log!Verifies(lines),
         NEW i \in 1..(Len(lines) - 1), NEW s \in Fact \ {lines[i].subject},
         NEW h \in {lines[i].hash, Log!HashOf(lines[i].seq, s, lines[i].prev)},
         lines' = [lines EXCEPT ![i].subject = s, ![i].hash = h]
  PROVE  /\ IsFile(lines')
         /\ \A k \in DOMAIN lines' :
              lines'[k].subject \in Fact /\ lines'[k].seq \in Nat \ {0}
         /\ \E k \in Nat : BrokenAt(lines, k)'
<1>1. /\ Len(lines) \in Nat /\ DOMAIN lines = 1..Len(lines)
      /\ i \in Nat \ {0} /\ i \in DOMAIN lines /\ i + 1 \in DOMAIN lines
  <2>1. Len(lines) \in Nat /\ DOMAIN lines = 1..Len(lines)
    BY FileSeq DEF LogShape, IsFile
  <2> QED
    BY <2>1
<1>2. \A k \in DOMAIN lines :
        /\ ~Unreadable(lines[k]) /\ Chained(lines[k])
        /\ lines[k].subject \in Fact /\ lines[k].seq \in Nat \ {0}
  BY DEF LogShape, Log!Verifies, Log!ReadableAt, Unreadable
<1> DEFINE row == [lines[i] EXCEPT !.subject = s, !.hash = h]
<1>3. /\ row.subject = s /\ row.hash = h /\ row.seq = lines[i].seq
      /\ row.prev = lines[i].prev /\ ~Unreadable(row)
  <2>1. Chained(lines[i])
    BY <1>1, <1>2
  <2>2. IsEdited(lines[i], s, h, row)
    BY <2>1, EditedLine, Zenon
  <2> HIDE DEF row
  <2> QED
    BY <2>2 DEF IsEdited
<1>4. lines' = [lines EXCEPT ![i] = row]
  BY <1>1
<1> HIDE DEF row
<1>5. WithLineAt(lines, i, row, lines')
  <2>1. WithLineAt(lines, i, row, [lines EXCEPT ![i] = row])
    BY <1>1, FileReplace, Zenon DEF LogShape
  <2> QED
    BY <1>4, <2>1, Zenon
<1>6. /\ IsFile(lines') /\ Len(lines') = Len(lines) /\ DOMAIN lines' = 1..Len(lines)
      /\ lines'[i] = row
      /\ \A k \in DOMAIN lines : k # i => lines'[k] = lines[k]
  BY <1>1, <1>5 DEF WithLineAt
<1>7. /\ lines[i].hash # Log!HashOf(lines[i].seq, s, lines[i].prev)
      /\ \A prev : lines[i].hash # Log!HashOf(lines[i].seq, s, prev)
  <2>1. lines[i].hash = Log!HashOf(lines[i].seq, lines[i].subject, lines[i].prev)
    BY <1>1, <1>2, RecordFields DEF Chained
  <2> QED
    BY <2>1, TriplesDiffer
<1>8. CASE h = lines[i].hash
  <2>1. i > 1 => i - 1 \in DOMAIN lines
    BY <1>1
  <2>2. i > 1 => ~Unreadable(lines'[i - 1])
    BY <1>1, <1>2, <1>6, <2>1
  <2>3. BrokenAt(lines, i)'
    BY <1>1, <1>3, <1>6, <1>7, <1>8, <2>2 DEF BrokenAt, Unreadable,
      Log!Torn, Log!Garbled, Log!NoHash, Log!HashOf
  <2> QED
    BY <1>1, <1>2, <1>3, <1>6, <2>3
<1>9. CASE h = Log!HashOf(lines[i].seq, s, lines[i].prev)
  <2>1. lines'[i].hash = h /\ h # lines[i].hash
    BY <1>3, <1>6, <1>7, <1>9
  <2>2. lines'[i + 1] = lines[i + 1] /\ i + 1 - 1 = i /\ i + 1 # 1
    BY <1>1, <1>6
  <2>3. lines[i + 1].prev = lines[i].hash
    BY <1>1, <2>2 DEF Log!Verifies, Log!Linked
  <2>4. PICK k \in Nat : k = i + 1
    BY <1>1
  <2>5. /\ k \in 1..Len(lines') /\ k - 1 = i /\ k # 1
        /\ ~Unreadable(lines'[k]) /\ ~Unreadable(lines'[i])
        /\ lines'[k].prev # lines'[i].hash
    BY <1>1, <1>2, <1>3, <1>6, <2>1, <2>2, <2>3, <2>4
  <2>6. BrokenAt(lines, k)'
    BY <2>5 DEF BrokenAt, Unreadable, Log!Torn, Log!Garbled
  <2> QED
    BY <1>1, <1>2, <1>3, <1>6, <2>6
<1> QED
  BY <1>8, <1>9

LEMMA RemovalBreaks ==
  ASSUME LogShape, ~damaged, Log!Verifies(lines), NEW i \in 1..(Len(lines) - 1),
         WithoutLine(lines, i, lines')
  PROVE  /\ IsFile(lines')
         /\ \A k \in DOMAIN lines' :
              lines'[k].subject \in Fact /\ lines'[k].seq \in Nat \ {0}
         /\ \E k \in Nat : BrokenAt(lines, k)'
<1>1. /\ IsFile(lines') /\ Len(lines) \in Nat /\ Len(lines') = Len(lines) - 1
      /\ DOMAIN lines' = 1..(Len(lines) - 1)
      /\ \A k \in 1..(i - 1) : lines'[k] = lines[k]
      /\ \A k \in i..(Len(lines) - 1) : lines'[k] = lines[k + 1]
  BY DEF WithoutLine
<1>2. DOMAIN lines = 1..Len(lines)
  BY FileSeq DEF LogShape, IsFile
<1>3. \A k \in DOMAIN lines :
        /\ ~Unreadable(lines[k]) /\ lines[k].seq = k
        /\ lines[k].subject \in Fact /\ lines[k].seq \in Nat \ {0}
  BY DEF LogShape, Log!Verifies, Log!Linked, Log!ReadableAt, Unreadable
<1>4. \A k \in DOMAIN lines' : \E j \in DOMAIN lines : lines'[k] = lines[j]
  <2> SUFFICES ASSUME NEW k \in DOMAIN lines'
               PROVE  \E j \in DOMAIN lines : lines'[k] = lines[j]
    OBVIOUS
  <2>0. k \in Int /\ 1 <= k /\ k <= Len(lines) - 1 /\ i \in Int
    BY <1>1
  <2>1. CASE k < i
    BY <1>1, <1>2, <2>0, <2>1
  <2>2. CASE k >= i
    <3>1. lines'[k] = lines[k + 1] /\ k + 1 \in DOMAIN lines
      BY <1>1, <1>2, <2>0, <2>2
    <3> QED
      BY <3>1
  <2> QED
    BY <2>0, <2>1, <2>2
<1>5. /\ i \in 1..Len(lines') /\ i \in Nat /\ lines'[i] = lines[i + 1]
      /\ i + 1 \in DOMAIN lines
      /\ i > 1 => i - 1 \in DOMAIN lines /\ lines'[i - 1] = lines[i - 1]
  BY <1>1, <1>2
<1>6. lines'[i].seq # i
  BY <1>3, <1>5
<1>7. ~Unreadable(lines'[i]) /\ (i > 1 => ~Unreadable(lines'[i - 1]))
  BY <1>3, <1>5
<1>8. BrokenAt(lines, i)'
  BY <1>5, <1>6, <1>7 DEF BrokenAt, Unreadable, Log!Torn, Log!Garbled
<1> QED
  BY <1>1, <1>3, <1>4, <1>5, <1>8

LEMMA OnbDamage ==
  ASSUME OnbInv, Damage
  PROVE  OnbInv'
<1> USE DEF OnbInv
<1>1. /\ ~damaged /\ damaged' /\ Log!DamageOlder
      /\ UNCHANGED <<trusted, vouched, job, crashes, overlapped, pen, returned>>
  BY DEF Damage, Log!DamageOlder
<1>2. /\ IsFile(lines')
      /\ \A k \in DOMAIN lines' :
           lines'[k].subject \in Fact /\ lines'[k].seq \in Nat \ {0}
      /\ \E k \in Nat : BrokenAt(lines, k)'
  <2>1. PICK i \in 1..(Len(lines) - 1) :
          \/ \E s \in Fact \ {lines[i].subject} :
             \E h \in {lines[i].hash, Log!HashOf(lines[i].seq, s, lines[i].prev)} :
               lines' = [lines EXCEPT ![i].subject = s, ![i].hash = h]
          \/ lines' = SubSeq(lines, 1, i - 1) \o SubSeq(lines, i + 1, Len(lines))
    BY <1>1 DEF Log!DamageOlder
  <2>2. Log!Verifies(lines)
    BY <1>1 DEF Log!DamageOlder
  <2>3. CASE lines' = SubSeq(lines, 1, i - 1) \o SubSeq(lines, i + 1, Len(lines))
    <3>1. WithoutLine(lines, i,
                      SubSeq(lines, 1, i - 1) \o SubSeq(lines, i + 1, Len(lines)))
      BY FileWithout, Zenon DEF LogShape
    <3>2. WithoutLine(lines, i, lines')
      BY <2>3, <3>1, Zenon
    <3> QED
      BY <1>1, <2>2, <3>2, RemovalBreaks, Zenon
  <2>4. ASSUME NEW s \in Fact \ {lines[i].subject},
               NEW h \in {lines[i].hash, Log!HashOf(lines[i].seq, s, lines[i].prev)},
               lines' = [lines EXCEPT ![i].subject = s, ![i].hash = h]
        PROVE  /\ IsFile(lines')
               /\ \A k \in DOMAIN lines' :
                    lines'[k].subject \in Fact /\ lines'[k].seq \in Nat \ {0}
               /\ \E k \in Nat : BrokenAt(lines, k)'
    BY <1>1, <2>2, <2>4, EditBreaks, Zenon
  <2> QED
    BY <2>1, <2>3, <2>4
<1>3. OnbTypes' /\ TrustInv' /\ PenInv'
  BY <1>1 DEF OnbTypes, TrustInv, AtWork, PenInv
<1>4. LogShape'
  BY <1>1, <1>2 DEF LogShape, Unreadable, Log!Torn, Log!Garbled
<1>5. ~Intact'
  BY <1>1 DEF Intact
<1>6. ChainInv' /\ RecordInv'
  BY <1>1, <1>2, <1>5 DEF ChainInv, RecordInv
<1> QED
  BY <1>3, <1>4, <1>6

LEMMA OnbUnchanged ==
  ASSUME OnbInv, UNCHANGED onboardingVars
  PROVE  OnbInv'
<1>1. /\ UNCHANGED <<trusted, vouched, job, crashes, overlapped, damaged>>
      /\ UNCHANGED logVars
  BY DEF onboardingVars, logVars
<1>2. LogShape' /\ PenInv' /\ ChainInv'
  BY <1>1, LogKept DEF OnbInv
<1>3. Intact' <=> Intact
  BY <1>1 DEF Intact, logVars
<1>4. \A f : Recorded(f)' <=> Recorded(f)
  BY <1>1 DEF Recorded, logVars
<1>5. pen' = pen
  BY <1>1 DEF logVars
<1> QED
  BY <1>1, <1>2, <1>3, <1>4, <1>5 DEF OnbInv, OnbTypes, TrustInv, AtWork,
    RecordInv, OwedFor

LEMMA OnbInvStep == OnbInv /\ [OnboardingNext]_onboardingVars => OnbInv'
<1> SUFFICES ASSUME OnbInv, [OnboardingNext]_onboardingVars
             PROVE  OnbInv'
  OBVIOUS
<1>1. CASE Damage
  BY <1>1, OnbDamage
<1>2. CASE UNCHANGED onboardingVars
  BY <1>2, OnbUnchanged
<1>3. ASSUME NEW p \in Onboarder,
             \/ Start(p) \/ Decide(p) \/ ReadKnownHosts(p) \/ WriteKnownHosts(p)
             \/ BeginAudit(p) \/ ReadAuditSeq(p) \/ EndAudit(p) \/ Finish(p)
             \/ Crash(p) \/ TearAudit(p)
      PROVE  OnbInv'
  BY <1>3, OnbStart, OnbDecide, OnbReadKnownHosts, OnbWriteKnownHosts,
    OnbBeginAudit, OnbReadAuditSeq, OnbEndAudit, OnbFinish, OnbCrash, OnbTearAudit
<1> QED
  BY <1>1, <1>2, <1>3 DEF OnboardingNext

\* known_hosts, the commands and the log keep this, from any number of
\* processes, keys and crashes.
THEOREM OnboardingInvariant == OnboardingSpec => []OnbInv
  BY OnbInvInit, OnbInvStep, PTL DEF OnboardingSpec

\* The file, the commands and the log have their types.
THEOREM OnboardingTypes == OnboardingSpec => []OnboardingTypeOK
<1>1. OnbInv => OnboardingTypeOK
  <2> SUFFICES ASSUME OnbInv
               PROVE  OnboardingTypeOK
    OBVIOUS
  <2>1. \A p \in Onboarder :
          /\ job[p].at \in {"off", "decide", "write", "audit", "append", "done"}
          /\ job[p].accepted \cup job[p].existing \cup job[p].offered \subseteq Key
          /\ job[p].rejected \subseteq Slot /\ job[p].owed \subseteq Fact
    BY JobFields DEF OnbInv, JobAt
  <2>2. Log!LogTypeOK
    BY DEF OnbInv, LogShape, PenInv, Unreadable, Log!LogTypeOK
  <2> QED
    BY <2>1, <2>2 DEF OnbInv, OnbTypes, OnboardingTypeOK
<1> QED
  BY <1>1, OnboardingInvariant, PTL

\* A node is trusted only under a fingerprint that an operator stands for, and
\* a command that ends has its decisions on record, whatever crashes and
\* whoever else is at work; alone, it also has its keys in known_hosts.
THEOREM TrustIsAccounted == OnboardingSpec => []TrustAccounted
<1>1. OnbInv => OnlyVouchedTrusted
  BY DEF OnbInv, TrustInv, OnlyVouchedTrusted
<1>2. OnbInv => DoneIsOnRecord
  <2> SUFFICES ASSUME OnbInv, NEW p \in Onboarder, job[p].at = "done"
               PROVE  /\ ~overlapped => job[p].accepted \subseteq trusted
                      /\ Intact =>
                           /\ \A k \in job[p].accepted :
                                Recorded([action |-> "confirm", slot |-> k.slot])
                           /\ \A s \in job[p].rejected :
                                Recorded([action |-> "reject", slot |-> s])
    BY DEF DoneIsOnRecord
  <2>1. ~overlapped => job[p].accepted \subseteq trusted
    BY DEF OnbInv, TrustInv
  <2>2. Intact => \A f \in OwedFor(job[p].accepted, job[p].rejected) : Recorded(f)
    BY DEF OnbInv, RecordInv
  <2>3. /\ \A k \in job[p].accepted :
             [action |-> "confirm", slot |-> k.slot] \in
               OwedFor(job[p].accepted, job[p].rejected)
        /\ \A s \in job[p].rejected :
             [action |-> "reject", slot |-> s] \in
               OwedFor(job[p].accepted, job[p].rejected)
    BY DEF OwedFor
  <2> QED
    BY <2>1, <2>2, <2>3
<1> QED
  BY <1>1, <1>2, OnboardingInvariant, PTL DEF TrustAccounted

\* What is trusted stays, while one command is at work at a time.
THEOREM TrustStays == OnboardingSpec => TrustKept
<1>1. OnbInv /\ [OnboardingNext]_onboardingVars =>
        [~overlapped' => trusted \subseteq trusted']_onboardingVars
  <2> SUFFICES ASSUME OnbInv, OnboardingNext, ~overlapped'
               PROVE  trusted \subseteq trusted'
    OBVIOUS
  <2>1. ASSUME NEW p \in Onboarder, WriteKnownHosts(p)
        PROVE  trusted \subseteq trusted'
    BY <2>1, WriteKeeps DEF WriteKnownHosts
  <2>2. CASE UNCHANGED trusted
    BY <2>2
  <2> QED
    BY <2>1, <2>2 DEF OnboardingNext, Start, Decide, ReadKnownHosts, BeginAudit,
      ReadAuditSeq, EndAudit, Finish, Crash, TearAudit, Gone, Damage
<1> QED
  BY <1>1, OnboardingInvariant, PTL DEF TrustKept, OnboardingSpec

\* verify_chain is right about any log that processes wrote, crashed over and
\* tore lines of, and in which one older line was changed or removed.
THEOREM VerdictIsRight == OnboardingSpec => []LogVerdict
<1>1. OnbInv => ChainHolds
  BY DEF OnbInv, ChainInv, ChainHolds, Intact, Log!Verifies
<1>2. OnbInv => DamageReported
  <2> SUFFICES ASSUME OnbInv, damaged, Log!Verifies(lines)
               PROVE  FALSE
    BY DEF DamageReported
  <2>1. PICK i \in Nat : BrokenAt(lines, i)
    BY DEF OnbInv, ChainInv
  <2>2. DOMAIN lines = 1..Len(lines)
    BY FileSeq DEF OnbInv, LogShape, IsFile
  <2> QED
    BY <2>1, <2>2 DEF BrokenAt, Log!Verifies, Log!Linked
<1>3. OnbInv => LossReported
  <2> SUFFICES ASSUME OnbInv, Log!Verifies(lines)
               PROVE  Cardinality(Log!ReadableAt(lines)) = returned
    BY DEF LossReported
  <2>1. Intact
    BY <1>2 DEF DamageReported, Intact, Log!Verifies
  <2>2. Len(lines) \in Nat /\ DOMAIN lines = 1..Len(lines)
    BY FileSeq DEF OnbInv, LogShape, IsFile
  <2>3. Log!ReadableAt(lines) = 1..Len(lines)
    BY <2>2, Zenon DEF Log!Verifies
  <2>4. Cardinality(1..Len(lines)) = Len(lines)
    <3>1. PICK n \in Nat : n = Len(lines)
      BY <2>2
    <3>2. Cardinality(1..n) = IF 1 > n THEN 0 ELSE n - 1 + 1
      BY FS_Interval
    <3>3. (IF 1 > n THEN 0 ELSE n - 1 + 1) = n
      OBVIOUS
    <3> QED
      BY <3>1, <3>2, <3>3, Zenon
  <2> QED
    BY <2>1, <2>3, <2>4 DEF OnbInv, ChainInv
<1> QED
  BY <1>1, <1>2, <1>3, OnboardingInvariant, PTL DEF LogVerdict

------------------------------------------------------------------------------
\* The check of an inventory.

\* How far each of the three loops has come.
CheckedIds ==
  IF phase = "load" THEN {} ELSE IF phase = "ids" THEN 1..(place - 1) ELSE Places
CheckedBastions ==
  IF phase \in {"load", "ids"} THEN {}
  ELSE IF phase = "bastions" THEN 1..(place - 1) ELSE Places
Walked ==
  IF phase \in {"load", "ids", "bastions"} THEN {}
  ELSE IF phase \in {"chains", "walk"} THEN 1..(place - 1) ELSE Places

CheckTypes ==
  /\ nodes \in Seq(Node) /\ flawed \in BOOLEAN
  /\ phase \in {"load", "ids", "bastions", "chains", "walk", "decide",
               "accepted", "rejected"}
  /\ place \in Nat \ {0}
  /\ phase \in {"ids", "bastions", "chains", "walk"} => place <= Len(nodes)
  /\ phase \notin {"ids", "bastions", "chains", "walk"} => place = 1
  /\ path \in Seq(Id) /\ cur \in Id \cup {NoBastion}
  /\ \A c \in cycles : c \in Seq(Id)
  /\ phase # "walk" => path = <<>>
  /\ phase = "load" => nodes = <<>> /\ problems = {} /\ cycles = {} /\ ~flawed

\* Each problem was found by its loop, and nothing else was.
ProblemsInv ==
  /\ problems \subseteq {"node", "duplicate", "dangling", "cycle"}
  /\ "node" \in problems <=> flawed
  /\ "duplicate" \in problems <=> \E k \in CheckedIds : Repeated(k)
  /\ "dangling" \in problems <=> \E k \in CheckedBastions : Dangling(k)
  /\ "cycle" \in problems <=> cycles # {}
  /\ phase = "accepted" => problems = {}
  /\ phase = "rejected" => problems # {}

\* The walk followed the entries, and saw no node twice.
WalkInv ==
  phase = "walk" =>
    /\ cur # NoBastion
    /\ \A k \in 1..Len(path) :
         /\ path[k] \in Ids
         /\ EntryOf(path[k]).bastion = IF k = Len(path) THEN cur ELSE path[k + 1]
    /\ \A k, m \in 1..Len(path) : path[k] = path[m] => k = m

Closed(S) == \A k \in S : \E m \in S : nodes[m].id = nodes[k].bastion

NoDuplicate == \A k \in Places : ~Repeated(k)

\* Unless ids occur twice, no walk leaves nodes that only lead to each other:
\* it goes on among them until it reports a cycle.
TrappedInv ==
  NoDuplicate =>
    \A S \in SUBSET Places : Closed(S) =>
      /\ \A k \in Walked : k \in S => cycles # {}
      /\ phase = "walk" /\ place \in S => \E m \in S : nodes[m].id = cur

CheckInv ==
  CheckTypes /\ ProblemsInv /\ WalkInv /\ TrappedInv /\ ReportedCyclesAreCycles

LEMMA ListFacts ==
  ASSUME CheckTypes
  PROVE  /\ Len(nodes) \in Nat /\ Places = 1..Len(nodes) /\ DOMAIN nodes = Places
         /\ \A k \in Places : /\ nodes[k] \in Node /\ nodes[k].id \in Id
                              /\ nodes[k].bastion \in Id \cup {NoBastion}
                              /\ k \in Nat
         /\ Ids \subseteq Id
         /\ Len(path) \in Nat /\ DOMAIN path = 1..Len(path)
         /\ \A k \in 1..Len(path) : path[k] \in Id
<1>1. Len(nodes) \in Nat /\ Places = 1..Len(nodes) /\ DOMAIN nodes = Places
  BY DEF CheckTypes, Places
<1>2. \A k \in Places : nodes[k] \in Node /\ k \in Nat
  BY <1>1 DEF CheckTypes
<1>3. \A k \in Places : nodes[k].id \in Id /\ nodes[k].bastion \in Id \cup {NoBastion}
  BY <1>2 DEF Node
<1>4. Ids \subseteq Id
  BY <1>3 DEF Ids
<1>5. /\ Len(path) \in Nat /\ DOMAIN path = 1..Len(path)
      /\ \A k \in 1..Len(path) : path[k] \in Id
  BY DEF CheckTypes
<1> QED
  BY <1>1, <1>2, <1>3, <1>4, <1>5

LEMMA EntryFound ==
  ASSUME CheckTypes, NEW id \in Ids
  PROVE  \E k \in Places : EntryOf(id) = nodes[k] /\ nodes[k].id = id
<1> DEFINE T == {k \in Places : nodes[k].id = id}
<1>1. /\ Len(nodes) \in Nat /\ Places = 1..Len(nodes)
  BY ListFacts
<1>2. T \in SUBSET (1..Len(nodes)) /\ T # {}
  BY <1>1 DEF Ids
<1>3. \E i \in T : \A j \in T : j <= i
  <2> HIDE DEF T
  <2> QED
    BY <1>1, <1>2, Latest
<1>4. \E k \in Places :
        nodes[k].id = id /\ \A m \in Places : nodes[m].id = id => m <= k
  BY <1>3
<1> DEFINE k == CHOOSE k \in Places :
                  nodes[k].id = id /\ \A m \in Places : nodes[m].id = id => m <= k
<1>5. k \in Places /\ nodes[k].id = id
  BY <1>4
<1>6. EntryOf(id) = nodes[k]
  BY DEF EntryOf
<1> QED
  BY <1>5, <1>6

\* As long as the list is the same, so is what is defined from it.
LEMMA SameList ==
  ASSUME nodes' = nodes
  PROVE  /\ Places' = Places /\ Ids' = Ids
         /\ \A id : EntryOf(id)' = EntryOf(id)
         /\ \A k : (Repeated(k)' <=> Repeated(k)) /\ (Dangling(k)' <=> Dangling(k))
         /\ \A S : Closed(S)' <=> Closed(S)
         /\ NoDuplicate' <=> NoDuplicate
<1>1. Places' = Places /\ Ids' = Ids
  BY DEF Places, Ids
<1>2. \A id : EntryOf(id)' = EntryOf(id)
  BY <1>1 DEF EntryOf
<1>3. \A k : (Repeated(k)' <=> Repeated(k)) /\ (Dangling(k)' <=> Dangling(k))
  BY <1>1 DEF Repeated, Dangling
<1>4. \A S : Closed(S)' <=> Closed(S)
  BY DEF Closed
<1>5. NoDuplicate' <=> NoDuplicate
  BY <1>1, <1>3 DEF NoDuplicate
<1> QED
  BY <1>1, <1>2, <1>3, <1>4, <1>5

LEMMA CyclesKept ==
  ASSUME nodes' = nodes, cycles' = cycles, ReportedCyclesAreCycles
  PROVE  ReportedCyclesAreCycles'
BY SameList DEF ReportedCyclesAreCycles

LEMMA CheckInvInit == InventoryInit => CheckInv
<1> SUFFICES ASSUME InventoryInit
             PROVE  CheckInv
  OBVIOUS
<1> USE DEF InventoryInit
<1>1. CheckTypes
  <2>1. nodes \in Seq(Node) /\ path \in Seq(Id)
    OBVIOUS
  <2>2. flawed \in BOOLEAN /\ ~flawed
    OBVIOUS
  <2>3. place \in Nat \ {0} /\ place = 1
    OBVIOUS
  <2> QED
    BY <2>1, <2>2, <2>3 DEF CheckTypes
<1>2. CheckedIds = {} /\ CheckedBastions = {} /\ Walked = {}
  BY DEF CheckedIds, CheckedBastions, Walked
<1>3. ProblemsInv
  BY <1>2 DEF ProblemsInv
<1>4. WalkInv /\ TrappedInv /\ ReportedCyclesAreCycles
  BY <1>2 DEF WalkInv, TrappedInv, ReportedCyclesAreCycles
<1> QED
  BY <1>1, <1>3, <1>4 DEF CheckInv

LEMMA CheckLoad ==
  ASSUME CheckInv, Load
  PROVE  CheckInv'
<1> USE DEF CheckInv
<1>1. /\ phase = "load" /\ phase' = "ids" /\ flawed' \in BOOLEAN
      /\ problems' = IF flawed' THEN {"node"} ELSE {}
      /\ UNCHANGED <<cycles, place, path, cur>>
      /\ place = 1 /\ path = <<>> /\ cycles = {}
  BY DEF Load, CheckTypes
<1>2. PICK n \in 1..MaxNodes : nodes' \in [1..n -> Node]
  BY DEF Load
<1>3. nodes' \in Seq(Node) /\ Len(nodes') = n /\ n \in Nat /\ n >= 1
  <2>1. n \in Nat /\ n >= 1
    BY <1>2, InventoryAssumption
  <2>2. nodes' \in Seq(Node)
    BY <1>2, <2>1, SeqDef
  <2>3. DOMAIN nodes' = 1..n /\ DOMAIN nodes' = 1..Len(nodes') /\ Len(nodes') \in Nat
    BY <1>2, <2>2
  <2>4. Len(nodes') = n
    BY <2>1, <2>3, SameEnd
  <2> QED
    BY <2>1, <2>2, <2>4
<1>4. CheckTypes'
  BY <1>1, <1>3 DEF CheckTypes
<1>5. CheckedIds' = {} /\ CheckedBastions' = {} /\ Walked' = {}
  BY <1>1 DEF CheckedIds, CheckedBastions, Walked
<1>6. ProblemsInv'
  BY <1>1, <1>5 DEF ProblemsInv
<1>7. WalkInv' /\ TrappedInv' /\ ReportedCyclesAreCycles'
  BY <1>1, <1>5 DEF WalkInv, TrappedInv, ReportedCyclesAreCycles
<1> QED
  BY <1>4, <1>6, <1>7

\* The node that the loop is at is added to those behind it.
LEMMA LoopAdvances ==
  ASSUME NEW n \in Nat, NEW p \in Nat \ {0}, p <= n
  PROVE  /\ p < n => 1..(p + 1 - 1) = 1..(p - 1) \cup {p} /\ p + 1 <= n
         /\ ~ (p < n) => 1..n = 1..(p - 1) \cup {p}
OBVIOUS

LEMMA CheckCheckId ==
  ASSUME CheckInv, CheckId
  PROVE  CheckInv'
<1> USE DEF CheckInv
<1>1. /\ phase = "ids" /\ Found("duplicate", Repeated(place)) /\ Advance("bastions")
      /\ UNCHANGED <<nodes, flawed, cycles, path, cur>>
      /\ path = <<>> /\ place \in Nat \ {0} /\ place <= Len(nodes)
  BY DEF CheckId, CheckTypes
<1>2. Len(nodes) \in Nat /\ Places = 1..Len(nodes)
  BY ListFacts
<1>3. /\ phase' \in {"ids", "bastions"} /\ place' \in Nat \ {0}
      /\ place' <= Len(nodes)
      /\ CheckedIds' = CheckedIds \cup {place}
      /\ CheckedBastions' = {} /\ Walked' = {}
  <2>1. CASE place < Len(nodes)
    <3>1. phase' = "ids" /\ place' = place + 1
      BY <1>1, <2>1 DEF Advance
    <3> QED
      BY <1>1, <1>2, <2>1, <3>1, LoopAdvances
      DEF CheckedIds, CheckedBastions, Walked
  <2>2. CASE ~ (place < Len(nodes))
    <3>1. phase' = "bastions" /\ place' = 1
      BY <1>1, <2>2 DEF Advance
    <3>2. Places' = Places
      BY <1>1, SameList
    <3> QED
      BY <1>1, <1>2, <2>2, <3>1, <3>2, LoopAdvances
      DEF CheckedIds, CheckedBastions, Walked
  <2> QED
    BY <2>1, <2>2
<1>4. CheckTypes'
  BY <1>1, <1>3 DEF CheckTypes
<1>5. ProblemsInv'
  <2>1. CheckedBastions = {}
    BY <1>1 DEF CheckedBastions
  <2>2. problems' = problems \cup (IF Repeated(place) THEN {"duplicate"} ELSE {})
    BY <1>1 DEF Found
  <2>3. "duplicate" \in problems' <=> \E k \in CheckedIds' : Repeated(k)'
    BY <1>1, <1>3, <2>2, SameList DEF ProblemsInv
  <2>4. "dangling" \notin problems' /\ \A k : k \notin CheckedBastions'
    BY <1>3, <2>1, <2>2 DEF ProblemsInv
  <2> QED
    BY <1>1, <1>3, <2>2, <2>3, <2>4 DEF ProblemsInv
<1>6. WalkInv' /\ TrappedInv'
  BY <1>3 DEF WalkInv, TrappedInv
<1> QED
  BY <1>1, <1>4, <1>5, <1>6, CyclesKept

LEMMA CheckCheckBastion ==
  ASSUME CheckInv, CheckBastion
  PROVE  CheckInv'
<1> USE DEF CheckInv
<1>1. /\ phase = "bastions" /\ Found("dangling", Dangling(place)) /\ Advance("chains")
      /\ UNCHANGED <<nodes, flawed, cycles, path, cur>>
      /\ path = <<>> /\ place \in Nat \ {0} /\ place <= Len(nodes)
  BY DEF CheckBastion, CheckTypes
<1>2. Len(nodes) \in Nat /\ Places = 1..Len(nodes) /\ Places' = Places
  BY <1>1, ListFacts, SameList
<1>3. /\ phase' \in {"bastions", "chains"} /\ place' \in Nat \ {0}
      /\ place' <= Len(nodes)
      /\ CheckedBastions' = CheckedBastions \cup {place}
      /\ CheckedIds' = CheckedIds /\ Walked' = {}
  <2>1. CASE place < Len(nodes)
    <3>1. phase' = "bastions" /\ place' = place + 1
      BY <1>1, <2>1 DEF Advance
    <3> QED
      BY <1>1, <1>2, <2>1, <3>1, LoopAdvances
      DEF CheckedIds, CheckedBastions, Walked
  <2>2. CASE ~ (place < Len(nodes))
    <3>1. phase' = "chains" /\ place' = 1
      BY <1>1, <2>2 DEF Advance
    <3> QED
      BY <1>1, <1>2, <2>2, <3>1, LoopAdvances
      DEF CheckedIds, CheckedBastions, Walked
  <2> QED
    BY <2>1, <2>2
<1>4. CheckTypes'
  BY <1>1, <1>3 DEF CheckTypes
<1>5. ProblemsInv'
  <2>1. problems' = problems \cup (IF Dangling(place) THEN {"dangling"} ELSE {})
    BY <1>1 DEF Found
  <2>2. "dangling" \in problems' <=> \E k \in CheckedBastions' : Dangling(k)'
    BY <1>1, <1>3, <2>1, SameList DEF ProblemsInv
  <2>3. "duplicate" \in problems' <=> \E k \in CheckedIds' : Repeated(k)'
    BY <1>1, <1>3, <2>1, SameList DEF ProblemsInv
  <2> QED
    BY <1>1, <1>3, <2>1, <2>2, <2>3 DEF ProblemsInv
<1>6. WalkInv' /\ TrappedInv'
  BY <1>3 DEF WalkInv, TrappedInv
<1> QED
  BY <1>1, <1>4, <1>5, <1>6, CyclesKept

\* The loops over ids and bastions are done.
LEMMA LoopsDone ==
  ASSUME nodes' = nodes, phase \notin {"load", "ids", "bastions"},
         phase' \notin {"load", "ids", "bastions"}
  PROVE  CheckedIds' = CheckedIds /\ CheckedBastions' = CheckedBastions
BY SameList DEF CheckedIds, CheckedBastions

LEMMA CheckStartChain ==
  ASSUME CheckInv, StartChain
  PROVE  CheckInv'
<1> USE DEF CheckInv
<1>1. /\ phase = "chains" /\ phase' = "walk" /\ path' = <<>>
      /\ cur' = nodes[place].id
      /\ UNCHANGED <<nodes, flawed, problems, cycles, place>>
      /\ place \in Places
  BY ListFacts DEF StartChain, CheckTypes
<1>2. cur' \in Id /\ cur' # NoBastion
  BY <1>1, ListFacts, InventoryAssumption
<1>3. CheckTypes'
  <2>1. <<>> \in Seq(Id)
    OBVIOUS
  <2> QED
    BY <1>1, <1>2, <2>1 DEF CheckTypes
<1>4. CheckedIds' = CheckedIds /\ CheckedBastions' = CheckedBastions
  BY <1>1, LoopsDone
<1>5. ProblemsInv'
  BY <1>1, <1>4, SameList DEF ProblemsInv
<1>6. WalkInv'
  BY <1>1, <1>2 DEF WalkInv
<1>7. TrappedInv'
  <2>1. Walked' = Walked
    BY <1>1 DEF Walked
  <2> QED
    BY <1>1, <2>1, SameList DEF TrappedInv
<1> QED
  BY <1>1, <1>3, <1>5, <1>6, <1>7, CyclesKept

LEMMA CheckVerdict ==
  ASSUME CheckInv, Verdict
  PROVE  CheckInv'
<1> USE DEF CheckInv
<1>1. /\ phase = "decide"
      /\ phase' = IF problems = {} THEN "accepted" ELSE "rejected"
      /\ UNCHANGED <<nodes, flawed, problems, cycles, place, path, cur>>
  BY DEF Verdict
<1>2. CheckTypes'
  BY <1>1 DEF CheckTypes
<1>3. CheckedIds' = CheckedIds /\ CheckedBastions' = CheckedBastions
  BY <1>1, LoopsDone
<1>4. ProblemsInv'
  BY <1>1, <1>3, SameList DEF ProblemsInv
<1>5. Walked' = Walked
  BY <1>1, SameList DEF Walked
<1>6. WalkInv' /\ TrappedInv'
  BY <1>1, <1>5, SameList DEF WalkInv, TrappedInv
<1> QED
  BY <1>1, <1>2, <1>4, <1>6, CyclesKept

IsCycle(c) ==
  /\ c \in Seq(Id) /\ Len(c) > 1 /\ c[1] = c[Len(c)]
  /\ \A k \in 1..(Len(c) - 1) :
       /\ \E m \in Places : nodes[m] = [id |-> c[k], bastion |-> c[k + 1]]
       /\ \A m \in 1..(Len(c) - 1) : c[k] = c[m] => k = m

LEMMA CheckReturn ==
  ASSUME CheckInv, phase = "walk", UNCHANGED <<nodes, flawed>>,
         NEW found, Return(found), \A c \in found : IsCycle(c),
         NoDuplicate =>
           \A S \in SUBSET Places : Closed(S) /\ place \in S => found # {}
  PROVE  CheckInv'
<1> USE DEF CheckInv
<1>1. /\ cycles' = cycles \cup found /\ path' = <<>> /\ cur' = NoBastion
      /\ problems' = problems \cup (IF found # {} THEN {"cycle"} ELSE {})
  BY DEF Return, Found
<1>2. /\ place \in Nat \ {0} /\ place <= Len(nodes) /\ Len(nodes) \in Nat
      /\ Places = 1..Len(nodes) /\ Places' = Places
  BY ListFacts, SameList DEF CheckTypes
<1>3. /\ phase' \in {"chains", "decide"} /\ place' \in Nat \ {0}
      /\ phase' = "chains" => place' <= Len(nodes)
      /\ phase' = "decide" => place' = 1
      /\ Walked' = Walked \cup {place}
  <2>1. CASE place < Len(nodes)
    <3>1. phase' = "chains" /\ place' = place + 1
      BY <2>1 DEF Return
    <3> QED
      BY <1>2, <2>1, <3>1, LoopAdvances DEF Walked
  <2>2. CASE ~ (place < Len(nodes))
    <3>1. phase' = "decide" /\ place' = 1
      BY <2>2 DEF Return
    <3> QED
      BY <1>2, <2>2, <3>1, LoopAdvances DEF Walked
  <2> QED
    BY <2>1, <2>2
<1>4. CheckTypes'
  <2>1. <<>> \in Seq(Id)
    OBVIOUS
  <2>2. \A c \in cycles' : c \in Seq(Id)
    BY <1>1 DEF CheckTypes, IsCycle
  <2> QED
    BY <1>1, <1>3, <2>1, <2>2 DEF CheckTypes
<1>5. CheckedIds' = CheckedIds /\ CheckedBastions' = CheckedBastions
  BY <1>3, LoopsDone
<1>6. ProblemsInv'
  BY <1>1, <1>3, <1>5, SameList DEF ProblemsInv
<1>7. WalkInv'
  BY <1>3 DEF WalkInv
<1>8. TrappedInv'
  <2> SUFFICES ASSUME NoDuplicate, NEW S \in SUBSET Places, Closed(S),
                      NEW k \in Walked', k \in S
               PROVE  cycles' # {}
    BY <1>2, <1>3, SameList DEF TrappedInv
  <2>1. CASE k = place
    BY <1>1, <2>1
  <2>2. CASE k \in Walked
    BY <1>1, <2>2 DEF TrappedInv
  <2> QED
    BY <1>3, <2>1, <2>2
<1>9. ReportedCyclesAreCycles'
  <2>1. \A c \in cycles' : IsCycle(c)
    BY <1>1 DEF ReportedCyclesAreCycles, CheckTypes, IsCycle
  <2> QED
    BY <1>2, <2>1 DEF ReportedCyclesAreCycles, IsCycle
<1> QED
  BY <1>4, <1>6, <1>7, <1>8, <1>9

\* With one entry for every id, the walk goes on to the node it is at.
LEMMA OneEntry ==
  ASSUME CheckTypes, NoDuplicate, NEW m \in Places
  PROVE  EntryOf(nodes[m].id) = nodes[m]
<1>1. nodes[m].id \in Ids
  BY DEF Ids
<1>2. PICK k \in Places : EntryOf(nodes[m].id) = nodes[k] /\ nodes[k].id = nodes[m].id
  BY <1>1, EntryFound
<1>3. /\ k \in Nat /\ m \in Nat /\ k >= 1 /\ m >= 1
  BY ListFacts
<1>4. k < m => k \in 1..(m - 1)
  BY <1>3
<1>5. m < k => m \in 1..(k - 1)
  BY <1>3
<1>6. ~ (k < m) /\ ~ (m < k)
  BY <1>2, <1>4, <1>5 DEF NoDuplicate, Repeated
<1>7. k = m
  BY <1>3, <1>6
<1> QED
  BY <1>2, <1>7

LEMMA CheckFollow ==
  ASSUME CheckInv, Follow
  PROVE  CheckInv'
<1> USE DEF CheckInv
<1> DEFINE next == EntryOf(cur).bastion
<1>1. /\ phase = "walk" /\ cur \in Ids /\ ~Visited(cur)
      /\ UNCHANGED <<nodes, flawed>>
  BY DEF Follow, Return
<1>2. PICK k \in Places : EntryOf(cur) = nodes[k] /\ nodes[k].id = cur
  BY <1>1, EntryFound
<1>3. next \in Id \cup {NoBastion} /\ NoBastion \notin Id
  BY <1>2, ListFacts, InventoryAssumption
\* Among nodes that only lead to each other, the next one is another of them.
<1>4. ASSUME NoDuplicate, NEW S \in SUBSET Places, Closed(S), place \in S
      PROVE  \E m \in S : nodes[m].id = next
  <2>1. PICK m \in S : nodes[m].id = cur
    BY <1>1, <1>4 DEF TrappedInv
  <2>2. EntryOf(cur) = nodes[m]
    BY <1>4, <2>1, OneEntry
  <2> QED
    BY <1>4, <2>1, <2>2 DEF Closed
<1>5. CASE next = NoBastion
  <2>1. Return({})
    BY <1>5 DEF Follow
  <2>2. NoDuplicate =>
          \A S \in SUBSET Places : Closed(S) /\ place \in S => {} # {}
    BY <1>3, <1>4, <1>5, ListFacts
  <2> QED
    BY <1>1, <2>1, <2>2, CheckReturn
<1>6. CASE next # NoBastion
  <2>1. /\ path' = Append(path, cur) /\ cur' = next
        /\ UNCHANGED <<nodes, flawed, problems, cycles, phase, place>>
    BY <1>6 DEF Follow, With
  <2> HIDE DEF next
  <2>2. /\ Len(path) \in Nat /\ cur \in Id
        /\ path' \in Seq(Id) /\ Len(path') = Len(path) + 1
        /\ path'[Len(path) + 1] = cur
        /\ \A j \in 1..Len(path) : path'[j] = path[j]
    <3>1. path \in Seq(Id) /\ cur \in Id /\ Len(path) \in Nat
      BY <1>1, ListFacts DEF CheckTypes
    <3>2. /\ Append(path, cur) \in Seq(Id) /\ Len(Append(path, cur)) = Len(path) + 1
          /\ Append(path, cur)[Len(path) + 1] = cur
          /\ \A j \in 1..Len(path) : Append(path, cur)[j] = path[j]
      BY <3>1, AppendProperties
    <3> QED
      BY <2>1, <3>1, <3>2, Zenon
  <2>3. CheckTypes'
    BY <1>1, <1>3, <2>1, <2>2 DEF CheckTypes
  <2>4. CheckedIds' = CheckedIds /\ CheckedBastions' = CheckedBastions
    BY <1>1, <2>1, LoopsDone
  <2>5. ProblemsInv'
    BY <2>1, <2>4, SameList DEF ProblemsInv
  <2>6. WalkInv'
    <3>1. \A j \in 1..Len(path) : path[j] # cur
      BY <1>1, ListFacts DEF Visited, Seen
    <3>2. ASSUME NEW j \in 1..Len(path')
          PROVE  /\ path'[j] \in Ids
                 /\ EntryOf(path'[j]).bastion =
                      IF j = Len(path') THEN cur' ELSE path'[j + 1]
      <4>1. CASE j \in 1..Len(path)
        <5>1. /\ path'[j] = path[j] /\ j # Len(path')
              /\ j # Len(path) => path'[j + 1] = path[j + 1]
              /\ j = Len(path) => path'[j + 1] = cur
          BY <2>2, <4>1
        <5> QED
          BY <1>1, <4>1, <5>1 DEF WalkInv
      <4>2. CASE j = Len(path) + 1
        BY <1>1, <2>1, <2>2, <4>2 DEF next
      <4> QED
        BY <2>2, <4>1, <4>2
    <3>3. ASSUME NEW j \in 1..Len(path'), NEW m \in 1..Len(path'),
                 path'[j] = path'[m]
          PROVE  j = m
      <4>1. CASE j \in 1..Len(path) /\ m \in 1..Len(path)
        BY <1>1, <2>2, <3>3, <4>1 DEF WalkInv
      <4>2. CASE j \notin 1..Len(path) \/ m \notin 1..Len(path)
        BY <2>2, <3>1, <3>3, <4>2
      <4> QED
        BY <4>1, <4>2
    <3>4. cur' # NoBastion /\ Ids' = Ids /\ \A id : EntryOf(id)' = EntryOf(id)
      BY <1>6, <2>1, SameList
    <3>5. \A j \in 1..Len(path') :
            EntryOf(path[j])' = EntryOf(path'[j])
      BY <2>1 DEF EntryOf, Places
    <3> QED
      BY <3>2, <3>3, <3>4, <3>5 DEF WalkInv
  <2>7. TrappedInv'
    <3>1. Walked' = Walked
      BY <1>1, <2>1, SameList DEF Walked
    <3> QED
      BY <1>4, <2>1, <3>1, SameList DEF TrappedInv
  <2> QED
    BY <2>1, <2>3, <2>5, <2>6, <2>7, CyclesKept
<1> QED
  BY <1>5, <1>6

\* What is cut out of the walk when it comes back to a node is a cycle.
LEMMA LoopIsCycle ==
  ASSUME CheckInv, phase = "walk", Visited(cur)
  PROVE  IsCycle(Loop(cur))
<1> USE DEF CheckInv
<1> DEFINE first == CHOOSE k \in DOMAIN path : path[k] = cur
           piece == SubSeq(path, first, Len(path))
           c == Append(piece, cur)
<1>1. /\ Len(path) \in Nat /\ DOMAIN path = 1..Len(path)
      /\ \A k \in 1..Len(path) : path[k] \in Id
  BY ListFacts
<1>2. first \in 1..Len(path) /\ path[first] = cur
  BY <1>1 DEF Visited, Seen
<1>3. c = Loop(cur)
  BY DEF Loop
<1>4. cur \in Id
  BY <1>1, <1>2
<1> HIDE DEF first
<1>5. first \in Nat /\ first >= 1 /\ first <= Len(path)
  BY <1>1, <1>2
<1> DEFINE n == Len(path) - first + 1
<1>6. /\ piece \in Seq(Id) /\ Len(piece) = n
      /\ \A k \in 1..n : piece[k] = path[first + k - 1]
  <2>1. piece = SubSeq(path, first, Len(path))
    OBVIOUS
  <2>2. /\ first \in Int /\ Len(path) \in Int /\ first <= Len(path) + 1
        /\ \A k \in first..Len(path) : path[k] \in Id
    BY <1>1, <1>5
  <2> HIDE DEF piece
  <2> QED
    BY <2>1, <2>2, PieceOf
<1>7. n \in Nat /\ n >= 1
  BY <1>1, <1>5
<1> HIDE DEF piece
<1>8. /\ c \in Seq(Id) /\ Len(c) = n + 1 /\ c[n + 1] = cur
      /\ \A k \in 1..n : c[k] = path[first + k - 1]
  <2>1. /\ c \in Seq(Id) /\ Len(c) = Len(piece) + 1 /\ c[Len(piece) + 1] = cur
        /\ \A k \in 1..Len(piece) : c[k] = piece[k]
    BY <1>4, <1>6, AppendProperties
  <2> HIDE DEF c, n
  <2> QED
    BY <1>6, <2>1
<1> HIDE DEF c
<1>9. c[1] = c[n + 1]
  <2>1. 1 \in 1..n /\ first + 1 - 1 = first
    BY <1>5, <1>7
  <2> QED
    BY <1>2, <1>8, <2>1
<1>10. ASSUME NEW k \in 1..n
       PROVE  /\ c[k] = path[first + k - 1] /\ first + k - 1 \in 1..Len(path)
              /\ EntryOf(c[k]).bastion = c[k + 1]
  <2>1. /\ c[k] = path[first + k - 1] /\ first + k - 1 \in 1..Len(path)
        /\ first + k - 1 + 1 = first + (k + 1) - 1
        /\ k \in Int /\ (k # n => k + 1 \in 1..n)
        /\ (k = n <=> first + k - 1 = Len(path))
    BY <1>1, <1>5, <1>7, <1>8
  <2>2. k # n => c[k + 1] = path[first + k - 1 + 1]
    BY <1>8, <2>1
  <2>3. k = n => c[k + 1] = cur
    BY <1>8
  <2> HIDE DEF n
  <2> QED
    BY <2>1, <2>2, <2>3 DEF WalkInv
<1> HIDE DEF n
<1>11. ASSUME NEW k \in 1..n
       PROVE  \E m \in Places : nodes[m] = [id |-> c[k], bastion |-> c[k + 1]]
  <2>1. c[k] \in Ids
    BY <1>10, <1>11 DEF WalkInv
  <2>2. PICK m \in Places : EntryOf(c[k]) = nodes[m] /\ nodes[m].id = c[k]
    BY <2>1, EntryFound
  <2>3. nodes[m].bastion = c[k + 1] /\ nodes[m] \in Node
    BY <1>10, <1>11, <2>2, ListFacts
  <2>4. nodes[m] = [id |-> nodes[m].id, bastion |-> nodes[m].bastion]
    BY <2>3 DEF Node
  <2> QED
    BY <2>2, <2>3, <2>4
<1>12. ASSUME NEW k \in 1..n, NEW m \in 1..n, c[k] = c[m]
       PROVE  k = m
  <2>1. first + k - 1 = first + m - 1
    BY <1>10, <1>12 DEF WalkInv
  <2> QED
    BY <1>5, <1>7, <2>1
<1>13. Len(c) > 1 /\ Len(c) - 1 = n
  BY <1>7, <1>8
<1>14. IsCycle(c)
  BY <1>8, <1>9, <1>11, <1>12, <1>13 DEF IsCycle
<1> QED
  BY <1>3, <1>14

LEMMA CheckMeet ==
  ASSUME CheckInv, Meet
  PROVE  CheckInv'
<1> USE DEF CheckInv
<1> DEFINE found == IF Visited(cur) THEN {Loop(cur)} ELSE {}
<1>1. /\ phase = "walk" /\ (cur \notin Ids \/ Visited(cur))
      /\ Return(found) /\ UNCHANGED <<nodes, flawed>>
  BY DEF Meet, Return
<1>2. phase = "walk"
  BY DEF Meet
<1>3. \A c \in found : IsCycle(c)
  BY <1>2, LoopIsCycle
<1>4. ASSUME NoDuplicate, NEW S \in SUBSET Places, Closed(S), place \in S
      PROVE  found # {}
  <2>1. PICK m \in S : nodes[m].id = cur
    BY <1>2, <1>4 DEF TrappedInv
  <2>2. cur \in Ids
    BY <2>1 DEF Ids
  <2> QED
    BY <1>1, <2>2
<1> HIDE DEF found
<1> QED
  BY <1>1, <1>2, <1>3, <1>4, CheckReturn

LEMMA CheckInvStep == CheckInv /\ [InventoryNext]_inventoryVars => CheckInv'
<1> SUFFICES ASSUME CheckInv, [InventoryNext]_inventoryVars
             PROVE  CheckInv'
  OBVIOUS
<1>1. CASE UNCHANGED inventoryVars
  <2>1. UNCHANGED <<nodes, flawed, problems, cycles, phase, place, path, cur>>
    BY <1>1 DEF inventoryVars
  <2>2. CheckTypes'
    BY <2>1 DEF CheckInv, CheckTypes
  <2>3. CheckedIds' = CheckedIds /\ CheckedBastions' = CheckedBastions
        /\ Walked' = Walked
    BY <2>1, SameList DEF CheckedIds, CheckedBastions, Walked
  <2>4. ProblemsInv'
    BY <2>1, <2>3, SameList DEF CheckInv, ProblemsInv
  <2>5. \A k : EntryOf(path[k])' = EntryOf(path[k])
    BY <2>1 DEF EntryOf, Places
  <2>6. WalkInv'
    BY <2>1, <2>5, SameList DEF CheckInv, WalkInv
  <2>7. TrappedInv'
    BY <2>1, <2>3, SameList DEF CheckInv, TrappedInv
  <2> QED
    BY <2>1, <2>2, <2>4, <2>6, <2>7, CyclesKept DEF CheckInv
<1>2. CASE InventoryNext
  BY <1>2, CheckLoad, CheckCheckId, CheckCheckBastion, CheckStartChain, CheckFollow,
     CheckMeet, CheckVerdict
  DEF InventoryNext
<1> QED
  BY <1>1, <1>2

\* The check keeps this on any list of nodes, however their bastions lead.
THEOREM CheckInvariant == InventorySpec => []CheckInv
<1> QED
  BY CheckInvInit, CheckInvStep, PTL DEF InventorySpec

\* A walk that saw no node twice is no longer than the list.
LEMMA WalkBounded ==
  ASSUME CheckInv
  PROVE  Seen \subseteq Ids /\ Len(path) <= Len(nodes)
<1>1. CASE phase # "walk"
  <2>1. path = <<>>
    BY <1>1 DEF CheckInv, CheckTypes
  <2>2. Len(path) = 0 /\ Seen = {}
    BY <2>1 DEF Seen
  <2> QED
    BY <2>2, ListFacts DEF CheckInv
<1>2. CASE phase = "walk"
  <2>1. /\ Len(path) \in Nat /\ DOMAIN path = 1..Len(path)
        /\ Len(nodes) \in Nat /\ Places = 1..Len(nodes)
    BY ListFacts DEF CheckInv
  <2>2. \A k \in 1..Len(path) : path[k] \in Ids
    BY <1>2 DEF CheckInv, WalkInv
  <2>3. \A k, m \in 1..Len(path) : path[k] = path[m] => k = m
    BY <1>2 DEF CheckInv, WalkInv
  <2> DEFINE at == [k \in 1..Len(path) |->
                      CHOOSE m \in Places : nodes[m].id = path[k]]
  <2>4. \A k \in 1..Len(path) : at[k] \in Places /\ nodes[at[k]].id = path[k]
    BY <2>2 DEF Ids
  <2>5. at \in Injection(1..Len(path), 1..Len(nodes))
    <3>1. at \in [1..Len(path) -> 1..Len(nodes)]
      BY <2>1, <2>4
    <3>2. \A k, m \in 1..Len(path) : at[k] = at[m] => k = m
      BY <2>3, <2>4
    <3> HIDE DEF at
    <3> QED
      BY <3>1, <3>2 DEF Injection, IsInjective
  <2>6. /\ IsFiniteSet(1..Len(path)) /\ Cardinality(1..Len(path)) = Len(path)
        /\ IsFiniteSet(1..Len(nodes)) /\ Cardinality(1..Len(nodes)) = Len(nodes)
    <3>1. \A n \in Nat : IsFiniteSet(1..n) /\ Cardinality(1..n) = n
      BY FS_Interval
    <3> QED
      BY <2>1, <3>1
  <2>7. Cardinality(1..Len(path)) <= Cardinality(1..Len(nodes))
    <3> HIDE DEF at
    <3> QED
      BY <2>5, <2>6, FS_Injection
  <2>8. Seen \subseteq Ids
    BY <2>1, <2>2 DEF Seen
  <2> QED
    BY <2>6, <2>7, <2>8
<1> QED
  BY <1>1, <1>2

\* The list is one of nodes, and a chain never outgrows it (InventoryTypeOK).
THEOREM InventoryTypes == InventorySpec => []InventoryTypeOK
<1>1. CheckInv => InventoryTypeOK
  <2> SUFFICES ASSUME CheckInv
               PROVE  InventoryTypeOK
    OBVIOUS
  <2>1. Seen \subseteq Ids /\ Len(path) <= Len(nodes)
    BY WalkBounded
  <2>2. \A k \in Places : nodes[k] \in Node
    BY ListFacts DEF CheckInv
  <2>3. place \in 1..(Len(nodes) + 1)
    <3>1. place \in Nat \ {0} /\ Len(nodes) \in Nat
          /\ (place = 1 \/ place <= Len(nodes))
      BY ListFacts DEF CheckInv, CheckTypes
    <3> QED
      BY <3>1
  <2> QED
    BY <2>1, <2>2, <2>3 DEF CheckInv, CheckTypes, ProblemsInv, InventoryTypeOK
<1> QED
  BY <1>1, CheckInvariant, PTL

\* The nodes on a reported cycle lead to each other.
LEMMA CycleTraps ==
  ASSUME CheckInv, NEW c \in cycles
  PROVE  Endless
<1> USE DEF CheckInv
<1> DEFINE n == Len(c) - 1
           S == {m \in Places : \E k \in 1..n :
                   nodes[m] = [id |-> c[k], bastion |-> c[k + 1]]}
<1>1. /\ Len(c) > 1 /\ c[1] = c[Len(c)]
      /\ \A k \in 1..n :
           \E m \in Places : nodes[m] = [id |-> c[k], bastion |-> c[k + 1]]
  BY DEF ReportedCyclesAreCycles
<1>2. 1 <= n /\ Len(c) = n + 1 /\ n \in Int
  <2>1. Len(c) \in Nat
    BY DEF CheckTypes
  <2> QED
    BY <1>1, <2>1
<1> HIDE DEF n
<1>3. S # {}
  <2>1. 1 \in 1..n
    BY <1>2
  <2>2. PICK m \in Places : nodes[m] = [id |-> c[1], bastion |-> c[1 + 1]]
    BY <1>1, <2>1
  <2>3. m \in S
    BY <2>1, <2>2
  <2> QED
    BY <2>3
<1>4. ASSUME NEW m \in S
      PROVE  \E m2 \in S : nodes[m2].id = nodes[m].bastion
  <2>1. PICK k \in 1..n : nodes[m] = [id |-> c[k], bastion |-> c[k + 1]]
    OBVIOUS
  <2>2. \E j \in 1..n : c[j] = c[k + 1]
    <3>1. CASE k = n
      BY <1>1, <1>2, <3>1
    <3>2. CASE k # n
      BY <1>2, <3>2
    <3> QED
      BY <3>1, <3>2
  <2>3. PICK j \in 1..n : c[j] = c[k + 1]
    BY <2>2
  <2>4. PICK m2 \in Places : nodes[m2] = [id |-> c[j], bastion |-> c[j + 1]]
    BY <1>1
  <2> QED
    BY <2>1, <2>3, <2>4
<1> QED
  BY <1>3, <1>4 DEF Endless

\* An id that is there once is not repeated, and the other way round.
LEMMA OnceOnly ==
  ASSUME CheckTypes
  PROVE  NoDuplicate <=> \A k, m \in Places : nodes[k].id = nodes[m].id => k = m
<1>1. Len(nodes) \in Nat /\ Places = 1..Len(nodes)
  BY ListFacts
<1>2. ASSUME NoDuplicate, NEW k \in Places, NEW m \in Places,
             nodes[k].id = nodes[m].id
      PROVE  k = m
  <2>1. /\ k < m => k \in 1..(m - 1)
        /\ m < k => m \in 1..(k - 1)
    BY <1>1
  <2>2. ~ (k < m) /\ ~ (m < k)
    BY <1>2, <2>1 DEF NoDuplicate, Repeated
  <2> QED
    BY <1>1, <2>2
<1>3. ASSUME ~NoDuplicate
      PROVE  \E k, m \in Places : nodes[k].id = nodes[m].id /\ k # m
  <2>1. PICK k \in Places : Repeated(k)
    BY <1>3 DEF NoDuplicate
  <2>2. PICK m \in 1..(k - 1) : nodes[m].id = nodes[k].id
    BY <2>1 DEF Repeated
  <2>3. m \in Places /\ m # k
    BY <1>1
  <2> QED
    BY <2>2, <2>3
<1> QED
  BY <1>2, <1>3

LEMMA VerdictFollows == CheckInv => VerdictRight
<1> SUFFICES ASSUME CheckInv
             PROVE  VerdictRight
  OBVIOUS
<1> USE DEF CheckInv
<1>1. ASSUME phase = "accepted"
      PROVE  /\ ~flawed /\ NoDuplicate /\ ~Endless
             /\ \A k \in Places : nodes[k].bastion \in Ids \cup {NoBastion}
  <2>1. problems = {} /\ CheckedIds = Places /\ CheckedBastions = Places
        /\ Walked = Places
    BY <1>1 DEF ProblemsInv, CheckedIds, CheckedBastions, Walked
  <2>2. ~flawed /\ cycles = {} /\ NoDuplicate /\ \A k \in Places : ~Dangling(k)
    BY <2>1 DEF ProblemsInv, NoDuplicate
  <2>3. ~Endless
    <3>1. ASSUME NEW S \in SUBSET Places, S # {}, Closed(S)
          PROVE  FALSE
      <4>1. PICK k \in S : TRUE
        BY <3>1
      <4>2. \A j \in Walked : j \in S => cycles # {}
        BY <2>2, <3>1, Zenon DEF TrappedInv
      <4>3. k \in Walked
        BY <2>1, <3>1, <4>1
      <4> QED
        BY <2>2, <4>2, <4>3, Zenon
    <3> QED
      BY <3>1 DEF Endless, Closed
  <2> QED
    BY <2>2, <2>3 DEF Dangling
<1>2. ASSUME phase = "rejected", ~flawed, NoDuplicate,
             \A k \in Places : nodes[k].bastion \in Ids \cup {NoBastion}
      PROVE  Endless
  <2>1. CheckedIds = Places /\ CheckedBastions = Places
    BY <1>2 DEF CheckedIds, CheckedBastions
  <2>2. "node" \notin problems /\ "duplicate" \notin problems
        /\ "dangling" \notin problems /\ problems # {}
    BY <1>2, <2>1 DEF ProblemsInv, NoDuplicate, Dangling
  <2>3. cycles # {}
    BY <2>2 DEF ProblemsInv
  <2> QED
    BY <2>3, CycleTraps
<1> QED
  BY <1>1, <1>2, OnceOnly DEF VerdictRight

\* A later loop, a later node, or a longer walk.
Rank == [load |-> 0, ids |-> 1, bastions |-> 2, chains |-> 3, walk |-> 3,
         decide |-> 4, accepted |-> 5, rejected |-> 5]

LEMMA ProgressIs ==
  /\ Progress[1] = Rank[phase] /\ Progress[2] = place
  /\ Progress[3] = IF phase = "walk" THEN Len(path) + 1 ELSE 0
  /\ Progress'[1] = Rank[phase'] /\ Progress'[2] = place'
  /\ Progress'[3] = IF phase' = "walk" THEN Len(path') + 1 ELSE 0
BY DEF Progress, Rank

LEMMA Advances ==
  ASSUME \/ Progress[1] < Progress'[1]
         \/ Progress[1] = Progress'[1] /\ Progress[2] < Progress'[2]
         \/ /\ Progress[1] = Progress'[1] /\ Progress[2] = Progress'[2]
            /\ Progress[3] < Progress'[3]
  PROVE  EveryStepAdvances
<1>1. CASE Progress[1] < Progress'[1]
  BY <1>1 DEF EveryStepAdvances
<1>2. CASE Progress[1] = Progress'[1] /\ Progress[2] < Progress'[2]
  <2>1. \A m \in 1..(2 - 1) : m = 1
    OBVIOUS
  <2> QED
    BY <1>2, <2>1 DEF EveryStepAdvances
<1>3. CASE /\ Progress[1] = Progress'[1] /\ Progress[2] = Progress'[2]
           /\ Progress[3] < Progress'[3]
  <2>1. \A m \in 1..(3 - 1) : m = 1 \/ m = 2
    OBVIOUS
  <2> QED
    BY <1>3, <2>1 DEF EveryStepAdvances
<1> QED
  BY <1>1, <1>2, <1>3

\* A return from the walk goes on to a later node or to the verdict.
LEMMA ReturnAdvances ==
  ASSUME CheckInv, phase = "walk", NEW found, Return(found)
  PROVE  EveryStepAdvances
<1>1. place \in Nat
  BY DEF CheckInv, CheckTypes
<1>2. \/ phase' = "chains" /\ place' = place + 1
      \/ phase' = "decide"
  BY DEF Return
<1> QED
  BY <1>1, <1>2, ProgressIs, Advances DEF Rank

LEMMA StepAdvances == CheckInv /\ InventoryNext => EveryStepAdvances
<1> SUFFICES ASSUME CheckInv, InventoryNext
             PROVE  EveryStepAdvances
  OBVIOUS
<1>1. place \in Nat /\ Len(path) \in Nat
  BY ListFacts DEF CheckInv, CheckTypes
<1>2. CASE Load
  <2>1. phase = "load" /\ phase' = "ids"
    BY <1>2 DEF Load
  <2> QED
    BY <2>1, ProgressIs, Advances DEF Rank
<1>3. CASE CheckId
  <2>1. /\ phase = "ids"
        /\ \/ phase' = "ids" /\ place' = place + 1
           \/ phase' = "bastions"
    BY <1>3 DEF CheckId, Advance
  <2> QED
    BY <1>1, <2>1, ProgressIs, Advances DEF Rank
<1>4. CASE CheckBastion
  <2>1. /\ phase = "bastions"
        /\ \/ phase' = "bastions" /\ place' = place + 1
           \/ phase' = "chains"
    BY <1>4 DEF CheckBastion, Advance
  <2> QED
    BY <1>1, <2>1, ProgressIs, Advances DEF Rank
<1>5. CASE StartChain
  <2>1. phase = "chains" /\ phase' = "walk" /\ place' = place /\ path' = <<>>
    BY <1>5 DEF StartChain
  <2>2. Progress[3] = 0 /\ Progress'[3] = 1
    BY <2>1, ProgressIs
  <2> QED
    BY <2>1, <2>2, ProgressIs, Advances DEF Rank
<1>6. CASE Follow
  <2>1. CASE EntryOf(cur).bastion = NoBastion
    <3>1. phase = "walk" /\ Return({})
      BY <1>6, <2>1 DEF Follow
    <3> QED
      BY <3>1, ReturnAdvances
  <2>2. CASE EntryOf(cur).bastion # NoBastion
    <3>1. /\ phase = "walk" /\ phase' = "walk" /\ place' = place
          /\ path' = Append(path, cur)
      BY <1>6, <2>2 DEF Follow, With
    <3>2. cur \in Id /\ path \in Seq(Id)
      BY <1>6, ListFacts DEF Follow, CheckInv, CheckTypes
    <3>3. Len(path') = Len(path) + 1
      BY <3>1, <3>2, AppendProperties
    <3> QED
      BY <1>1, <3>1, <3>3, ProgressIs, Advances DEF Rank
  <2> QED
    BY <2>1, <2>2
<1>7. CASE Meet
  <2>1. phase = "walk" /\ Return(IF Visited(cur) THEN {Loop(cur)} ELSE {})
    BY <1>7 DEF Meet
  <2> QED
    BY <2>1, ReturnAdvances
<1>8. CASE Verdict
  <2>1. phase = "decide" /\ phase' \in {"accepted", "rejected"}
    BY <1>8 DEF Verdict
  <2> QED
    BY <2>1, ProgressIs, Advances DEF Rank
<1> QED
  BY <1>2, <1>3, <1>4, <1>5, <1>6, <1>7, <1>8 DEF InventoryNext

\* The check of an inventory ends, since every step takes it further within
\* bounds, with the right verdict and with cycles that are there (CheckRight).
THEOREM CheckIsRight == InventorySpec => CheckRight
<1>1. CheckInv' => VerdictRight' /\ ReportedCyclesAreCycles'
  <2>1. CheckInv => VerdictRight /\ ReportedCyclesAreCycles
    BY VerdictFollows DEF CheckInv
  <2> QED
    BY <2>1, PTL
<1>2. CheckInv /\ CheckInv' /\ [InventoryNext]_inventoryVars
        => [/\ VerdictRight' /\ ReportedCyclesAreCycles'
            /\ EveryStepAdvances]_inventoryVars
  BY <1>1, StepAdvances
<1> QED
  BY <1>2, CheckInvariant, PTL DEF InventorySpec, CheckRight

------------------------------------------------------------------------------
\* The five parts side by side.

LEMMA PartsRun ==
  MCSpec => /\ OnboardingSpec /\ RegistrySpec /\ InventorySpec
            /\ MigrationSpec /\ BlobSpec
<1>1. MCInit => /\ OnboardingInit /\ RegistryInit /\ InventoryInit
                /\ MigrationInit /\ BlobInit
  BY DEF MCInit
<1>2. [MCNext]_MCVars => /\ [OnboardingNext]_onboardingVars
                         /\ [RegistryNext]_registryVars
                         /\ [InventoryNext]_inventoryVars
                         /\ [MigrationNext]_migrationVars
                         /\ [BlobNext]_blobVars
  BY DEF MCNext, MCVars, OnboardingStep, RegistryStep, InventoryStep, MigrationStep,
         BlobStep
<1> QED
  BY <1>1, <1>2, PTL
  DEF MCSpec, OnboardingSpec, RegistrySpec, InventorySpec, MigrationSpec, BlobSpec

\* Known hosts, log, registry, inventory, schema and blobs have their types
\* (FileTypes).
THEOREM FilesWellFormed == MCSpec => []FileTypes
  BY PartsRun, OnboardingTypes, RegistryTypes, InventoryTypes, MigrationTypes,
     BlobTypes, PTL
  DEF FileTypes
==============================================================================
