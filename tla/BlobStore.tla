------------------------------ MODULE BlobStore ------------------------------
(***************************************************************************)
(* The content-addressed files in data/blobs: a stream is written to a     *)
(* temporary file, synced, renamed to its hash, and only then referenced   *)
(* by a committed execution.  find_orphan_blobs compares the two.          *)
(*                                                                         *)
(* Abstractions.  A file is named by its content.  A rename survives a     *)
(* power failure once the directory has been synced; the commit of the     *)
(* reference survives it always (synchronous=FULL).  A kill leaves what    *)
(* the kernel has.  The directory can be synced.                           *)
(***************************************************************************)
EXTENDS Integers, FiniteSets

CONSTANTS Writer,     \* processes that save executions
          Content,    \* streams above the inline limit
          MaxKills,   \* bound: processes that are killed
          MaxOutages  \* bound: power failures

ASSUME BlobAssumption == MaxKills \in Nat /\ MaxOutages \in Nat

VARIABLES
  dest,     \* the file of each content: "none" or "whole"
  synced,   \* contents whose directory entry is on the disk
  unsure,   \* contents taken for stored before their entry was on the disk
  temps,    \* temporary files
  refs,     \* contents that a committed execution references
  task,     \* by writer: where it is in saving which content
  scan,     \* the scan for orphans
  kills, outages

blobVars == <<dest, synced, unsure, temps, refs, task, scan, kills, outages>>

Free == [at |-> "free"]
NoScan == [at |-> "none", refs |-> {}, orphans |-> {}, quiet |-> TRUE]

BlobInit ==
  /\ dest = [c \in Content |-> "none"]
  /\ synced = {} /\ unsure = {} /\ temps = {} /\ refs = {}
  /\ task = [w \in Writer |-> Free]
  /\ scan = NoScan
  /\ kills = 0 /\ outages = 0

At(w, at) == task[w].at = at
Proceed(w, at) == task' = [task EXCEPT ![w].at = at]

------------------------------------------------------------------------------
\* write, and the transaction that references what it returned

Present(c) == dest[c] = "whole"

\* A complete file under that name is taken for the blob.
Look(w, c) ==
  /\ At(w, "free")
  /\ task' = [task EXCEPT ![w] =
       [at |-> IF Present(c) THEN "commit" ELSE "create", content |-> c]]
  /\ unsure' = IF Present(c) /\ c \notin synced THEN unsure \cup {c} ELSE unsure
  /\ UNCHANGED <<dest, synced, temps, refs, scan, kills, outages>>

\* mkstemp; written in full and synced when the next step is taken.
CreateTemp(w) ==
  /\ At(w, "create")
  /\ temps' = temps \cup {<<w, task[w].content>>}
  /\ Proceed(w, "replace")
  /\ UNCHANGED <<dest, synced, unsure, refs, scan, kills, outages>>

Replace(w) ==
  /\ At(w, "replace")
  /\ dest' = [dest EXCEPT ![task[w].content] = "whole"]
  /\ temps' = temps \ {<<w, task[w].content>>}
  /\ Proceed(w, "sync")
  /\ UNCHANGED <<synced, unsure, refs, scan, kills, outages>>

\* Mutant: the directory is not synced.
SyncedNot == synced

\* Mutant: temporary files are entries as well.
SyncedWithTemps == {c \in Content : dest[c] # "none"} \cup temps

\* All entries the directory has.
Synced == {c \in Content : dest[c] # "none"}

SyncDir(w) ==
  /\ At(w, "sync")
  /\ synced' = Synced
  /\ unsure' = unsure \ Synced
  /\ Proceed(w, "commit")
  /\ UNCHANGED <<dest, temps, refs, scan, kills, outages>>

\* The write fails; the temporary file is removed.
WriteFails(w) ==
  /\ At(w, "replace")
  /\ temps' = temps \ {<<w, task[w].content>>}
  /\ task' = [task EXCEPT ![w] = Free]
  /\ UNCHANGED <<dest, synced, unsure, refs, scan, kills, outages>>

\* The node's transaction commits, or is refused by the fence.
CommitRef(w) ==
  /\ At(w, "commit")
  /\ refs' = refs \cup {task[w].content}
  /\ scan' = [scan EXCEPT !.quiet = FALSE]
  /\ task' = [task EXCEPT ![w] = Free]
  /\ UNCHANGED <<unsure, dest, synced, temps, kills, outages>>

Refused(w) ==
  /\ At(w, "commit")
  /\ task' = [task EXCEPT ![w] = Free]
  /\ UNCHANGED <<dest, synced, temps, unsure, refs, scan, kills, outages>>

------------------------------------------------------------------------------
\* find_orphan_blobs: first the references, then the directory.

ScanRefs ==
  /\ scan.at # "refs"
  /\ scan' = [NoScan EXCEPT !.at = "refs", !.refs = refs]
  /\ UNCHANGED <<dest, synced, temps, unsure, refs, task, kills, outages>>

\* Mutant: temporary files are listed as well.
ListedWithTemps ==
  {c \in Content : dest[c] # "none" \/ \E w \in Writer : <<w, c>> \in temps}

\* list: the completed files only.
Listed == {c \in Content : dest[c] # "none"}

ScanList ==
  /\ scan.at = "refs"
  /\ scan' = [scan EXCEPT !.at = "done", !.orphans = Listed \ scan.refs]
  /\ UNCHANGED <<dest, synced, temps, unsure, refs, task, kills, outages>>

------------------------------------------------------------------------------
\* kill -9 and loss of power

Kill(w) ==
  /\ kills < MaxKills /\ task[w] # Free
  /\ kills' = kills + 1
  /\ task' = [task EXCEPT ![w] = Free]
  /\ UNCHANGED <<dest, synced, temps, unsure, refs, scan, outages>>

\* An entry that was not synced may be gone.
Outage ==
  /\ outages < MaxOutages
  /\ outages' = outages + 1
  /\ \E kept \in SUBSET Content :
       /\ synced \subseteq kept
       /\ dest' = [c \in Content |-> IF c \in kept THEN dest[c] ELSE "none"]
       /\ synced' = {c \in kept : dest[c] # "none"}
  /\ task' = [w \in Writer |-> Free]
  /\ scan' = NoScan
  /\ UNCHANGED <<temps, unsure, refs, kills>>

BlobNext ==
  \/ \E w \in Writer :
       \/ \E c \in Content : Look(w, c)
       \/ CreateTemp(w)
       \/ Replace(w)
       \/ SyncDir(w)
       \/ WriteFails(w)
       \/ CommitRef(w)
       \/ Refused(w)
       \/ Kill(w)
  \/ ScanRefs
  \/ ScanList
  \/ Outage

BlobSpec == BlobInit /\ [][BlobNext]_blobVars

------------------------------------------------------------------------------
\* Correctness.

\* Files, references, writers and scan have their types.
BlobTypeOK ==
  /\ dest \in [Content -> {"none", "whole"}]
  /\ synced \cup unsure \cup refs \subseteq Content
  /\ temps \subseteq Writer \X Content
  /\ \A w \in Writer :
       task[w].at \in {"free", "create", "replace", "sync", "commit"}
  /\ scan.orphans \subseteq Content /\ scan.refs \subseteq Content
  /\ kills \in 0..MaxKills /\ outages \in 0..MaxOutages

\* "no dangling DB reference can exist": what a committed execution references
\* is there in full, with writers of the same content at work, failed, killed,
\* or without power; unless a writer took a file for stored that another one
\* had renamed and not yet synced.
NoDanglingRef == \A c \in refs : dest[c] = "whole" \/ c \in unsure

\* A scan during which nothing was committed reports only blobs that no
\* execution references.
QuietScanExact ==
  scan.at = "done" /\ scan.quiet =>
    \A c \in scan.orphans : c \notin refs /\ dest[c] = "whole"

\* References and files agree: what is referenced is there, and what is called
\* an orphan is there and not referenced.
BlobsAgree == NoDanglingRef /\ QuietScanExact
==============================================================================
