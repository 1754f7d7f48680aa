---------------------------- MODULE ScriptRegistry ----------------------------
(***************************************************************************)
(* The registry of scripts: a file that people edit, loaded anew by every  *)
(* command, and the references that a command line or a recorded run hands *)
(* to it.                                                                  *)
(*                                                                         *)
(* Abstractions.  The hash of a file is its content.  Whatever an entry    *)
(* can have wrong by itself (schema, risk, exit codes, a path that leaves  *)
(* the repository) is one flag.  The file is a number of slots, so that an *)
(* entry may be listed twice.  A bare name matches what name@ with no      *)
(* digit matches, so a reference is a name and 0 to HashLen digits.        *)
(***************************************************************************)
EXTENDS Naturals

CONSTANTS Place,      \* places of the file
          Name,      \* names of scripts
          Digit,     \* of a hash
          HashLen,   \* digits of a hash; the code's have 64
          Hash,      \* hashes of the contents that occur
          Path       \* script files

ASSUME RegistryAssumption ==
  HashLen \in Nat \ {0} /\ Hash \subseteq [1..HashLen -> Digit]

NoName == "no name"   \* before the @ of @<sha256>

Entry == [name : Name, sha : Hash, path : Path, sound : BOOLEAN]

Ref == [name : Name \cup {NoName},
        digits : UNION {[1..k -> Digit] : k \in 0..HashLen}]

VARIABLES
  file,      \* the registry file: the entries of the slots in use
  content,   \* the script files
  recorded   \* what the last run stored as its script, if any: name and hash

registryVars == <<file, content, recorded>>

RegistryInit ==
  /\ file = [s \in {} |-> 0]
  /\ content \in [Path -> Hash]
  /\ recorded = {}

Used == DOMAIN file

Scripts == {file[s] : s \in Used}

\* Full SHA-256 is the unique identity of a version.
Distinct == \A s, t \in Used : file[s].sha = file[t].sha => s = t

\* Mutant: the files are not hashed.
AuthenticNot == TRUE

\* Every file is what its entry declares.
Authentic == \A e \in Scripts : content[e.path] = e.sha

Loads ==
  /\ Used # {}
  /\ \A e \in Scripts : e.sound
  /\ Distinct
  /\ Authentic

StartsWith(sha, digits) == \A i \in DOMAIN digits : sha[i] = digits[i]

Candidates(ref) ==
  {e \in Scripts : e.name = ref.name /\ StartsWith(e.sha, ref.digits)}

\* Mutant: the first of several candidates is taken.
ChosenFirst(candidates) ==
  {file[s] : s \in {s \in Used :
                     /\ file[s] \in candidates
                     /\ \A t \in Used : file[t] \in candidates => s <= t}}

\* Exactly one, or the reference is unknown or ambiguous.
Chosen(candidates) ==
  IF \E e \in candidates : candidates = {e} THEN candidates ELSE {}

\* from_file and resolve: the version that is meant, or nothing and an error.
Answer(ref) == IF Loads THEN Chosen(Candidates(ref)) ELSE {}

\* How a run is recorded, and how a resume asks for its script.
FullRef(r) == [name |-> r.name, digits |-> r.sha]

------------------------------------------------------------------------------
\* Entries are written over, removed and added, files are rewritten.

Write(s, e) ==
  /\ file' = [t \in Used \cup {s} |-> IF t = s THEN e ELSE file[t]]
  /\ UNCHANGED <<content, recorded>>

Remove(s) ==
  /\ s \in Used
  /\ file' = [t \in Used \ {s} |-> file[t]]
  /\ UNCHANGED <<content, recorded>>

Rewrite(p, h) ==
  /\ content' = [content EXCEPT ![p] = h]
  /\ UNCHANGED <<file, recorded>>

\* Mutant: the run stores the hash as the reference gave it.
StoredAsAsked(ref, e) == [name |-> e.name, sha |-> ref.digits]

Stored(ref, e) == [name |-> e.name, sha |-> e.sha]

\* A run resolves its script and is stored with what it found.
Run(ref) ==
  /\ Answer(ref) # {}
  /\ recorded' = {Stored(ref, e) : e \in Answer(ref)}
  /\ UNCHANGED <<file, content>>

RegistryNext ==
  \/ \E s \in Place : \E e \in Entry : Write(s, e)
  \/ \E s \in Place : Remove(s)
  \/ \E p \in Path : \E h \in Hash : Rewrite(p, h)
  \/ \E ref \in Ref : Run(ref)

RegistrySpec == RegistryInit /\ [][RegistryNext]_registryVars

------------------------------------------------------------------------------
\* Correctness.

\* The files are files, and a recorded version is a full hash.
RegistryTypeOK ==
  /\ \E used \in SUBSET Place : file \in [used -> Entry]
  /\ content \in [Path -> Hash]
  /\ recorded \in {{}} \cup {{r} : r \in [name : Name, sha : Hash]}

\* Whatever happens to the registry and to the script files, the recorded
\* version of a run is either found again, with the very bytes it had, or the
\* resume is refused.
RecordedStays ==
  \A r \in recorded : \A e \in Answer(FullRef(r)) :
    e.name = r.name /\ content[e.path] = r.sha

\* "callers cannot accidentally run the wrong version": as long as a version
\* stays registered, no edit lets a reference that named it name another one.
NeverSwitched ==
  \A ref \in Ref : \A e \in Answer(ref) :
    e \in Scripts' => Answer(ref)' \subseteq {e}

\* A reference, once it has named a version, names that one or none.
ReferencesKept == [][RecordedStays' /\ NeverSwitched]_registryVars
==============================================================================
