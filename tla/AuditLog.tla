------------------------------- MODULE AuditLog -------------------------------
(***************************************************************************)
(* The hash-chained audit file.  append reads the last hash, then the last *)
(* sequence number, then adds a line: three accesses to the file, with no  *)
(* lock around them.                                                       *)
(*                                                                         *)
(* Abstractions.  A hash is the value it is the hash of.  Of a record only *)
(* its subject is kept beside what chains it.  A write that the disk cuts  *)
(* short leaves a line that is no JSON and has no end (Torn); the line     *)
(* written behind it completes it to one that is no JSON either (Garbled). *)
(***************************************************************************)
EXTENDS Integers, Sequences, FiniteSets

CONSTANTS Writer,  \* processes that append
          Subject  \* what records are about

VARIABLES lines,    \* the file
          pen,      \* by writer: the append under way
          returned  \* how many appends have returned a record

logVars == <<lines, pen, returned>>

NoHash == <<>>

HashOf(seq, subject, prev) == <<seq, subject, prev>>

Torn == [is |-> "torn"]
Garbled == [is |-> "garbled"]

\* The lines that are valid JSON.
ReadableAt(file) == {i \in DOMAIN file : file[i] \notin {Torn, Garbled}}

Resting == [at |-> "rest", subject |-> Torn, prev |-> NoHash, seq |-> 0]

LogInit ==
  /\ lines = <<>>
  /\ pen = [p \in Writer |-> Resting]
  /\ returned = 0

------------------------------------------------------------------------------
\* _last_hash: an unreadable last line counts as a fresh start.
LastHash ==
  IF lines = <<>> \/ lines[Len(lines)] \in {Torn, Garbled} THEN NoHash
  ELSE lines[Len(lines)].hash

\* Mutant: numbers start from 0.
NextSeqFromZero == Cardinality(ReadableAt(lines))

\* _next_seq: unreadable lines are passed over.
NextSeq ==
  LET at == ReadableAt(lines)
  IN IF at = {} THEN 1
     ELSE lines[CHOOSE i \in at : \A j \in at : j <= i].seq + 1

BeginAppend(p, subject) ==
  /\ pen[p].at = "rest"
  /\ pen' = [pen EXCEPT ![p] = [Resting EXCEPT !.at = "seq", !.prev = LastHash,
                                               !.subject = subject]]
  /\ UNCHANGED <<lines, returned>>

ReadSeq(p) ==
  /\ pen[p].at = "seq"
  /\ pen' = [pen EXCEPT ![p].at = "write", ![p].seq = NextSeq]
  /\ UNCHANGED <<lines, returned>>

\* Mutant: the hash does not cover the previous one.
RecordUnlinked(seq, subject, prev) ==
  [is |-> "record", seq |-> seq, subject |-> subject, prev |-> prev,
   hash |-> HashOf(seq, subject, NoHash)]

Record(seq, subject, prev) ==
  [is |-> "record", seq |-> seq, subject |-> subject, prev |-> prev,
   hash |-> HashOf(seq, subject, prev)]

Unended == lines # <<>> /\ lines[Len(lines)] = Torn

\* The file with a line added.
Added(line) ==
  IF Unended THEN [lines EXCEPT ![Len(lines)] = Garbled]
  ELSE Append(lines, line)

WriteLine(p) ==
  /\ pen[p].at = "write"
  /\ lines' = Added(Record(pen[p].seq, pen[p].subject, pen[p].prev))
  /\ pen' = [pen EXCEPT ![p] = Resting]
  /\ returned' = returned + 1

\* The disk takes a part of the line; append raises.
TearLine(p) ==
  /\ pen[p].at = "write"
  /\ lines' = IF Unended THEN lines ELSE Append(lines, Torn)
  /\ pen' = [pen EXCEPT ![p] = Resting]
  /\ UNCHANGED returned

------------------------------------------------------------------------------
\* verify_chain.

\* Mutant: each line is checked against what it says itself.
LinkedToItself(file) ==
  \A i \in DOMAIN file :
    /\ file[i].seq = i
    /\ file[i].hash = HashOf(file[i].seq, file[i].subject, file[i].prev)

Linked(file) ==
  \A i \in DOMAIN file :
    LET prev == IF i = 1 THEN NoHash ELSE file[i - 1].hash
    IN /\ file[i].seq = i
       /\ file[i].prev = prev
       /\ file[i].hash = HashOf(file[i].seq, file[i].subject, prev)

\* Mutant: lines that are not valid JSON are skipped and not reported.
VerifiesReadable(file) ==
  Linked(SelectSeq(file, LAMBDA line : line \notin {Torn, Garbled}))

Verifies(file) == ReadableAt(file) = DOMAIN file /\ Linked(file)

------------------------------------------------------------------------------
\* Correctness, for a file of which at most one line is damaged after the fact.

\* The file, the appends under way and what was returned have their types.
LogTypeOK ==
  /\ \A i \in DOMAIN lines :
       \/ lines[i] \in {Torn, Garbled}
       \/ lines[i].subject \in Subject /\ lines[i].seq \in Nat \ {0}
  /\ \A p \in Writer : pen[p].at \in {"rest", "seq", "write"}
  /\ returned \in Nat

\* A line that is not the last one of a file that verifies is given another
\* subject, with or without a fitting hash, or is removed.
DamageOlder ==
  /\ Verifies(lines)
  /\ \E i \in 1..(Len(lines) - 1) :
       \/ \E s \in Subject \ {lines[i].subject} :
          \E h \in {lines[i].hash, HashOf(lines[i].seq, s, lines[i].prev)} :
            lines' = [lines EXCEPT ![i].subject = s, ![i].hash = h]
       \/ lines' = SubSeq(lines, 1, i - 1) \o SubSeq(lines, i + 1, Len(lines))
  /\ UNCHANGED <<pen, returned>>
==============================================================================
