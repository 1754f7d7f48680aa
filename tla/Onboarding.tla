------------------------------ MODULE Onboarding ------------------------------
(***************************************************************************)
(* "wft hostkey onboard": the keys that the nodes offer are confirmed one  *)
(* by one, merged into known_hosts, and then recorded in the audit log.    *)
(*                                                                         *)
(* Abstractions.  A slot is a node and an algorithm; a key is a slot and   *)
(* the fingerprint offered for it.  A node that offers nothing is rejected *)
(* like an unconfirmed key.  The file in data/ is the set of its entries:  *)
(* merging keeps every line and adds no line twice.                        *)
(***************************************************************************)
EXTENDS Integers, Sequences, FiniteSets

CONSTANTS Onboarder,          \* processes
          Slot, Fingerprint,  \* node and algorithm, fingerprint
          Unreviewed,         \* no --accept entry for a slot
          MaxCrashes          \* bound: commands that are killed or fail to log

ASSUME OnboardingAssumption ==
  MaxCrashes \in Nat /\ Unreviewed \notin Fingerprint

VARIABLES
  trusted,     \* known_hosts
  vouched,     \* the keys that an operator stands for: reviewed, or confirmed
  job,         \* by process: the command
  crashes,     \* commands that were killed, or that failed to log
  overlapped,  \* have two commands been at work at once?
  damaged,     \* has an older line of the log been changed or removed?
  lines, pen, returned  \* see AuditLog

Key == [slot : Slot, print : Fingerprint]
Fact == [action : {"confirm", "reject"}, slot : Slot]

Log == INSTANCE AuditLog WITH Writer <- Onboarder, Subject <- Fact

onboardingVars ==
  <<trusted, vouched, job, crashes, overlapped, damaged, lines, pen, returned>>
logVars == <<lines, pen, returned>>

Idle == [at |-> "off", reviewed |-> [s \in Slot |-> Unreviewed], offered |-> {},
         accepted |-> {}, rejected |-> {}, existing |-> {}, owed |-> {}]

OnboardingInit ==
  /\ trusted = {}
  /\ vouched = {}
  /\ job = [p \in Onboarder |-> Idle]
  /\ crashes = 0
  /\ overlapped = FALSE /\ damaged = FALSE
  /\ Log!LogInit

------------------------------------------------------------------------------
\* handle_onboard

AtWork == {p \in Onboarder : job[p].at \notin {"off", "done"}}

\* The command is given with its --accept entries; what the nodes will offer
\* is fixed here, one key at most for every slot.
Start(p) ==
  /\ job[p].at = "off"
  /\ \E reviewed \in [Slot -> Fingerprint \cup {Unreviewed}],
        offered \in SUBSET Key :
       /\ \A k, l \in offered : k.slot = l.slot => k = l
       /\ job' = [job EXCEPT ![p] = [Idle EXCEPT !.at = "decide",
                                                 !.reviewed = reviewed,
                                                 !.offered = offered]]
       /\ vouched' = vouched \cup
            {k \in Key : reviewed[k.slot] = k.print}
  /\ overlapped' = (overlapped \/ AtWork # {})
  /\ UNCHANGED <<trusted, crashes, damaged, logVars>>

\* Mutant: an --accept entry for the slot is enough.
AnswersBySlot(reviewed, key) ==
  IF reviewed[key.slot] = Unreviewed THEN BOOLEAN ELSE {TRUE}

\* _decide: the --accept entry decides; without one the operator is asked, or
\* the answer is no where nobody can be asked.
Answers(reviewed, key) ==
  IF reviewed[key.slot] = Unreviewed THEN BOOLEAN
  ELSE {reviewed[key.slot] = key.print}

Decide(p) ==
  /\ job[p].at = "decide"
  /\ \E key \in job[p].offered : \E yes \in Answers(job[p].reviewed, key) :
       /\ job' = [job EXCEPT
            ![p].offered = @ \ {key},
            ![p].accepted = IF yes THEN @ \cup {key} ELSE @,
            ![p].rejected = IF yes THEN @ ELSE @ \cup {key.slot}]
       /\ vouched' = IF yes /\ job[p].reviewed[key.slot] = Unreviewed
                     THEN vouched \cup {key} ELSE vouched
  /\ UNCHANGED <<trusted, crashes, overlapped, damaged, logVars>>

\* Mutant: only what is new in the file is recorded.
OwedForNew(accepted, rejected) ==
  {[action |-> "confirm", slot |-> k.slot] : k \in accepted \ trusted}
  \cup [action : {"reject"}, slot : rejected]

\* The records to append: one for every confirmed key, one for every rejected.
OwedFor(accepted, rejected) ==
  {[action |-> "confirm", slot |-> k.slot] : k \in accepted}
  \cup [action : {"reject"}, slot : rejected]

\* commit_confirmed reads known_hosts, unless there is nothing to add.
ReadKnownHosts(p) ==
  /\ job[p].at = "decide" /\ job[p].offered = {}
  /\ job' = [job EXCEPT
       ![p].at = IF job[p].accepted = {} THEN "audit" ELSE "write",
       ![p].existing = trusted,
       ![p].owed = OwedFor(job[p].accepted, job[p].rejected)]
  /\ UNCHANGED <<trusted, vouched, crashes, overlapped, damaged, logVars>>

\* Mutant: the new entries replace the file.
MergedNot(existing, accepted) == accepted

Merged(existing, accepted) == existing \cup accepted

\* write_known_hosts_atomic: os.replace.
WriteKnownHosts(p) ==
  /\ job[p].at = "write"
  /\ trusted' = Merged(job[p].existing, job[p].accepted)
  /\ job' = [job EXCEPT ![p].at = "audit"]
  /\ UNCHANGED <<vouched, crashes, overlapped, damaged, logVars>>

\* The confirmed keys come first.
BeginAudit(p) ==
  /\ job[p].at = "audit"
  /\ \E fact \in job[p].owed :
       /\ \A f \in job[p].owed : f.action = "confirm" => fact.action = "confirm"
       /\ Log!BeginAppend(p, fact)
       /\ job' = [job EXCEPT ![p].at = "append", ![p].owed = @ \ {fact}]
  /\ UNCHANGED <<trusted, vouched, crashes, overlapped, damaged>>

ReadAuditSeq(p) ==
  /\ Log!ReadSeq(p)
  /\ UNCHANGED <<trusted, vouched, job, crashes, overlapped, damaged>>

EndAudit(p) ==
  /\ Log!WriteLine(p)
  /\ job' = [job EXCEPT ![p].at = "audit"]
  /\ UNCHANGED <<trusted, vouched, crashes, overlapped, damaged>>

Finish(p) ==
  /\ job[p].at = "audit" /\ job[p].owed = {}
  /\ job' = [job EXCEPT ![p].at = "done"]
  /\ UNCHANGED <<trusted, vouched, crashes, overlapped, damaged, logVars>>

Gone(p) ==
  /\ crashes < MaxCrashes
  /\ crashes' = crashes + 1
  /\ job' = [job EXCEPT ![p] = Idle]
  /\ UNCHANGED <<trusted, vouched, overlapped, damaged>>

\* The process is killed; the command may be given again.
Crash(p) ==
  /\ p \in AtWork
  /\ Gone(p)
  /\ pen' = [pen EXCEPT ![p] = Log!Resting]
  /\ UNCHANGED <<lines, returned>>

\* The disk takes a part of the line: append raises, and the command ends.
TearAudit(p) == Log!TearLine(p) /\ Gone(p)

\* Somebody changes the log.
Damage ==
  /\ ~damaged
  /\ damaged' = TRUE
  /\ Log!DamageOlder
  /\ UNCHANGED <<trusted, vouched, job, crashes, overlapped>>

OnboardingNext ==
  \/ \E p \in Onboarder :
       \/ Start(p)
       \/ Decide(p)
       \/ ReadKnownHosts(p)
       \/ WriteKnownHosts(p)
       \/ BeginAudit(p)
       \/ ReadAuditSeq(p)
       \/ EndAudit(p)
       \/ Finish(p)
       \/ Crash(p)
       \/ TearAudit(p)
  \/ Damage

OnboardingSpec == OnboardingInit /\ [][OnboardingNext]_onboardingVars

------------------------------------------------------------------------------
\* Correctness.

\* The file, the commands and the log have their types.
OnboardingTypeOK ==
  /\ trusted \subseteq Key /\ vouched \subseteq Key
  /\ crashes \in 0..MaxCrashes
  /\ overlapped \in BOOLEAN /\ damaged \in BOOLEAN
  /\ \A p \in Onboarder :
       /\ job[p].at \in {"off", "decide", "write", "audit", "append", "done"}
       /\ job[p].accepted \cup job[p].existing \cup job[p].offered
            \subseteq Key
       /\ job[p].rejected \subseteq Slot /\ job[p].owed \subseteq Fact
  /\ Log!LogTypeOK

\* A node is trusted only under a fingerprint that an operator stands for,
\* whatever other commands run, crash or run again meanwhile.
OnlyVouchedTrusted == trusted \subseteq vouched

Recorded(fact) == \E i \in DOMAIN lines : lines[i].subject = fact

\* Nobody has touched the log, and the disk has torn no line.
Intact == ~damaged /\ Log!ReadableAt(lines) = DOMAIN lines

\* A command that ends has recorded every key it accepted or rejected, also
\* when an earlier one was killed half-way; and unless another one was at work
\* at the same time, known_hosts has every key it accepted.
DoneIsOnRecord ==
  \A p \in Onboarder : job[p].at = "done" =>
    /\ ~overlapped => job[p].accepted \subseteq trusted
    /\ Intact =>
         /\ \A k \in job[p].accepted :
              Recorded([action |-> "confirm", slot |-> k.slot])
         /\ \A s \in job[p].rejected :
              Recorded([action |-> "reject", slot |-> s])

\* "Append confirmed keys to known_hosts atomically": what is trusted stays,
\* as long as one command is at work at a time.
TrustKept == [][~overlapped' => trusted \subseteq trusted']_onboardingVars

\* "Each record links to the previous hash": a log that nobody touched verifies,
\* crashes included, as long as one command is at work at a time.
ChainHolds == Intact /\ ~overlapped => Log!Verifies(lines)

\* "tampering with older lines is detectable": however the file goes on after
\* it, a change to an older line or its removal is reported by verify_chain,
\* whether or not the hash was made to fit.
DamageReported == damaged => ~Log!Verifies(lines)

\* A record that append has returned is in the file, or verify_chain reports
\* the file: what a torn line swallows is not lost in silence.
LossReported ==
  Log!Verifies(lines) => Cardinality(Log!ReadableAt(lines)) = returned

\* Whatever is trusted was vouched for, and whoever decided has it on record.
TrustAccounted == OnlyVouchedTrusted /\ DoneIsOnRecord

\* What verify_chain says of a log is right: it reports damage and loss, and
\* nothing but these.
LogVerdict == ChainHolds /\ DamageReported /\ LossReported
==============================================================================
