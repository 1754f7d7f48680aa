----------------------------- MODULE SessionProofs -----------------------------
(***************************************************************************)
(* What happens to one node below the orchestrator, proved for any number  *)
(* of cancellations, caps and streams of any length, and any exit codes:   *)
(* the attempts over SSH, the envelope of the result, and the capture of a *)
(* stream.                                                                 *)
(***************************************************************************)
EXTENDS MCSession, WellFoundedInduction, SequenceTheorems, TLAPS

------------------------------------------------------------------------------
\* The attempts over SSH.

Live == {"open", "broken"}
Gone == {"none", "closed", "lost"}

\* Attempts to come have left nothing behind yet.
Untouched(a) == conn[a] = "none" /\ file[a] = "none" /\ proc[a] = "none"

\* Nothing is left of an attempt but on a host whose connection went silent, or
\* that refused to remove the file.
LeftNothing(a) ==
  /\ conn[a] \in Gone
  /\ file[a] = "there" => conn[a] = "lost"
  /\ proc[a] = "running" => conn[a] = "lost"

\* No script that is known to run is left to itself on a connection that works,
\* but by a cancellation.
ScriptHandled ==
  result # "CancelledError" /\ proc[att] = "running" => conn[att] = "broken"

\* What the attempt under way holds, by the await that it is in.
AttemptInv ==
  /\ pc \in {"check", "connect"} => Untouched(att)
  /\ pc \in {"upload", "verify", "start", "run", "term", "kill", "remove"}
       => conn[att] \in Live
  /\ pc = "upload" => file[att] = "none"
  /\ pc \in {"upload", "verify"} => proc[att] = "none"
  /\ pc = "start" => proc[att] # "running"
  /\ pc = "kill" /\ Open => proc[att] = "ended"
  /\ pc = "remove" => ScriptHandled
  /\ pc = "closing" => /\ conn[att] \in Gone
                       /\ file[att] = "there" => conn[att] = "lost"
                       /\ result # "CancelledError" /\ proc[att] = "running"
                            => conn[att] = "lost"
  /\ pc = "done" /\ result # "CancelledError" => LeftNothing(att)

SessionInv ==
  /\ SessionTypeOK
  /\ \A a \in Attempt : a > att => Untouched(a)
  /\ \A a \in Attempt : a < att => LeftNothing(a)
  /\ AttemptInv

LEMMA ErrorClasses ==
  /\ ConnectErrors \subseteq ErrorClass /\ LinkErrors \subseteq ErrorClass
  /\ {"host_key_unknown", "secret_resolution_failed", "upload_failed",
      "script_integrity_failed", "exec_timeout"} \subseteq ErrorClass
  /\ "CancelledError" \notin ErrorClass
BY DEF ConnectErrors, LinkErrors, ErrorClass, Transient, Permanent, Security, Resource,
       Data

LEMMA Attempts == /\ Attempt \subseteq Nat /\ 1 \in Attempt
                  /\ \A a \in Attempt : \A class :
                       ShouldRetry(class, a) => a + 1 \in Attempt
BY DEF Attempt, AttemptCap, ShouldRetry, MaxAttempts

LEMMA SessionInvInit == SessionInit => SessionInv
<1> SUFFICES ASSUME SessionInit
             PROVE  SessionInv
  OBVIOUS
<1>1. SessionTypeOK
  BY Attempts, SessionAssumption DEF SessionInit, SessionTypeOK
<1>2. \A a \in Attempt : Untouched(a) /\ ~ (a < att)
  BY DEF SessionInit, Untouched, Attempt, AttemptCap
<1>3. AttemptInv
  BY <1>2, Attempts DEF SessionInit, AttemptInv, Open
<1> QED
  BY <1>1, <1>2, <1>3 DEF SessionInv

\* A step of the task changes the files, connections and scripts of no attempt
\* but its own.
OthersKept ==
  /\ att' = att
  /\ \A a \in Attempt : a # att =>
       conn'[a] = conn[a] /\ file'[a] = file[a] /\ proc'[a] = proc[a]

LEMMA OwnStep ==
  ASSUME SessionInv, SessionTypeOK', OthersKept, AttemptInv'
  PROVE  SessionInv'
<1>1. att \in Attempt /\ att \in Nat /\ \A a \in Attempt : a \in Nat
  BY Attempts DEF SessionInv, SessionTypeOK
<1>2. \A a \in Attempt : a > att => Untouched(a)'
  BY <1>1 DEF OthersKept, SessionInv, Untouched
<1>3. \A a \in Attempt : a < att => LeftNothing(a)'
  BY <1>1 DEF OthersKept, SessionInv, LeftNothing
<1> QED
  BY <1>2, <1>3 DEF OthersKept, SessionInv

LEMMA SessionInvStep == SessionInv /\ [SessionNext]_sessionVars => SessionInv'
<1> SUFFICES ASSUME SessionInv, [SessionNext]_sessionVars
             PROVE  SessionInv'
  OBVIOUS
<1>0. /\ SessionTypeOK /\ AttemptInv /\ att \in Attempt /\ att \in Nat
      /\ DOMAIN conn = Attempt /\ DOMAIN file = Attempt /\ DOMAIN proc = Attempt
      /\ cancels \in Nat
  BY Attempts, SessionAssumption DEF SessionInv, SessionTypeOK
<1> USE DEF Goto, CleanUp, Reap, Open
<1>1. CASE UNCHANGED sessionVars
  BY <1>1 DEF sessionVars, SessionInv, SessionTypeOK, AttemptInv, Untouched, LeftNothing,
              ScriptHandled
<1>2. CASE Check
  <2>1. SessionTypeOK'
    BY <1>0, <1>2, ErrorClasses DEF Check, SessionTypeOK
  <2>2. AttemptInv'
    BY <1>0, <1>2 DEF Check, AttemptInv, Untouched, LeftNothing, Gone
  <2> QED
    BY <1>2, <2>1, <2>2, OwnStep DEF Check, OthersKept
<1>3. CASE Connect
  <2>1. SessionTypeOK'
    BY <1>0, <1>3, ErrorClasses DEF Connect, SessionTypeOK
  <2>2. AttemptInv'
    BY <1>0, <1>3 DEF Connect, AttemptInv, Untouched, LeftNothing, Gone, Live
  <2> QED
    BY <1>0, <1>3, <2>1, <2>2, OwnStep DEF Connect, OthersKept
<1>4. CASE Upload
  <2>1. SessionTypeOK'
    BY <1>0, <1>4, ErrorClasses DEF Upload, Uploaded, SessionTypeOK
  <2>2. AttemptInv'
    BY <1>0, <1>4 DEF Upload, Uploaded, AttemptInv, ScriptHandled
  <2> QED
    BY <1>0, <1>4, <2>1, <2>2, OwnStep DEF Upload, Uploaded, OthersKept
<1>5. CASE Verify
  <2>1. SessionTypeOK'
    BY <1>0, <1>5, ErrorClasses DEF Verify, Mismatch, SessionTypeOK
  <2>2. AttemptInv'
    BY <1>0, <1>5 DEF Verify, Mismatch, AttemptInv, ScriptHandled
  <2> QED
    BY <1>0, <1>5, <2>1, <2>2, OwnStep DEF Verify, OthersKept
<1>6. CASE Started
  <2>1. SessionTypeOK'
    BY <1>0, <1>6, ErrorClasses DEF Started, SessionTypeOK
  <2>2. AttemptInv'
    BY <1>0, <1>6 DEF Started, AttemptInv, ScriptHandled
  <2> QED
    BY <1>0, <1>6, <2>1, <2>2, OwnStep DEF Started, OthersKept
<1>7. CASE Finished
  <2>1. SessionTypeOK'
    BY <1>0, <1>7 DEF Finished, SessionTypeOK
  <2>2. AttemptInv'
    BY <1>0, <1>7 DEF Finished, AttemptInv, ScriptHandled
  <2> QED
    BY <1>0, <1>7, <2>1, <2>2, OwnStep DEF Finished, OthersKept
<1>8. CASE LinkLost
  <2>1. SessionTypeOK'
    BY <1>0, <1>8, ErrorClasses DEF LinkLost, SessionTypeOK
  <2>2. AttemptInv'
    BY <1>0, <1>8 DEF LinkLost, AttemptInv
  <2> QED
    BY <1>0, <1>8, <2>1, <2>2, OwnStep DEF LinkLost, OthersKept
<1>9. CASE ExecTimeout
  <2>1. SessionTypeOK'
    BY <1>0, <1>9, ErrorClasses DEF ExecTimeout, SessionTypeOK
  <2>2. AttemptInv'
    BY <1>0, <1>9 DEF ExecTimeout, AttemptInv, ScriptHandled
  <2> QED
    BY <1>0, <1>9, <2>1, <2>2, OwnStep DEF ExecTimeout, OthersKept
<1>10. CASE Reaped
  <2>1. SessionTypeOK'
    BY <1>0, <1>10 DEF Reaped, SessionTypeOK
  <2>2. AttemptInv'
    BY <1>0, <1>10 DEF Reaped, AttemptInv, ScriptHandled, Live
  <2> QED
    BY <1>0, <1>10, <2>1, <2>2, OwnStep DEF Reaped, OthersKept
<1>11. CASE ReapTimeout
  <2>1. SessionTypeOK'
    BY <1>0, <1>11 DEF ReapTimeout, Escalate, SessionTypeOK
  <2>2. AttemptInv'
    BY <1>0, <1>11 DEF ReapTimeout, Escalate, AttemptInv, ScriptHandled, Live
  <2> QED
    BY <1>0, <1>11, <2>1, <2>2, OwnStep DEF ReapTimeout, Escalate, OthersKept
<1>12. CASE Remove
  <2>1. SessionTypeOK'
    BY <1>0, <1>12 DEF Remove, SessionTypeOK
  <2>2. AttemptInv'
    BY <1>0, <1>12
    DEF Remove, RemovalOver, AttemptInv, ScriptHandled, Live, Gone, SessionTypeOK
  <2> QED
    BY <1>0, <1>12, <2>1, <2>2, OwnStep DEF Remove, OthersKept
<1>13. CASE Closed
  <2>1. SessionTypeOK'
    BY <1>0, <1>13 DEF Closed, SessionTypeOK
  <2>2. AttemptInv'
    BY <1>0, <1>13 DEF Closed, AttemptInv, LeftNothing
  <2> QED
    BY <1>0, <1>13, <2>1, <2>2, OwnStep DEF Closed, OthersKept
\* What came after the attempt that is over starts with nothing.
<1>14. CASE Retry
  <2>1. /\ pc = "done" /\ result # "CancelledError"
        /\ att' = att + 1 /\ att + 1 \in Attempt
        /\ pc' = "check" /\ result' = NoResult
        /\ UNCHANGED <<cancels, conn, file, proc>>
    BY <1>0, <1>14, Attempts, ErrorClasses DEF Retry
  <2>2. SessionTypeOK'
    BY <1>0, <2>1 DEF SessionTypeOK
  <2>3. \A a \in Attempt : a > att' => Untouched(a)'
    BY <1>0, <2>1, Attempts DEF SessionInv, Untouched
  <2>4. \A a \in Attempt : a < att' => LeftNothing(a)'
    <3>1. LeftNothing(att)
      BY <1>0, <2>1 DEF AttemptInv
    <3>2. \A a \in Attempt : a < att' => a < att \/ a = att
      BY <1>0, <2>1, Attempts
    <3> QED
      BY <2>1, <3>1, <3>2 DEF SessionInv, LeftNothing
  <2>5. AttemptInv'
    <3>1. Untouched(att + 1)
      BY <1>0, <2>1 DEF SessionInv
    <3> QED
      BY <2>1, <3>1 DEF AttemptInv, Untouched
  <2> QED
    BY <2>2, <2>3, <2>4, <2>5 DEF SessionInv
<1>15. CASE Cancel
  <2>1. SessionTypeOK'
    <3>1. /\ cancels' \in 0..MaxCancels /\ UNCHANGED <<att, conn, proc>>
      BY <1>0, <1>15, SessionAssumption DEF Cancel, CanBeCancelled, SessionTypeOK
    <3>2. /\ pc' \in {"done", "remove", "term"}
          /\ result' \in {"CancelledError", "exit"}
      BY <1>15 DEF Cancel
    <3>3. file' \in [Attempt -> {"none", "there", "kept"}]
      <4>1. file' = file \/ Uploaded
        BY <1>15 DEF Cancel
      <4> QED
        BY <1>0, <4>1 DEF SessionTypeOK, Uploaded
    <3> QED
      BY <1>0, <3>1, <3>2, <3>3 DEF SessionTypeOK
  <2>2. AttemptInv'
    BY <1>0, <1>15
    DEF Cancel, CanBeCancelled, Uploaded, AttemptInv, ScriptHandled, Live, Gone
  <2> QED
    BY <1>0, <1>15, <2>1, <2>2, OwnStep DEF Cancel, Uploaded, OthersKept
<1>16. CASE StartsUnseen
  <2>1. SessionTypeOK'
    BY <1>0, <1>16 DEF StartsUnseen, SessionTypeOK
  <2>2. AttemptInv'
    BY <1>0, <1>16 DEF StartsUnseen, AttemptInv
  <2> QED
    BY <1>0, <1>16, <2>1, <2>2, OwnStep DEF StartsUnseen, OthersKept
<1>17. ASSUME NEW a \in Attempt, ScriptEnds(a)
       PROVE  SessionInv'
  <2>1. /\ proc[a] \in {"unseen", "running"}
        /\ proc' = [proc EXCEPT ![a] = "ended"]
        /\ UNCHANGED <<att, pc, result, cancels, conn, file>>
    BY <1>17 DEF ScriptEnds
  <2>2. SessionTypeOK'
    BY <1>0, <2>1 DEF SessionTypeOK
  <2>3. \A b \in Attempt : b > att' => Untouched(b)'
    BY <1>0, <2>1 DEF SessionInv, Untouched
  <2>4. \A b \in Attempt : b < att' => LeftNothing(b)'
    BY <1>0, <2>1 DEF SessionInv, LeftNothing
  <2>5. AttemptInv'
    BY <1>0, <2>1 DEF AttemptInv, Untouched, LeftNothing, ScriptHandled
  <2> QED
    BY <2>2, <2>3, <2>4, <2>5 DEF SessionInv
<1>18. CASE Break
  <2>1. SessionTypeOK'
    BY <1>0, <1>18 DEF Break, SessionTypeOK
  <2>2. AttemptInv'
    BY <1>0, <1>18
    DEF Break, AttemptInv, Untouched, LeftNothing, ScriptHandled, Live, Gone
  <2> QED
    BY <1>0, <1>18, <2>1, <2>2, OwnStep DEF Break, OthersKept
<1>19. CASE AnswersRemoval
  <2>1. SessionTypeOK'
    BY <1>0, <1>19 DEF AnswersRemoval, SessionTypeOK
  <2>2. AttemptInv'
    BY <1>0, <1>19 DEF AnswersRemoval, AttemptInv, ScriptHandled
  <2> QED
    BY <1>0, <1>19, <2>1, <2>2, OwnStep DEF AnswersRemoval, OthersKept
<1> QED
  BY <1>1, <1>2, <1>3, <1>4, <1>5, <1>6, <1>7, <1>8, <1>9, <1>10, <1>11, <1>12, <1>13,
     <1>14, <1>15, <1>16, <1>17, <1>18, <1>19
  DEF SessionNext

\* The attempts keep this, however host and network behave and however often the
\* task is cancelled.
THEOREM SessionInvariant == SessionSpec => []SessionInv
  BY SessionInvInit, SessionInvStep, PTL DEF SessionSpec

\* The task, its connections, files and scripts have their types, and the budget
\* of the error matrix bounds the attempts.
THEOREM SessionWellFormed == SessionSpec => []SessionTypeOK
<1>1. SessionInv => SessionTypeOK
  BY DEF SessionInv
<1> QED
  BY <1>1, SessionInvariant, PTL

\* However an attempt ended by itself, when it returns its connection is closed,
\* its file removed and its script over, but for what a silent connection, an
\* unconfirmed start or a refused removal leaves (NothingLeft).
THEOREM NothingIsLeft == SessionSpec => []NothingLeft
<1>1. SessionInv => NothingLeft
  <2> SUFFICES ASSUME SessionInv, NEW a \in Attempt, Over(a)
               PROVE  LeftNothing(a)
    BY DEF NothingLeft, CleanSlate, OneScriptPerNode, LeftNothing, Gone
  <2> QED
    BY DEF SessionInv, AttemptInv, Over
<1> QED
  BY <1>1, SessionInvariant, PTL

------------------------------------------------------------------------------
\* The envelope of a result.

\* What is judged has the fields of an envelope, and a version.
IsEnvelope(e) ==
  \E version \in [major : Nat, minor : Nat] :
  \E status, count, exit, duration, known, error :
    e = [version |-> version, status |-> status, count |-> count, exit |-> exit,
         duration |-> duration, known |-> known, error |-> error]

ContractInv ==
  /\ ContractTypeOK
  /\ \A e \in envelope : IsEnvelope(e)
  /\ BuiltIsAccepted

LEMMA CategoryKnown ==
  ASSUME NEW class \in ErrorClass
  PROVE  Category(class) \in {"TRANSIENT", "RESOURCE", "PERMANENT", "SECURITY", "DATA"}
BY DEF ErrorClass, Category

\* The error slot holds what the schema and the matrix ask for.
LEMMA SlotRight ==
  ASSUME NEW class \in MaybeError, NEW length \in Nat
  PROVE  \A err \in ErrorSlot(class, length) :
           /\ err.class \in ErrorClass
           /\ err.category = Category(err.class)
           /\ err.category \in {"TRANSIENT", "RESOURCE", "PERMANENT", "SECURITY", "DATA"}
           /\ err.retryable = Retryable(err.class)
           /\ err.message \in 1..MessageCap
<1>1. Cut(length) \in 1..MessageCap
  BY DEF Cut, MessageCap
<1>2. CASE class = NoError
  BY <1>2 DEF ErrorSlot
<1>3. CASE class # NoError
  <2>1. class \in ErrorClass
    BY <1>3 DEF MaybeError
  <2>2. ErrorSlot(class, length) = {ErrorDict(class, length)}
    BY <1>3 DEF ErrorSlot
  <2>3. /\ ErrorDict(class, length).class = class
        /\ ErrorDict(class, length).category = Category(class)
        /\ ErrorDict(class, length).retryable = Retryable(class)
        /\ ErrorDict(class, length).message = Cut(length)
    BY DEF ErrorDict
  <2> HIDE DEF ErrorDict
  <2> QED
    BY <1>1, <2>1, <2>2, <2>3, CategoryKnown
<1> QED
  BY <1>2, <1>3

\* What the builder makes of an end of an attempt, in general.
LEMMA BuiltRight ==
  ASSUME NEW r, r.class \in MaybeError, r.count \in 1..AttemptCap,
         r.status \in {"SUCCEEDED", "FAILED"},
         r.status = "FAILED" => r.class # NoError,
         NEW exit, r.status = "SUCCEEDED" => exit \in Expected,
         NEW length \in Nat, NEW duration \in Nat
  PROVE  /\ Accepts(Envelope(r, exit, length, duration))
         /\ IsEnvelope(Envelope(r, exit, length, duration))
         /\ Envelope(r, exit, length, duration).status \in Status
         /\ Envelope(r, exit, length, duration).count \in 0..(AttemptCap + 1)
         /\ \A err \in Envelope(r, exit, length, duration).error :
              err.class \in ErrorClass /\ err.message \in 1..MessageCap
<1> DEFINE e == Envelope(r, exit, length, duration)
<1>1. /\ e.version = OwnVersion /\ e.status = r.status /\ e.count = r.count
      /\ e.exit = exit /\ e.duration = duration /\ e.known = TRUE
      /\ e.error = ErrorSlot(r.class, length)
  BY DEF Envelope
<1>2. OwnVersion.major = 1 /\ OwnVersion.minor = 1
      /\ OwnVersion \in [major : Nat, minor : Nat]
  BY DEF OwnVersion
<1>3. IsEnvelope(e)
  BY <1>2 DEF Envelope, IsEnvelope
<1> HIDE DEF e
<1>4. \A err \in e.error :
        /\ err.class \in ErrorClass
        /\ err.category = Category(err.class)
        /\ err.category \in {"TRANSIENT", "RESOURCE", "PERMANENT", "SECURITY", "DATA"}
        /\ err.retryable = Retryable(err.class)
        /\ err.message \in 1..MessageCap
  <2>1. \A err \in ErrorSlot(r.class, length) :
        /\ err.class \in ErrorClass
        /\ err.category = Category(err.class)
        /\ err.category \in {"TRANSIENT", "RESOURCE", "PERMANENT", "SECURITY", "DATA"}
        /\ err.retryable = Retryable(err.class)
        /\ err.message \in 1..MessageCap
    BY SlotRight
  <2> QED
    BY <1>1, <2>1
<1>5. e.status \in Status /\ e.count \in 0..AttemptCap /\ e.duration >= 0
  BY <1>1 DEF Status, AttemptCap
<1>6. e.status = "FAILED" => e.error # {}
  BY <1>1 DEF ErrorSlot
<1>7. e.status = "SUCCEEDED" =>
        e.exit \in Expected /\ e.exit # NoExit /\ e.exit \in 0..255
  <2>1. \A x \in Expected : x \in 0..255 /\ x # NoExit
    BY ContractAssumption
  <2> QED
    BY <1>1, <2>1
<1>8. SchemaHolds(e)
  BY <1>1, <1>4, <1>5, <1>6, <1>7 DEF SchemaHolds
<1>9. MatrixHolds(e)
  BY <1>4 DEF MatrixHolds
<1>10. Accepts(e)
  BY <1>1, <1>2, <1>7, <1>8, <1>9 DEF Accepts, MajorSupported, CodeAllowed
<1>11. e.count \in 0..(AttemptCap + 1)
  BY <1>5 DEF AttemptCap
<1> QED
  BY <1>3, <1>4, <1>5, <1>10, <1>11 DEF e

LEMMA ContractInvInit == ContractInit => ContractInv
BY DEF ContractInit, ContractInv, ContractTypeOK, BuiltIsAccepted

LEMMA ContractAnswered ==
  ASSUME BuildAnswered
  PROVE  ContractInv'
<1>1. PICK exit \in ExitCodes \cup {NoExit}, seq \in 1..AttemptCap,
           out \in StreamKind, err \in StreamKind,
           started \in Clock, finished \in Clock, length \in 0..(MessageCap + 1) :
        /\ envelope' =
             {Envelope(BuildResult(Classified(exit).status, Classified(exit).class,
                                   seq, out, err),
                       exit, length, Duration(started, finished))}
        /\ own' = TRUE
  BY DEF BuildAnswered
<1> DEFINE c == Classified(exit)
           r == BuildResult(c.status, c.class, seq, out, err)
<1>2. \/ c.status = "SUCCEEDED" /\ c.class = NoError /\ exit \in Expected
      \/ c.status = "FAILED" /\ c.class = "exec_nonzero"
  BY DEF Classified
<1> HIDE DEF c
<1>3. /\ r.count = seq
      /\ r.class = Primary(c.class, out, err)
      /\ r.status = IF "lost" \in {out, err} THEN "FAILED" ELSE c.status
  BY DEF BuildResult
<1> HIDE DEF r
<1>4. /\ {"exec_nonzero", "blob_write_failed", "output_decode_failed"} \subseteq ErrorClass
      /\ NoError \notin ErrorClass
  BY DEF ErrorClass, Transient, Permanent, Security, Resource, Data, NoError
<1>5. r.class \in MaybeError
  BY <1>2, <1>3, <1>4 DEF Primary, MaybeError
<1>6. /\ r.status \in {"SUCCEEDED", "FAILED"}
      /\ r.status = "FAILED" => r.class # NoError
      /\ r.status = "SUCCEEDED" => exit \in Expected
  BY <1>2, <1>3, <1>4 DEF Primary, BlobFailed
<1>7. length \in Nat /\ Duration(started, finished) \in Nat
  BY ContractAssumption DEF Duration, MessageCap
<1>8. /\ envelope' = {Envelope(r, exit, length, Duration(started, finished))}
      /\ own' = TRUE
  BY <1>1 DEF r, c
<1> QED
  BY <1>3, <1>5, <1>6, <1>7, <1>8, BuiltRight
  DEF ContractInv, ContractTypeOK, BuiltIsAccepted

LEMMA ContractFailed ==
  ASSUME BuildFailed
  PROVE  ContractInv'
<1>1. PICK class \in ErrorClass, seq \in 1..AttemptCap,
           started \in Clock, finished \in Clock, length \in 0..(MessageCap + 1) :
        /\ envelope' =
             {Envelope(BuildResult("FAILED", class, seq, "stored", "stored"),
                       NoExit, length, Duration(started, finished))}
        /\ own' = TRUE
  BY DEF BuildFailed
<1> DEFINE r == BuildResult("FAILED", class, seq, "stored", "stored")
<1>2. NoError \notin ErrorClass
  BY DEF ErrorClass, Transient, Permanent, Security, Resource, Data, NoError
<1>3. r.count = seq /\ r.class = class /\ r.status = "FAILED"
  BY <1>2 DEF BuildResult, Primary
<1> HIDE DEF r
<1>4. r.class \in MaybeError /\ r.class # NoError
  BY <1>2, <1>3 DEF MaybeError
<1>5. length \in Nat /\ Duration(started, finished) \in Nat
  BY ContractAssumption DEF Duration, MessageCap
<1>6. /\ envelope' = {Envelope(r, NoExit, length, Duration(started, finished))}
      /\ own' = TRUE
  BY <1>1 DEF r
<1> QED
  BY <1>3, <1>4, <1>5, <1>6, BuiltRight DEF ContractInv, ContractTypeOK, BuiltIsAccepted

LEMMA ContractReceived ==
  ASSUME Receive
  PROVE  ContractInv'
<1>1. PICK version \in [major : 0..2, minor : 0..MaxMinor], status \in Status,
           count \in {0, AttemptCap, AttemptCap + 1},
           exit \in ExitCodes \cup {NoExit}, known \in BOOLEAN, duration \in {-1, 0},
           error \in {{}, {ErrorDict("exec_nonzero", 1)},
                      {[ErrorDict("exec_nonzero", 1) EXCEPT !.retryable = TRUE]}} :
        /\ envelope' = {[version |-> version, status |-> status, count |-> count,
                         exit |-> exit, duration |-> duration, known |-> known,
                         error |-> error]}
        /\ own' = FALSE
  BY DEF Receive
<1>2. version \in [major : Nat, minor : Nat]
  BY ContractAssumption
<1>3. \A err \in error : err.class \in ErrorClass /\ err.message \in 1..MessageCap
  <2>1. "exec_nonzero" \in ErrorClass
    BY DEF ErrorClass, Permanent
  <2>2. Cut(1) = 1 /\ 1 \in 1..MessageCap
    BY DEF Cut, MessageCap
  <2> QED
    BY <2>1, <2>2 DEF ErrorDict
<1>4. count \in 0..(AttemptCap + 1)
  BY DEF AttemptCap
<1>5. \A e \in envelope' : IsEnvelope(e)
  BY <1>1, <1>2 DEF IsEnvelope
<1>6. \A e \in envelope' : e.status = status /\ e.count = count /\ e.error = error
  BY <1>1
<1> QED
  BY <1>1, <1>3, <1>4, <1>5, <1>6 DEF ContractInv, ContractTypeOK, BuiltIsAccepted

LEMMA ContractInvStep == ContractInv /\ [ContractNext]_contractVars => ContractInv'
<1>1. ASSUME ContractInv, UNCHANGED contractVars
      PROVE  ContractInv'
  BY <1>1
  DEF contractVars, ContractInv, ContractTypeOK, BuiltIsAccepted
<1> QED
  BY <1>1, ContractAnswered, ContractFailed, ContractReceived DEF ContractNext

\* An envelope is well formed and, if it is the program's own, accepted.
THEOREM ContractInvariant == ContractSpec => []ContractInv
  BY ContractInvInit, ContractInvStep, PTL DEF ContractSpec

\* An error slot holds at most one error, of the matrix, with a message.
THEOREM ContractWellFormed == ContractSpec => []ContractTypeOK
<1>1. ContractInv => ContractTypeOK
  BY DEF ContractInv
<1> QED
  BY <1>1, ContractInvariant, PTL

\* A minor version more changes nothing that the validator looks at.
LEMMA NewerAccepted ==
  ASSUME NEW e, IsEnvelope(e), Accepts(e)
  PROVE  Accepts([e EXCEPT !.version.minor = @ + 1])
<1>1. PICK version \in [major : Nat, minor : Nat] :
        \E status, count, exit, duration, known, error :
          e = [version |-> version, status |-> status, count |-> count, exit |-> exit,
               duration |-> duration, known |-> known, error |-> error]
  BY DEF IsEnvelope
<1>2. PICK status, count, exit, duration, known, error :
        e = [version |-> version, status |-> status, count |-> count, exit |-> exit,
             duration |-> duration, known |-> known, error |-> error]
  BY <1>1
<1> DEFINE f == [e EXCEPT !.version.minor = @ + 1]
<1>3. /\ f.status = e.status /\ f.count = e.count /\ f.exit = e.exit
      /\ f.duration = e.duration /\ f.known = e.known /\ f.error = e.error
  BY <1>2
<1>4. /\ f.version.major = e.version.major /\ f.version.minor = e.version.minor + 1
      /\ e.version.minor \in Nat
  BY <1>2
<1> HIDE DEF f
<1>5. SchemaHolds(f) /\ MatrixHolds(f) /\ MajorSupported(f.version)
  BY <1>3, <1>4 DEF Accepts, SchemaHolds, MatrixHolds, MajorSupported
<1>6. f.version.minor >= 1
  BY <1>4
<1> QED
  BY <1>3, <1>5, <1>6 DEF Accepts, CodeAllowed, f

\* No good result is refused, neither the program's own, whatever the script
\* answers and however the clock is set meanwhile, nor that of a newer compatible
\* producer (NoGoodResultRefused).
THEOREM GoodResultsPass == ContractSpec => []NoGoodResultRefused
<1>1. ContractInv => NoGoodResultRefused
  BY NewerAccepted DEF ContractInv, NoGoodResultRefused, NewerMinorAgrees
<1> QED
  BY <1>1, ContractInvariant, PTL

------------------------------------------------------------------------------
\* The capture of a stream.

\* t is s without its first k bytes.
Drops(t, s, k) ==
  /\ t \in Seq(Byte) /\ k \in 0..Len(s)
  /\ Len(t) = Len(s) - k
  /\ \A j \in 1..Len(t) : t[j] = s[k + j]

\* As many bytes as are over a cap.
Beyond(n, cap) == IF n <= cap THEN 0 ELSE n - cap

\* The states of a decoder that reads all of s, byte after byte, without an error.
Reads(st, s) ==
  /\ st \in [0..Len(s) -> 0..3] /\ st[0] = 0
  /\ \A i \in 1..Len(s) : st[i] = AfterByte(st[i - 1], s[i])

\* All of s can be read, and leaves the decoder in state n.
ReadsTo(s, n) == \E st : Reads(st, s) /\ st[Len(s)] = n

\* All of s can be read, and it ends with a character.
IsWhole(s) == \E st : Reads(st, s) /\ st[Len(s)] = 0

LEMMA ByteSeq ==
  ASSUME NEW s \in Seq(Byte)
  PROVE  /\ Len(s) \in Nat /\ DOMAIN s = 1..Len(s)
         /\ \A i \in 1..Len(s) : s[i] \in Byte
  OBVIOUS

\* What the decoder makes of a byte.
LEMMA AfterByteIs ==
  ASSUME NEW n \in 0..3, NEW byte \in Byte
  PROVE  /\ AfterByte(n, byte) \in -1..3
         /\ n > 0 => AfterByte(n, byte) = IF byte = "cont" THEN n - 1 ELSE -1
         /\ n = 0 /\ byte = "char" => AfterByte(n, byte) = 0
         /\ n = 0 /\ byte = "lead2" => AfterByte(n, byte) = 1
         /\ n = 0 /\ byte = "lead4" => AfterByte(n, byte) = 3
         /\ n = 0 /\ byte \in {"cont", "bad"} => AfterByte(n, byte) = -1
<1>1. CASE byte = "char"
  BY <1>1 DEF AfterByte
<1>2. CASE byte = "lead2"
  BY <1>2 DEF AfterByte
<1>3. CASE byte = "lead4"
  BY <1>3 DEF AfterByte
<1>4. CASE byte = "cont"
  BY <1>4 DEF AfterByte
<1>5. CASE byte = "bad"
  BY <1>5 DEF AfterByte
<1> QED
  BY <1>1, <1>2, <1>3, <1>4, <1>5 DEF Byte

LEMMA NatLeast ==
  ASSUME NEW T \in SUBSET Nat, T # {}
  PROVE  \E x \in T : \A y \in T : x <= y
<1>1. PICK x \in T : \A y \in T : ~ (<<y, x>> \in OpToRel(<, Nat))
  BY NatLessThanWellFounded, WFMin, Zenon
<1>2. \A y \in T : ~ (y < x)
  BY <1>1 DEF OpToRel
<1> QED
  BY <1>2

\* What is read is read in one way only.
LEMMA ReadsOnce ==
  ASSUME NEW s, NEW t, NEW n \in Nat, n <= Len(s), n <= Len(t),
         Len(s) \in Nat, Len(t) \in Nat,
         \A i \in 1..n : s[i] = t[i],
         NEW a, Reads(a, s), NEW b, Reads(b, t)
  PROVE  \A i \in 0..n : a[i] = b[i]
<1> DEFINE T == {i \in 0..n : a[i] # b[i]}
<1>1. SUFFICES ASSUME T # {}
               PROVE  FALSE
  OBVIOUS
<1>2. PICK i \in T : \A j \in T : i <= j
  <2>1. T \in SUBSET Nat
    OBVIOUS
  <2> HIDE DEF T
  <2> QED
    BY <1>1, <2>1, NatLeast
<1>3. i \in 0..n /\ a[i] # b[i]
  OBVIOUS
<1>4. i # 0
  BY <1>3 DEF Reads
<1>5. i \in 1..n /\ i - 1 \in 0..n /\ ~ (i <= i - 1)
  BY <1>3, <1>4
<1>6. a[i - 1] = b[i - 1]
  BY <1>2, <1>5
<1>7. i \in 1..Len(s) /\ i \in 1..Len(t)
  BY <1>5
<1>8. a[i] = AfterByte(a[i - 1], s[i]) /\ b[i] = AfterByte(b[i - 1], t[i])
  BY <1>7 DEF Reads
<1> QED
  BY <1>3, <1>5, <1>6, <1>8

\* A decoder that is inside a character finds the rest of it.
LEMMA ReadsOn ==
  ASSUME NEW s \in Seq(Byte), NEW st, Reads(st, s), st[Len(s)] = 0,
         NEW k \in 0..Len(s)
  PROVE  /\ st[k] \in 0..3
         /\ st[k] > 0 => k < Len(s) /\ s[k + 1] = "cont" /\ st[k + 1] = st[k] - 1
         /\ st[k] = 0 /\ k < Len(s) => s[k + 1] # "cont"
<1>1. st[k] \in 0..3
  BY DEF Reads
<1>2. ASSUME k < Len(s)
      PROVE  /\ s[k + 1] \in Byte /\ st[k + 1] \in 0..3
             /\ st[k + 1] = AfterByte(st[k], s[k + 1])
  <2>1. k + 1 \in 1..Len(s) /\ k + 1 - 1 = k /\ k + 1 \in 0..Len(s)
    BY <1>2
  <2> QED
    BY <2>1, ByteSeq DEF Reads
<1>3. ASSUME st[k] > 0
      PROVE  k < Len(s) /\ s[k + 1] = "cont" /\ st[k + 1] = st[k] - 1
  <2>1. k < Len(s)
    <3>1. k # Len(s)
      BY <1>3
    <3> QED
      BY <3>1, ByteSeq
  <2> QED
    BY <1>1, <1>2, <1>3, <2>1, AfterByteIs
<1>4. ASSUME st[k] = 0, k < Len(s)
      PROVE  s[k + 1] # "cont"
  BY <1>2, <1>4, AfterByteIs
<1> QED
  BY <1>1, <1>3, <1>4

\* From inside a character, with r bytes of it to come.
LEMMA RestOfCharacter ==
  ASSUME NEW s \in Seq(Byte), NEW st, Reads(st, s), st[Len(s)] = 0,
         NEW k \in 0..Len(s)
  PROVE  LET r == st[k]
         IN  /\ r \in 0..3 /\ k + r <= Len(s)
             /\ \A j \in 1..r : s[k + j] = "cont"
             /\ st[k + r] = 0
             /\ k + r < Len(s) => s[k + r + 1] # "cont"
<1> DEFINE r == st[k]
<1>1. r \in 0..3 /\ Len(s) \in Nat
  BY ReadsOn, ByteSeq
<1>2. \A i \in 0..Len(s) :
        /\ st[i] \in 0..3
        /\ st[i] > 0 => i < Len(s) /\ s[i + 1] = "cont" /\ st[i + 1] = st[i] - 1
        /\ st[i] = 0 /\ i < Len(s) => s[i + 1] # "cont"
  BY ReadsOn
<1>3. ASSUME r >= 1
      PROVE  k + 1 \in 0..Len(s) /\ s[k + 1] = "cont" /\ st[k + 1] = r - 1
  BY <1>1, <1>2, <1>3
<1>4. ASSUME r >= 2
      PROVE  k + 2 \in 0..Len(s) /\ s[k + 2] = "cont" /\ st[k + 2] = r - 2
  <2>1. k + 1 \in 0..Len(s) /\ st[k + 1] = r - 1 /\ r - 1 > 0 /\ k + 1 + 1 = k + 2
        /\ r - 1 - 1 = r - 2
    BY <1>1, <1>3, <1>4
  <2> HIDE DEF r
  <2> QED
    BY <1>1, <1>2, <2>1
<1>5. ASSUME r >= 3
      PROVE  k + 3 \in 0..Len(s) /\ s[k + 3] = "cont" /\ st[k + 3] = r - 3
  <2>1. k + 2 \in 0..Len(s) /\ st[k + 2] = r - 2 /\ r - 2 > 0 /\ k + 2 + 1 = k + 3
        /\ r - 2 - 1 = r - 3
    BY <1>1, <1>4, <1>5
  <2> HIDE DEF r
  <2> QED
    BY <1>1, <1>2, <2>1
<1>6. r \in 0..3 /\ k + r \in 0..Len(s) /\ st[k + r] = 0
  <2>1. st[k] = r /\ k \in 0..Len(s) /\ k \in Int /\ k + 0 = k
    BY <1>1
  <2> HIDE DEF r
  <2>2. r = 0 \/ r = 1 \/ r = 2 \/ r = 3
    BY <1>1
  <2> QED
    BY <1>1, <1>3, <1>4, <1>5, <2>1, <2>2
<1>7. \A j \in 1..r : s[k + j] = "cont"
  <2> HIDE DEF r
  <2>1. \A j \in 1..r : j = 1 \/ (j = 2 /\ r >= 2) \/ (j = 3 /\ r >= 3)
    BY <1>1
  <2>2. \A j \in 1..r : r >= 1
    BY <1>1
  <2> QED
    BY <1>3, <1>4, <1>5, <2>1, <2>2
<1>8. k + r < Len(s) => s[k + r + 1] # "cont"
  <2> HIDE DEF r
  <2> QED
    BY <1>2, <1>6
<1> QED
  BY <1>1, <1>6, <1>7, <1>8

LEMMA PieceOf ==
  ASSUME NEW S, NEW s, NEW m \in Int, NEW n \in Int, m <= n + 1,
         \A i \in m..n : s[i] \in S,
         NEW t, t = SubSeq(s, m, n)
  PROVE  /\ t \in Seq(S)
         /\ Len(t) = n - m + 1
         /\ \A i \in 1..(n - m + 1) : t[i] = s[m + i - 1]
<1>1. SubSeq(s, m, n) \in Seq(S)
  BY SubSeqProperties
<1>2. Len(SubSeq(s, m, n)) = n - m + 1
  OBVIOUS
<1>3. \A i \in 1..(n - m + 1) : SubSeq(s, m, n)[i] = s[m + i - 1]
  OBVIOUS
<1> QED
  BY <1>1, <1>2, <1>3, Zenon

LEMMA SubSeqDrops ==
  ASSUME NEW s \in Seq(Byte), NEW k \in 0..Len(s), NEW t, t = SubSeq(s, k + 1, Len(s))
  PROVE  Drops(t, s, k)
<1>1. Len(s) \in Nat /\ k \in Nat /\ k <= Len(s) /\ k + 1 \in Int /\ Len(s) \in Int
  BY ByteSeq
<1>2. \A i \in (k + 1)..Len(s) : s[i] \in Byte
  BY <1>1, ByteSeq
<1>3. /\ t \in Seq(Byte)
      /\ Len(t) = Len(s) - (k + 1) + 1
      /\ \A i \in 1..(Len(s) - (k + 1) + 1) : t[i] = s[k + 1 + i - 1]
  <2>1. k + 1 <= Len(s) + 1
    BY <1>1
  <2> QED
    BY <1>1, <1>2, <2>1, PieceOf
<1>4. Len(t) = Len(s) - k
  BY <1>1, <1>3
<1>5. \A i \in 1..Len(t) : t[i] = s[k + i]
  <2>1. \A i \in 1..Len(t) : i \in 1..(Len(s) - (k + 1) + 1) /\ k + 1 + i - 1 = k + i
    BY <1>1, <1>4
  <2> QED
    BY <1>3, <2>1
<1> QED
  BY <1>3, <1>4, <1>5 DEF Drops

\* Two ends of one length are the same.
LEMMA DropsOnly ==
  ASSUME NEW s \in Seq(Byte), NEW k, NEW t, Drops(t, s, k), NEW u, Drops(u, s, k)
  PROVE  t = u
BY SeqEqual, Zenon DEF Drops

LEMMA DropsNone ==
  ASSUME NEW s \in Seq(Byte)
  PROVE  Drops(s, s, 0)
BY ByteSeq DEF Drops

LEMMA DropsTwice ==
  ASSUME NEW s \in Seq(Byte), NEW k, NEW t, Drops(t, s, k),
         NEW l, NEW u, Drops(u, t, l)
  PROVE  Drops(u, s, k + l)
<1>1. /\ Len(s) \in Nat /\ k \in 0..Len(s) /\ Len(t) = Len(s) - k
      /\ l \in 0..Len(t) /\ Len(u) = Len(t) - l /\ u \in Seq(Byte)
  BY ByteSeq DEF Drops
<1>2. k + l \in 0..Len(s) /\ Len(u) = Len(s) - (k + l)
  BY <1>1
<1>3. \A j \in 1..Len(u) : u[j] = s[k + l + j]
  <2> TAKE j \in 1..Len(u)
  <2>1. u[j] = t[l + j]
    BY DEF Drops
  <2>2. l + j \in 1..Len(t) /\ k + (l + j) = k + l + j
    BY <1>1
  <2>3. t[l + j] = s[k + (l + j)]
    BY <2>2 DEF Drops
  <2> QED
    BY <2>1, <2>2, <2>3
<1> QED
  BY <1>1, <1>2, <1>3 DEF Drops

LEMMA LastDrops ==
  ASSUME NEW s \in Seq(Byte), NEW n \in Nat
  PROVE  Drops(Last(s, n), s, Beyond(Len(s), n))
<1>1. Len(s) \in Nat
  BY ByteSeq
<1>2. CASE Len(s) <= n
  BY <1>2, DropsNone DEF Last, Beyond
<1>3. CASE ~ (Len(s) <= n)
  <2>1. Len(s) - n \in 0..Len(s)
    BY <1>1, <1>3
  <2>2. Last(s, n) = SubSeq(s, Len(s) - n + 1, Len(s))
    BY <1>3, Zenon DEF Last
  <2>3. Drops(Last(s, n), s, Len(s) - n)
    BY <2>1, <2>2, SubSeqDrops, Zenon
  <2> QED
    BY <1>3, <2>3 DEF Beyond
<1> QED
  BY <1>2, <1>3

\* Where a character ends, the rest is whole.
LEMMA RestIsWhole ==
  ASSUME NEW s \in Seq(Byte), NEW st, Reads(st, s), st[Len(s)] = 0,
         NEW k \in 0..Len(s), st[k] = 0, NEW t, Drops(t, s, k)
  PROVE  IsWhole(t)
<1>1. /\ Len(s) \in Nat /\ k \in Nat /\ k <= Len(s) /\ Len(t) = Len(s) - k
  BY ByteSeq DEF Drops
<1> DEFINE u == [j \in 0..Len(t) |-> st[k + j]]
<1>2. u \in [0..Len(t) -> 0..3]
  <2>1. \A j \in 0..Len(t) : k + j \in 0..Len(s)
    BY <1>1
  <2> QED
    BY <2>1 DEF Reads
<1>3. u[0] = 0
  BY <1>1
<1>4. u[Len(t)] = 0
  <2>1. Len(t) \in 0..Len(t) /\ k + Len(t) = Len(s)
    BY <1>1
  <2> QED
    BY <2>1
<1>5. \A i \in 1..Len(t) : u[i] = AfterByte(u[i - 1], t[i])
  <2> TAKE i \in 1..Len(t)
  <2>1. /\ k + i \in 1..Len(s) /\ k + i - 1 = k + (i - 1)
        /\ i \in 0..Len(t) /\ i - 1 \in 0..Len(t)
    BY <1>1
  <2>2. st[k + i] = AfterByte(st[k + (i - 1)], s[k + i])
    BY <2>1 DEF Reads
  <2>3. t[i] = s[k + i]
    BY DEF Drops
  <2> QED
    BY <2>1, <2>2, <2>3
<1> HIDE DEF u
<1> QED
  BY <1>2, <1>3, <1>4, <1>5 DEF IsWhole, Reads

\* align_utf8_tail: the end of a text, from inside a character, loses the rest
\* of that character and nothing else.
LEMMA AlignedIsWhole ==
  ASSUME NEW s \in Seq(Byte), IsWhole(s), NEW k, NEW t, Drops(t, s, k)
  PROVE  \E m \in 0..3 : /\ Drops(Aligned(t), t, m) /\ IsWhole(Aligned(t))
                         /\ k = 0 => m = 0
<1>1. PICK st : Reads(st, s) /\ st[Len(s)] = 0
  BY DEF IsWhole
<1>2. /\ Len(s) \in Nat /\ k \in 0..Len(s) /\ Len(t) = Len(s) - k /\ t \in Seq(Byte)
      /\ \A j \in 1..Len(t) : t[j] = s[k + j]
  BY ByteSeq DEF Drops
<1> DEFINE r == st[k]
<1>3. /\ r \in 0..3 /\ k + r <= Len(s)
      /\ \A j \in 1..r : s[k + j] = "cont"
      /\ st[k + r] = 0
      /\ k + r < Len(s) => s[k + r + 1] # "cont"
  BY <1>1, <1>2, RestOfCharacter
<1>4. k = 0 => r = 0
  BY <1>1 DEF Reads
<1> HIDE DEF r
<1> DEFINE Stops(i) == /\ \A j \in 1..i : j <= Len(t) /\ t[j] = "cont"
                       /\ i = 3 \/ i = Len(t) \/ t[i + 1] # "cont"
<1>5. Stops(r)
  <2>1. \A j \in 1..r : j \in 1..Len(t)
    BY <1>2, <1>3
  <2>2. \A j \in 1..r : t[j] = "cont"
    BY <1>2, <1>3, <2>1
  <2>3. r # Len(t) => r + 1 \in 1..Len(t) /\ k + r < Len(s) /\ k + (r + 1) = k + r + 1
    BY <1>2, <1>3
  <2>4. r # Len(t) => t[r + 1] # "cont"
    BY <1>2, <1>3, <2>3
  <2> QED
    BY <1>2, <2>1, <2>2, <2>4
<1>6. ASSUME NEW i \in 0..3, Stops(i)
      PROVE  i = r
  <2>1. CASE i < r
    <3>1. i # 3 /\ i + 1 \in 1..r /\ i + 1 \in 1..Len(t) /\ i # Len(t)
      BY <1>2, <1>3, <2>1
    <3>2. t[i + 1] = "cont"
      BY <1>5, <3>1
    <3> QED
      BY <1>6, <3>1, <3>2
  <2>2. CASE r < i
    <3>1. r + 1 \in 1..i
      BY <1>3, <2>2
    <3>2. r + 1 <= Len(t) /\ t[r + 1] = "cont"
      BY <1>6, <3>1
    <3>3. r + 1 \in 1..Len(t) /\ k + r < Len(s) /\ k + (r + 1) = k + r + 1
      BY <1>2, <1>3, <3>2
    <3> QED
      BY <1>2, <1>3, <3>2, <3>3
  <2> QED
    BY <1>3, <2>1, <2>2
<1>7. r = CHOOSE i \in 0..3 : Stops(i)
  <2> HIDE DEF Stops
  <2>1. \E i \in 0..3 : Stops(i)
    BY <1>3, <1>5
  <2>2. (CHOOSE i \in 0..3 : Stops(i)) \in 0..3 /\ Stops(CHOOSE i \in 0..3 : Stops(i))
    BY <2>1, Zenon
  <2> QED
    BY <1>6, <2>2, Zenon
<1>8. Aligned(t) = SubSeq(t, r + 1, Len(t))
  BY <1>7, Zenon DEF Aligned
<1>9. Drops(Aligned(t), t, r)
  <2>1. r \in 0..Len(t)
    BY <1>2, <1>3
  <2> QED
    BY <1>2, <1>8, <2>1, SubSeqDrops, Zenon
<1>10. IsWhole(Aligned(t))
  <2>1. Drops(Aligned(t), s, k + r) /\ k + r \in 0..Len(s)
    BY <1>2, <1>3, <1>9, DropsTwice
  <2> QED
    BY <1>1, <1>3, <2>1, RestIsWhole
<1> QED
  BY <1>3, <1>4, <1>9, <1>10

\* What is whole stays as it is.
LEMMA AlignedOnce ==
  ASSUME NEW s \in Seq(Byte), IsWhole(s)
  PROVE  Aligned(s) = s
<1>1. Drops(s, s, 0)
  BY DropsNone
<1>2. Drops(Aligned(s), s, 0)
  BY <1>1, AlignedIsWhole
<1> QED
  BY <1>1, <1>2, DropsOnly

\* Where a place of the kept part lies in the whole: the first m - k places
\* in what came before, the others in the chunk.
LEMMA PlaceKept ==
  ASSUME NEW m \in Nat, NEW n \in Nat, NEW u \in Nat, NEW k \in 0..m,
         u = m - k, NEW j \in 1..(u + n)
  PROVE  /\ k + j \in 1..(m + n) /\ j \in 1..(u + n)
         /\ (j <= u <=> k + j <= m) /\ j - u = k + j - m
         /\ (j <= u => j \in 1..u)
OBVIOUS

LEMMA BeyondBoth ==
  ASSUME NEW m \in Nat, NEW n \in Nat, NEW cap \in Nat, NEW k, k = Beyond(m, cap)
  PROVE  k + Beyond(m - k + n, cap) = Beyond(m + n, cap)
<1>1. CASE m <= cap
  BY <1>1 DEF Beyond
<1>2. CASE ~ (m <= cap)
  <2>1. k = m - cap /\ m - k + n = cap + n
    BY <1>2 DEF Beyond
  <2>2. Beyond(cap + n, cap) = n
    BY DEF Beyond
  <2>3. Beyond(m + n, cap) = m + n - cap
    BY <1>2 DEF Beyond
  <2> QED
    BY <2>1, <2>2, <2>3
<1> QED
  BY <1>1, <1>2

\* The tail that is kept goes along with the stream.
LEMMA TailFollows ==
  ASSUME NEW s \in Seq(Byte), NEW cap \in Nat, NEW t, Drops(t, s, Beyond(Len(s), cap)),
         NEW c \in Seq(Byte)
  PROVE  /\ s \o c \in Seq(Byte) /\ Len(s \o c) = Len(s) + Len(c)
         /\ Drops(Last(t \o c, cap), s \o c, Beyond(Len(s \o c), cap))
<1>1. /\ Len(s) \in Nat /\ Len(c) \in Nat /\ t \in Seq(Byte) /\ Len(t) \in Nat
      /\ Len(t) = Len(s) - Beyond(Len(s), cap)
      /\ \A j \in 1..Len(t) : t[j] = s[Beyond(Len(s), cap) + j]
  BY ByteSeq DEF Drops
<1> DEFINE k == Beyond(Len(s), cap)
<1>2. k \in 0..Len(s)
  BY DEF Drops
<1>3. PICK sc : sc = s \o c
  OBVIOUS
<1>4. PICK tc : tc = t \o c
  OBVIOUS
<1>5. /\ sc \in Seq(Byte) /\ Len(sc) = Len(s) + Len(c)
      /\ \A i \in 1..(Len(s) + Len(c)) :
           sc[i] = IF i <= Len(s) THEN s[i] ELSE c[i - Len(s)]
  BY <1>3, ConcatProperties, Zenon
<1>6. /\ tc \in Seq(Byte) /\ Len(tc) = Len(t) + Len(c)
      /\ \A i \in 1..(Len(t) + Len(c)) :
           tc[i] = IF i <= Len(t) THEN t[i] ELSE c[i - Len(t)]
  BY <1>1, <1>4, ConcatProperties, Zenon
<1>7. Len(t) = Len(s) - k
  BY <1>1
<1> HIDE DEF k
<1>8. Drops(tc, sc, k)
  <2>1. k \in 0..Len(sc) /\ Len(tc) = Len(sc) - k
    BY <1>1, <1>2, <1>5, <1>6, <1>7
  <2>2. \A j \in 1..Len(tc) : tc[j] = sc[k + j]
    <3> TAKE j \in 1..Len(tc)
    <3>1. k + j \in 1..(Len(s) + Len(c)) /\ j \in 1..(Len(t) + Len(c))
          /\ (j <= Len(t) <=> k + j <= Len(s)) /\ j - Len(t) = k + j - Len(s)
          /\ (j <= Len(t) => j \in 1..Len(t))
      <4>1. Len(s) \in Nat /\ Len(t) \in Nat /\ Len(c) \in Nat
        BY <1>1
      <4>2. j \in 1..(Len(t) + Len(c))
        BY <1>6, Zenon
      <4> QED
        BY <4>1, <4>2, <1>2, <1>7, PlaceKept
    <3>2. j <= Len(t) => t[j] = s[k + j]
      BY <1>1, <3>1 DEF k
    <3>3. tc[j] = IF j <= Len(t) THEN t[j] ELSE c[j - Len(t)]
      BY <1>6, <3>1, Zenon
    <3>6. sc[k + j] = IF k + j <= Len(s) THEN s[k + j] ELSE c[k + j - Len(s)]
      <4>1. PICK i : i = k + j
        OBVIOUS
      <4>2. i \in 1..(Len(s) + Len(c))
        BY <3>1, <4>1
      <4>3. sc[i] = IF i <= Len(s) THEN s[i] ELSE c[i - Len(s)]
        BY <1>5, <4>2
      <4> QED
        BY <1>1, <1>2, <4>1, <4>3
    <3>4. CASE j <= Len(t)
      BY <3>1, <3>2, <3>3, <3>4, <3>6
    <3>5. CASE ~ (j <= Len(t))
      BY <3>1, <3>3, <3>5, <3>6
    <3> QED
      BY <3>4, <3>5
  <2> QED
    BY <1>6, <2>1, <2>2 DEF Drops
<1>9. Drops(Last(tc, cap), tc, Beyond(Len(tc), cap))
  BY <1>6, LastDrops
<1>10. Drops(Last(tc, cap), sc, k + Beyond(Len(tc), cap))
  BY <1>5, <1>8, <1>9, DropsTwice
<1>11. k + Beyond(Len(tc), cap) = Beyond(Len(sc), cap)
  <2>1. k = Beyond(Len(s), cap)
    BY DEF k
  <2> QED
    BY <1>1, <1>5, <1>6, <1>7, <2>1, BeyondBoth
<1>12. Drops(Last(tc, cap), sc, Beyond(Len(sc), cap))
  BY <1>10, <1>11
<1> QED
  BY <1>3, <1>4, <1>5, <1>12, Zenon

\* A character of n bytes at place i.
Lead(n) == IF n = 1 THEN "char" ELSE IF n = 2 THEN "lead2" ELSE "lead4"
CharHere(s, i, n) ==
  /\ i + n - 1 <= Len(s)
  /\ s[i] = Lead(n)
  /\ \A j \in 1..(n - 1) : s[i + j] = "cont"

Lengths == {1, 2, 4}

\* A text is empty, or a character and the text after it.
LEMMA WholeStep ==
  ASSUME NEW s \in Seq(Byte)
  PROVE  IsWhole(s) <=>
           \/ Len(s) = 0
           \/ \E n \in Lengths : /\ CharHere(s, 1, n)
                                 /\ \E t : Drops(t, s, n) /\ IsWhole(t)
<1>0. Len(s) \in Nat
  BY ByteSeq
<1>1. ASSUME IsWhole(s), Len(s) # 0
      PROVE  \E n \in Lengths : /\ CharHere(s, 1, n)
                                /\ \E t : Drops(t, s, n) /\ IsWhole(t)
  <2>1. PICK st : Reads(st, s) /\ st[Len(s)] = 0
    BY <1>1 DEF IsWhole
  <2>2. 1 \in 0..Len(s) /\ 1 \in 1..Len(s) /\ s[1] \in Byte /\ 0 \in 0..3
    BY <1>0, <1>1, ByteSeq
  <2>3. st[1] \in 0..3 /\ st[1] = AfterByte(0, s[1])
    BY <2>1, <2>2, ReadsOn DEF Reads
  <2> DEFINE r == st[1]
  <2>4. /\ 1 + r <= Len(s) /\ \A j \in 1..r : s[1 + j] = "cont"
        /\ st[1 + r] = 0
    BY <2>1, <2>2, RestOfCharacter
  <2>5. \/ r = 0 /\ s[1] = "char"
        \/ r = 1 /\ s[1] = "lead2"
        \/ r = 3 /\ s[1] = "lead4"
    BY <2>2, <2>3, AfterByteIs DEF Byte
  <2> HIDE DEF r
  <2>6. 1 + r \in Lengths /\ s[1] = Lead(1 + r) /\ 1 + r - 1 = r
        /\ 1 + (1 + r) - 1 = 1 + r /\ 1 + r \in 0..Len(s)
    BY <1>0, <2>4, <2>5 DEF Lengths, Lead
  <2>7. CharHere(s, 1, 1 + r)
    <3>1. PICK n : n = 1 + r
      OBVIOUS
    <3>2. 1 + n - 1 <= Len(s) /\ s[1] = Lead(n) /\ n - 1 = r
      BY <1>0, <2>4, <2>5, <2>6, <3>1
    <3>3. CharHere(s, 1, n)
      BY <2>4, <3>2 DEF CharHere
    <3> QED
      BY <3>1, <3>3
  <2>8. PICK t : t = SubSeq(s, 1 + r + 1, Len(s))
    OBVIOUS
  <2>9. Drops(t, s, 1 + r)
    BY <2>6, <2>8, SubSeqDrops
  <2>10. IsWhole(t)
    BY <2>1, <2>4, <2>6, <2>9, RestIsWhole
  <2> QED
    BY <2>6, <2>7, <2>9, <2>10
<1>2. ASSUME Len(s) = 0
      PROVE  IsWhole(s)
  <2> DEFINE st == [j \in 0..Len(s) |-> 0]
  <2>1. Reads(st, s) /\ st[Len(s)] = 0
    BY <1>2 DEF Reads
  <2> QED
    BY <2>1 DEF IsWhole
<1>3. ASSUME NEW n \in Lengths, CharHere(s, 1, n), NEW t, Drops(t, s, n), IsWhole(t)
      PROVE  IsWhole(s)
  <2>1. PICK u : Reads(u, t) /\ u[Len(t)] = 0
    BY <1>3 DEF IsWhole
  <2>2. /\ n \in 1..4 /\ n <= Len(s) /\ Len(t) = Len(s) - n /\ Len(t) \in Nat
        /\ s[1] = Lead(n) /\ \A j \in 1..(n - 1) : s[1 + j] = "cont"
        /\ \A j \in 1..Len(t) : t[j] = s[n + j]
    BY <1>0, <1>3, ByteSeq DEF Drops, CharHere, Lengths
  <2> DEFINE st == [j \in 0..Len(s) |->
                      IF j >= n THEN u[j - n] ELSE IF j = 0 THEN 0 ELSE n - j]
  <2>3. \A j \in 0..Len(t) : u[j] \in 0..3
    BY <2>1 DEF Reads
  <2>4. st \in [0..Len(s) -> 0..3] /\ st[0] = 0 /\ st[Len(s)] = 0
    <3>1. \A j \in 0..Len(s) : j >= n => j - n \in 0..Len(t)
      BY <1>0, <2>2
    <3>2. \A j \in 0..Len(s) : ~ (j >= n) /\ j # 0 => n - j \in 0..3
      BY <1>0, <2>2
    <3>3. st \in [0..Len(s) -> 0..3]
      BY <2>3, <3>1, <3>2
    <3>4. st[0] = 0
      BY <1>0, <2>2
    <3>5. st[Len(s)] = u[Len(s) - n] /\ Len(s) - n = Len(t)
      BY <1>0, <2>2
    <3> QED
      BY <2>1, <3>3, <3>4, <3>5
  <2>5. \A i \in 1..Len(s) : st[i] = AfterByte(st[i - 1], s[i])
    <3> TAKE i \in 1..Len(s)
    <3>1. i \in 0..Len(s) /\ i - 1 \in 0..Len(s) /\ i \in Nat /\ s[i] \in Byte
      BY <1>0, ByteSeq
    <3>2. CASE i = 1
      <4>1. st[i - 1] = 0 /\ s[i] = Lead(n)
        BY <2>2, <2>4, <3>2
      <4>2. st[i] = n - 1
        <5>1. n = 1 => st[1] = u[0] /\ u[0] = 0
          BY <2>1, <3>1, <3>2 DEF Reads
        <5>2. n # 1 => st[1] = n - 1
          BY <2>2, <3>1, <3>2
        <5> QED
          BY <3>2, <5>1, <5>2
      <4> HIDE DEF st
      <4>3. AfterByte(0, Lead(n)) = n - 1
        <5>1. {"char", "lead2", "lead4"} \subseteq Byte /\ 0 \in 0..3
          BY DEF Byte
        <5>2. /\ AfterByte(0, "char") = 0 /\ AfterByte(0, "lead2") = 1
              /\ AfterByte(0, "lead4") = 3
          BY <5>1, AfterByteIs
        <5> QED
          BY <5>2 DEF Lead, Lengths
      <4> QED
        BY <4>1, <4>2, <4>3
    <3>3. CASE i > 1 /\ i <= n
      <4>1. st[i - 1] = n - (i - 1)
        BY <2>2, <3>1, <3>3
      <4>2. st[i] = n - i
        <5>1. i = n => st[i] = u[0] /\ u[0] = 0
          BY <2>1, <2>2, <3>1 DEF Reads
        <5>2. i # n => st[i] = n - i
          BY <2>2, <3>1, <3>3
        <5> QED
          BY <2>2, <3>1, <5>1, <5>2
      <4>3. s[i] = "cont"
        <5>1. i - 1 \in 1..(n - 1) /\ 1 + (i - 1) = i
          BY <2>2, <3>1, <3>3
        <5> QED
          BY <2>2, <5>1
      <4> HIDE DEF st
      <4>4. n - (i - 1) \in 0..3 /\ n - (i - 1) > 0 /\ n - (i - 1) - 1 = n - i
        BY <2>2, <3>1, <3>3
      <4>5. AfterByte(n - (i - 1), s[i]) = n - i
        BY <3>1, <4>3, <4>4, AfterByteIs
      <4> QED
        BY <4>1, <4>2, <4>5
    <3>4. CASE i > n
      <4>1. /\ st[i] = u[i - n] /\ st[i - 1] = u[i - 1 - n]
            /\ i - n \in 1..Len(t) /\ i - 1 - n = i - n - 1 /\ n + (i - n) = i
        BY <1>0, <2>2, <3>1, <3>4
      <4>2. u[i - n] = AfterByte(u[i - n - 1], t[i - n])
        BY <2>1, <4>1 DEF Reads
      <4>3. t[i - n] = s[i]
        BY <2>2, <4>1
      <4> HIDE DEF st
      <4> QED
        BY <4>1, <4>2, <4>3
    <3> QED
      BY <2>2, <3>1, <3>2, <3>3, <3>4
  <2> HIDE DEF st
  <2> QED
    BY <2>4, <2>5 DEF IsWhole, Reads
<1> QED
  BY <1>1, <1>2, <1>3

\* IsText, with its parts named.
Chars == {<<"char">>, <<"lead2", "cont">>, <<"lead4", "cont", "cont", "cont">>}
Begins(f, s, i) ==
  \/ i = Len(s) + 1
  \/ \E c \in Chars :
       /\ i + Len(c) - 1 <= Len(s)
       /\ SubSeq(s, i, i + Len(c) - 1) = c
       /\ f[i + Len(c)]
IsFrom(f, s) == f = [i \in 1..(Len(s) + 1) |-> Begins(f, s, i)]

\* A piece of s that is a given character.
LEMMA PieceIsCharacter ==
  ASSUME NEW s \in Seq(Byte), NEW i \in 1..Len(s), NEW c \in Seq(Byte),
         NEW n \in Nat \ {0}, Len(c) = n, i + n - 1 <= Len(s)
  PROVE  SubSeq(s, i, i + n - 1) = c <=> \A j \in 1..n : s[i + j - 1] = c[j]
<1>0. Len(s) \in Nat /\ i \in Nat
  BY ByteSeq
<1>1. PICK t : t = SubSeq(s, i, i + n - 1)
  OBVIOUS
<1>2. /\ t \in Seq(Byte) /\ Len(t) = n
      /\ \A j \in 1..n : t[j] = s[i + j - 1]
  <2>1. /\ i \in Int /\ i + n - 1 \in Int /\ i <= i + n - 1 + 1
        /\ i + n - 1 - i + 1 = n
        /\ \A k \in i..(i + n - 1) : s[k] \in Byte
    BY <1>0, ByteSeq
  <2>2. PICK e : e = i + n - 1
    OBVIOUS
  <2>3. /\ t \in Seq(Byte) /\ Len(t) = e - i + 1
        /\ \A j \in 1..(e - i + 1) : t[j] = s[i + j - 1]
    <3>1. /\ e \in Int /\ i \in Int /\ i <= e + 1 /\ t = SubSeq(s, i, e)
          /\ \A k \in i..e : s[k] \in Byte
      BY <1>1, <2>1, <2>2
    <3> QED
      BY <3>1, PieceOf
  <2>4. e - i + 1 = n
    BY <2>1, <2>2
  <2> QED
    BY <2>3, <2>4, Zenon
<1>3. t = c <=> \A j \in 1..n : t[j] = c[j]
  BY <1>2, SeqEqual
<1> QED
  BY <1>1, <1>2, <1>3, Zenon

LEMMA BeginsIs ==
  ASSUME NEW s \in Seq(Byte), NEW f, NEW i \in 1..(Len(s) + 1)
  PROVE  Begins(f, s, i) <=>
           i = Len(s) + 1 \/ \E n \in Lengths : CharHere(s, i, n) /\ f[i + n]
<1>0. Len(s) \in Nat /\ i \in Nat
  BY ByteSeq
<1> DEFINE c1 == <<"char">>
           c2 == <<"lead2", "cont">>
           c4 == <<"lead4", "cont", "cont", "cont">>
<1>1. /\ c1 \in Seq(Byte) /\ Len(c1) = 1 /\ c1[1] = "char"
      /\ c2 \in Seq(Byte) /\ Len(c2) = 2 /\ c2[1] = "lead2" /\ c2[2] = "cont"
      /\ c4 \in Seq(Byte) /\ Len(c4) = 4 /\ c4[1] = "lead4"
      /\ c4[2] = "cont" /\ c4[3] = "cont" /\ c4[4] = "cont"
  BY DEF Byte
<1>2. Chars = {c1, c2, c4}
  BY DEF Chars
<1> HIDE DEF c1, c2, c4
<1>3. ASSUME i + 1 - 1 <= Len(s)
      PROVE  SubSeq(s, i, i + 1 - 1) = c1 <=> CharHere(s, i, 1)
  <2>1. i \in 1..Len(s)
    BY <1>0, <1>3
  <2>2. SubSeq(s, i, i + 1 - 1) = c1 <=> \A j \in 1..1 : s[i + j - 1] = c1[j]
    BY <1>1, <1>3, <2>1, PieceIsCharacter
  <2>3. (\A j \in 1..1 : s[i + j - 1] = c1[j]) <=> s[i] = "char"
    <3>1. 1 \in 1..1 /\ \A j \in 1..1 : j = 1
      OBVIOUS
    <3>2. i + 1 - 1 = i
      BY <1>0
    <3> QED
      BY <1>1, <3>1, <3>2
  <2>4. CharHere(s, i, 1) <=> s[i] = "char"
    BY <1>3 DEF CharHere, Lead
  <2> QED
    BY <2>2, <2>3, <2>4
<1>4. ASSUME i + 2 - 1 <= Len(s)
      PROVE  SubSeq(s, i, i + 2 - 1) = c2 <=> CharHere(s, i, 2)
  <2>1. i \in 1..Len(s)
    BY <1>0, <1>4
  <2>2. SubSeq(s, i, i + 2 - 1) = c2 <=> \A j \in 1..2 : s[i + j - 1] = c2[j]
    BY <1>1, <1>4, <2>1, PieceIsCharacter
  <2>3. (\A j \in 1..2 : s[i + j - 1] = c2[j]) <=> s[i] = "lead2" /\ s[i + 1] = "cont"
    <3>1. 1 \in 1..2 /\ 2 \in 1..2 /\ \A j \in 1..2 : j = 1 \/ j = 2
      OBVIOUS
    <3>2. i + 1 - 1 = i /\ i + 2 - 1 = i + 1
      BY <1>0
    <3> QED
      BY <1>1, <3>1, <3>2
  <2>4. CharHere(s, i, 2) <=> s[i] = "lead2" /\ s[i + 1] = "cont"
    <3>1. 1 \in 1..(2 - 1) /\ \A j \in 1..(2 - 1) : j = 1
      OBVIOUS
    <3> QED
      BY <1>4, <3>1 DEF CharHere, Lead
  <2> QED
    BY <2>2, <2>3, <2>4
<1>5. ASSUME i + 4 - 1 <= Len(s)
      PROVE  SubSeq(s, i, i + 4 - 1) = c4 <=> CharHere(s, i, 4)
  <2>1. i \in 1..Len(s)
    BY <1>0, <1>5
  <2>2. SubSeq(s, i, i + 4 - 1) = c4 <=> \A j \in 1..4 : s[i + j - 1] = c4[j]
    <3>1. c4 \in Seq(Byte) /\ Len(c4) = 4 /\ 4 \in Nat \ {0}
      BY <1>1
    <3> QED
      BY <1>5, <2>1, <3>1, PieceIsCharacter
  <2>3. (\A j \in 1..4 : s[i + j - 1] = c4[j]) <=>
          /\ s[i] = "lead4"
          /\ s[i + 1] = "cont" /\ s[i + 2] = "cont" /\ s[i + 3] = "cont"
    <3>1. /\ 1 \in 1..4 /\ 2 \in 1..4 /\ 3 \in 1..4 /\ 4 \in 1..4
          /\ \A j \in 1..4 : j = 1 \/ j = 2 \/ j = 3 \/ j = 4
      OBVIOUS
    <3>2. i + 1 - 1 = i /\ i + 2 - 1 = i + 1 /\ i + 3 - 1 = i + 2 /\ i + 4 - 1 = i + 3
      BY <1>0
    <3> QED
      BY <1>1, <3>1, <3>2
  <2>4. CharHere(s, i, 4) <=>
          /\ s[i] = "lead4"
          /\ s[i + 1] = "cont" /\ s[i + 2] = "cont" /\ s[i + 3] = "cont"
    <3>1. /\ 1 \in 1..(4 - 1) /\ 2 \in 1..(4 - 1) /\ 3 \in 1..(4 - 1)
          /\ \A j \in 1..(4 - 1) : j = 1 \/ j = 2 \/ j = 3
      OBVIOUS
    <3> QED
      BY <1>5, <3>1 DEF CharHere, Lead
  <2> QED
    BY <2>2, <2>3, <2>4
<1>6. /\ CharHere(s, i, 1) => i + 1 - 1 <= Len(s)
      /\ CharHere(s, i, 2) => i + 2 - 1 <= Len(s)
      /\ CharHere(s, i, 4) => i + 4 - 1 <= Len(s)
  BY DEF CharHere
<1>7. (\E c \in Chars : /\ i + Len(c) - 1 <= Len(s)
                        /\ SubSeq(s, i, i + Len(c) - 1) = c
                        /\ f[i + Len(c)])
        <=> \/ i + 1 - 1 <= Len(s) /\ SubSeq(s, i, i + 1 - 1) = c1 /\ f[i + 1]
            \/ i + 2 - 1 <= Len(s) /\ SubSeq(s, i, i + 2 - 1) = c2 /\ f[i + 2]
            \/ i + 4 - 1 <= Len(s) /\ SubSeq(s, i, i + 4 - 1) = c4 /\ f[i + 4]
  <2>1. Len(c1) = 1 /\ Len(c2) = 2 /\ Len(c4) = 4
    BY <1>1
  <2> QED
    BY <1>2, <2>1, Zenon
<1>8. (\E n \in Lengths : CharHere(s, i, n) /\ f[i + n])
        <=> \/ CharHere(s, i, 1) /\ f[i + 1]
            \/ CharHere(s, i, 2) /\ f[i + 2]
            \/ CharHere(s, i, 4) /\ f[i + 4]
  BY Zenon DEF Lengths
<1>9. (\E c \in Chars : /\ i + Len(c) - 1 <= Len(s)
                        /\ SubSeq(s, i, i + Len(c) - 1) = c
                        /\ f[i + Len(c)])
        <=> \E n \in Lengths : CharHere(s, i, n) /\ f[i + n]
  BY <1>3, <1>4, <1>5, <1>6, <1>7, <1>8, Zenon
<1> QED
  BY <1>9, Zenon DEF Begins

Rest(s, k) == SubSeq(s, k + 1, Len(s))

LEMMA RestDrops ==
  ASSUME NEW s \in Seq(Byte), NEW k \in 0..Len(s)
  PROVE  Drops(Rest(s, k), s, k) /\ Rest(s, k) \in Seq(Byte)
<1>1. Drops(Rest(s, k), s, k)
  BY SubSeqDrops DEF Rest
<1> QED
  BY <1>1 DEF Drops

\* The step of IsText is that of texts.
LEMMA WholeFrom ==
  ASSUME NEW s \in Seq(Byte), NEW i \in 1..(Len(s) + 1)
  PROVE  IsWhole(Rest(s, i - 1)) <=>
           \/ i = Len(s) + 1
           \/ \E n \in Lengths : /\ CharHere(s, i, n)
                                 /\ IsWhole(Rest(s, (i + n) - 1))
<1>0. Len(s) \in Nat /\ i \in Nat /\ i - 1 \in 0..Len(s)
  BY ByteSeq
<1>1. PICK t : t = Rest(s, i - 1)
  OBVIOUS
<1>2. Drops(t, s, i - 1) /\ t \in Seq(Byte)
  BY <1>0, <1>1, RestDrops
<1>3. /\ Len(t) = Len(s) - (i - 1) /\ Len(t) \in Nat
      /\ \A j \in 1..Len(t) : t[j] = s[i - 1 + j]
  BY <1>2, ByteSeq DEF Drops
<1>4. ASSUME NEW n \in Lengths
      PROVE  CharHere(t, 1, n) <=> CharHere(s, i, n)
  <2>1. n \in 1..4
    BY DEF Lengths
  <2>2. 1 + n - 1 <= Len(t) <=> i + n - 1 <= Len(s)
    BY <1>0, <1>3, <2>1
  <2>3. ASSUME i + n - 1 <= Len(s)
        PROVE  /\ t[1] = s[i]
               /\ \A j \in 1..(n - 1) : t[1 + j] = s[i + j]
    <3>1. 1 \in 1..Len(t) /\ i - 1 + 1 = i
      BY <1>0, <1>3, <2>1, <2>3
    <3>2. t[1] = s[i]
      BY <1>3, <3>1
    <3>3. ASSUME NEW j \in 1..(n - 1)
          PROVE  t[1 + j] = s[i + j]
      <4>1. 1 + j \in 1..Len(t) /\ i - 1 + (1 + j) = i + j
        BY <1>0, <1>3, <2>1, <2>3
      <4>2. t[1 + j] = s[i - 1 + (1 + j)]
        BY <1>3, <4>1
      <4> QED
        BY <4>1, <4>2
    <3> QED
      BY <3>2, <3>3
  <2> QED
    BY <2>2, <2>3 DEF CharHere
<1>5. ASSUME NEW n \in Lengths, CharHere(t, 1, n)
      PROVE  (\E u : Drops(u, t, n) /\ IsWhole(u)) <=> IsWhole(Rest(s, (i + n) - 1))
  <2>1. i + n - 1 \in 0..Len(s) /\ n \in 0..Len(t) /\ i - 1 + n = i + n - 1
    BY <1>0, <1>3, <1>4, <1>5 DEF CharHere, Lengths
  <2>2. PICK v : v = Rest(s, (i + n) - 1)
    OBVIOUS
  <2>3. Drops(v, s, i + n - 1)
    BY <2>1, <2>2, RestDrops
  <2>4. PICK w : w = Rest(t, n)
    OBVIOUS
  <2>5. Drops(w, t, n)
    BY <1>2, <2>1, <2>4, RestDrops
  <2>6. ASSUME NEW u, Drops(u, t, n)
        PROVE  u = v
    <3>1. Drops(u, s, i - 1 + n)
      BY <1>2, <2>6, DropsTwice
    <3> QED
      BY <2>1, <2>3, <3>1, DropsOnly
  <2> QED
    BY <2>2, <2>5, <2>6
<1>6. IsWhole(t) <=>
        \/ Len(t) = 0
        \/ \E n \in Lengths : /\ CharHere(t, 1, n)
                              /\ \E u : Drops(u, t, n) /\ IsWhole(u)
  BY <1>2, WholeStep
<1>7. Len(t) = 0 <=> i = Len(s) + 1
  BY <1>0, <1>3
<1> QED
  BY <1>1, <1>4, <1>5, <1>6, <1>7, Zenon

\* Any function that satisfies the recursion says which rests are texts.
LEMMA FromIsWhole ==
  ASSUME NEW s \in Seq(Byte), NEW f, IsFrom(f, s)
  PROVE  \A i \in 1..(Len(s) + 1) : f[i] <=> IsWhole(Rest(s, i - 1))
<1>0. Len(s) \in Nat
  BY ByteSeq
<1> DEFINE Right(i) == f[i] <=> IsWhole(Rest(s, i - 1))
           T == {k \in 0..Len(s) : ~ Right(Len(s) + 1 - k)}
<1>1. \A i \in 1..(Len(s) + 1) :
        f[i] <=> i = Len(s) + 1 \/ \E n \in Lengths : CharHere(s, i, n) /\ f[i + n]
  <2> TAKE i \in 1..(Len(s) + 1)
  <2>1. f[i] = Begins(f, s, i)
    BY Zenon DEF IsFrom
  <2>2. Begins(f, s, i) <=>
           i = Len(s) + 1 \/ \E n \in Lengths : CharHere(s, i, n) /\ f[i + n]
    BY BeginsIs
  <2> QED
    BY <2>1, <2>2, Zenon
<1>2. ASSUME T # {}
      PROVE  FALSE
  <2>1. PICK k \in T : \A l \in T : k <= l
    <3>1. T \in SUBSET Nat
      BY <1>0
    <3> HIDE DEF T
    <3> QED
      BY <1>2, <3>1, NatLeast
  <2>2. k \in 0..Len(s) /\ ~ Right(Len(s) + 1 - k)
    OBVIOUS
  <2>3. PICK i : i = Len(s) + 1 - k
    OBVIOUS
  <2>4. i \in 1..(Len(s) + 1) /\ i \in Nat
    BY <1>0, <2>2, <2>3
  <2>5. ASSUME NEW n \in Lengths, CharHere(s, i, n)
        PROVE  Right(i + n)
    <3>1. n \in 1..4 /\ i + n - 1 <= Len(s)
      BY <2>5 DEF CharHere, Lengths
    <3>2. k - n \in 0..Len(s) /\ Len(s) + 1 - (k - n) = i + n /\ ~ (k <= k - n)
      BY <1>0, <2>2, <2>3, <2>4, <3>1
    <3>3. k - n \notin T
      BY <2>1, <3>2
    <3> HIDE DEF Right
    <3>4. Right(Len(s) + 1 - (k - n))
      BY <3>2, <3>3
    <3> QED
      BY <3>2, <3>4
  <2>6. f[i] <=> i = Len(s) + 1 \/ \E n \in Lengths : CharHere(s, i, n) /\ f[i + n]
    BY <1>1, <2>4
  <2>7. IsWhole(Rest(s, i - 1)) <=>
           \/ i = Len(s) + 1
           \/ \E n \in Lengths : CharHere(s, i, n) /\ IsWhole(Rest(s, (i + n) - 1))
    BY <2>4, WholeFrom
  <2>8. Right(i)
    <3> DEFINE W(j) == IsWhole(Rest(s, j - 1))
    <3>1. \A n \in Lengths : CharHere(s, i, n) => (f[i + n] <=> W(i + n))
      BY <2>5
    <3>2. W(i) <=> \/ i = Len(s) + 1
                  \/ \E n \in Lengths : CharHere(s, i, n) /\ W(i + n)
      BY <2>7, Zenon
    <3> HIDE DEF W
    <3>3. f[i] <=> W(i)
      BY <2>6, <3>1, <3>2, Zenon
    <3> QED
      BY <3>3 DEF W
  <2> HIDE DEF Right
  <2> QED
    BY <2>2, <2>3, <2>8
<1>3. ASSUME NEW i \in 1..(Len(s) + 1)
      PROVE  Right(i)
  <2>1. Len(s) + 1 - i \in 0..Len(s) /\ Len(s) + 1 - (Len(s) + 1 - i) = i
    BY <1>0
  <2> HIDE DEF Right
  <2>2. Right(Len(s) + 1 - (Len(s) + 1 - i))
    BY <1>2, <2>1
  <2> QED
    BY <2>1, <2>2
<1> QED
  BY <1>3

LEMMA FromExists ==
  ASSUME NEW s \in Seq(Byte)
  PROVE  \E f : IsFrom(f, s)
<1> DEFINE f == [i \in 1..(Len(s) + 1) |-> IsWhole(Rest(s, i - 1))]
<1>0. Len(s) \in Nat
  BY ByteSeq
<1>1. ASSUME NEW i \in 1..(Len(s) + 1)
      PROVE  IsWhole(Rest(s, i - 1)) <=> Begins(f, s, i)
  <2> DEFINE W(j) == IsWhole(Rest(s, j - 1))
  <2>1. \A n \in Lengths : CharHere(s, i, n) => (f[i + n] <=> W(i + n))
    <3>1. \A n \in Lengths : CharHere(s, i, n) => i + n \in 1..(Len(s) + 1)
      BY <1>0 DEF CharHere, Lengths
    <3>2. \A j \in 1..(Len(s) + 1) : f[j] <=> W(j)
      BY Zenon
    <3> HIDE DEF f, W
    <3> QED
      BY <3>1, <3>2, Zenon
  <2> HIDE DEF f
  <2>2. Begins(f, s, i) <=>
           i = Len(s) + 1 \/ \E n \in Lengths : CharHere(s, i, n) /\ f[i + n]
    BY BeginsIs
  <2>3. IsWhole(Rest(s, i - 1)) <=>
           \/ i = Len(s) + 1
           \/ \E n \in Lengths : CharHere(s, i, n) /\ IsWhole(Rest(s, (i + n) - 1))
    BY WholeFrom
  <2>4. W(i) <=> \/ i = Len(s) + 1
                \/ \E n \in Lengths : CharHere(s, i, n) /\ W(i + n)
    BY <2>3, Zenon
  <2> HIDE DEF W
  <2>5. W(i) <=> Begins(f, s, i)
    BY <2>1, <2>2, <2>4, Zenon
  <2> QED
    BY <2>5 DEF W
<1>2. IsFrom(f, s)
  BY <1>1, Zenon DEF IsFrom, Begins, IsWhole
<1> QED
  BY <1>2

\* Cut into characters from its end, a sequence of bytes is text exactly if a
\* decoder reads it from its start and stops between characters.
LEMMA TextIsWhole ==
  ASSUME NEW s \in Seq(Byte)
  PROVE  (IsText(s) <=> IsWhole(s)) /\ IsText(s) \in BOOLEAN
<1> DEFINE from == CHOOSE f : IsFrom(f, s)
<1>1. IsFrom(from, s)
  BY FromExists, Zenon
<1>2. IsText(s) = from[1]
  BY Zenon DEF IsText, IsFrom, Begins, Chars
<1> HIDE DEF from
<1>3. 1 \in 1..(Len(s) + 1) /\ 1 - 1 = 0 /\ 0 \in 0..Len(s)
  BY ByteSeq
<1>4. from[1] <=> IsWhole(Rest(s, 1 - 1))
  BY <1>1, <1>3, FromIsWhole
<1>5. Rest(s, 0) = s
  BY <1>3, RestDrops, DropsNone, DropsOnly
<1>6. from[1] \in BOOLEAN
  <2>1. from[1] = Begins(from, s, 1)
    BY <1>1, <1>3, Zenon DEF IsFrom
  <2>2. Begins(from, s, 1) \in BOOLEAN
    BY Zenon DEF Begins
  <2> QED
    BY <2>1, <2>2
<1> QED
  BY <1>2, <1>3, <1>4, <1>5, <1>6, Zenon

\* A chunk through the decoder, from a state of it on.
DecoderStep(n, byte) == IF n = -1 THEN -1 ELSE AfterByte(n, byte)
Decoding(f, chunk, n) ==
  /\ f \in [0..Len(chunk) -> -1..3] /\ f[0] = n
  /\ \A i \in 1..Len(chunk) : f[i] = DecoderStep(f[i - 1], chunk[i])

LEMMA DecoderStepType ==
  ASSUME NEW n \in -1..3, NEW byte \in Byte
  PROVE  DecoderStep(n, byte) \in -1..3
<1>1. CASE n = -1
  BY <1>1 DEF DecoderStep
<1>2. CASE n # -1
  BY <1>2, AfterByteIs DEF DecoderStep
<1> QED
  BY <1>1, <1>2

LEMMA DecodingExists ==
  ASSUME NEW chunk \in Seq(Byte), NEW n \in 0..3
  PROVE  \E f : Decoding(f, chunk, n)
<1> DEFINE Upto(g, m) == /\ g \in [0..m -> -1..3] /\ g[0] = n
                         /\ \A i \in 1..m : g[i] = DecoderStep(g[i - 1], chunk[i])
           T == {m \in 0..Len(chunk) : ~ \E g : Upto(g, m)}
<1>0. Len(chunk) \in Nat
  BY ByteSeq
<1>1. ASSUME T # {}
      PROVE  FALSE
  <2>1. PICK m \in T : \A l \in T : m <= l
    <3>1. T \in SUBSET Nat
      BY <1>0
    <3> HIDE DEF T
    <3> QED
      BY <1>1, <3>1, NatLeast
  <2>2. m \in 0..Len(chunk) /\ m \in Nat
    BY <1>0
  <2>3. m # 0
    <3>1. Upto([i \in 0..0 |-> n], 0)
      BY <1>0
    <3> HIDE DEF Upto
    <3> QED
      BY <3>1
  <2>4. m - 1 \in 0..Len(chunk) /\ ~ (m <= m - 1) /\ m \in 1..Len(chunk)
    BY <1>0, <2>2, <2>3
  <2>5. PICK g : Upto(g, m - 1)
    BY <2>1, <2>4
  <2> DEFINE h == [i \in 0..m |-> IF i = m THEN DecoderStep(g[m - 1], chunk[m])
                                  ELSE g[i]]
  <2>6. DecoderStep(g[m - 1], chunk[m]) \in -1..3
    BY <2>2, <2>4, <2>5, ByteSeq, DecoderStepType
  <2>7. h \in [0..m -> -1..3] /\ h[0] = n
    BY <2>2, <2>3, <2>5, <2>6
  <2>8. \A i \in 1..m : h[i] = DecoderStep(h[i - 1], chunk[i])
    <3> TAKE i \in 1..m
    <3>1. i - 1 \in 0..m /\ i \in 0..m /\ i - 1 # m
      BY <2>2
    <3>2. h[i - 1] = g[i - 1]
      BY <3>1
    <3>3. CASE i = m
      <4>1. h[i] = DecoderStep(g[m - 1], chunk[m])
        BY <3>1, <3>3
      <4> HIDE DEF h
      <4> QED
        BY <3>2, <3>3, <4>1
    <3>4. CASE i # m
      <4>1. h[i] = g[i] /\ i \in 1..(m - 1)
        BY <2>2, <3>1, <3>4
      <4>2. g[i] = DecoderStep(g[i - 1], chunk[i])
        BY <2>5, <4>1
      <4> HIDE DEF h
      <4> QED
        BY <3>2, <4>1, <4>2
    <3> QED
      BY <3>3, <3>4
  <2>9. Upto(h, m)
    BY <2>7, <2>8
  <2> HIDE DEF Upto, h
  <2> QED
    BY <2>1, <2>9
<1>2. \E g : Upto(g, Len(chunk))
  BY <1>0, <1>1
<1> QED
  BY <1>2 DEF Decoding

LEMMA DecodedIs ==
  ASSUME NEW chunk \in Seq(Byte), needs \in 0..3
  PROVE  \E f : Decoding(f, chunk, needs) /\ Decoded(chunk) = f[Len(chunk)]
<1> DEFINE Rec(f) == f = [i \in 0..Len(chunk) |->
                            IF i = 0 THEN needs
                            ELSE IF f[i - 1] = -1 THEN -1
                                 ELSE AfterByte(f[i - 1], chunk[i])]
           f == CHOOSE state : Rec(state)
<1>0. Len(chunk) \in Nat
  BY ByteSeq
<1>1. Decoded(chunk) = f[Len(chunk)]
  BY Zenon DEF Decoded, StateOfDecoder
<1>2. \E g : Rec(g)
  <2>1. PICK g : Decoding(g, chunk, needs)
    BY DecodingExists
  <2>2. g = [i \in 0..Len(chunk) |-> g[i]]
    BY <2>1 DEF Decoding
  <2>3. \A i \in 0..Len(chunk) :
          g[i] = IF i = 0 THEN needs
                 ELSE IF g[i - 1] = -1 THEN -1 ELSE AfterByte(g[i - 1], chunk[i])
    <3> TAKE i \in 0..Len(chunk)
    <3>1. i # 0 => i \in 1..Len(chunk)
      BY <1>0
    <3> QED
      BY <2>1, <3>1 DEF Decoding, DecoderStep
  <2>4. Rec(g)
    BY <2>2, <2>3, Zenon
  <2> HIDE DEF Rec
  <2> QED
    BY <2>4
<1>3. Rec(f)
  <2> HIDE DEF Rec
  <2> QED
    BY <1>2, Zenon
<1> HIDE DEF f
<1>4. DOMAIN f = 0..Len(chunk) /\ f = [i \in 0..Len(chunk) |-> f[i]]
  BY <1>3
<1>5. f[0] = needs
  <2>1. 0 \in 0..Len(chunk)
    BY <1>0
  <2> QED
    BY <1>3, <2>1, Zenon
<1>6. \A i \in 1..Len(chunk) : f[i] = DecoderStep(f[i - 1], chunk[i])
  <2> TAKE i \in 1..Len(chunk)
  <2>1. i \in 0..Len(chunk) /\ i # 0
    BY <1>0
  <2>2. f[i] = IF i = 0 THEN needs
               ELSE IF f[i - 1] = -1 THEN -1 ELSE AfterByte(f[i - 1], chunk[i])
    BY <1>3, <2>1, Zenon
  <2> QED
    BY <2>1, <2>2 DEF DecoderStep
<1> HIDE DEF Rec
<1>7. \A i \in 0..Len(chunk) : f[i] \in -1..3
  <2> DEFINE T == {i \in 0..Len(chunk) : f[i] \notin -1..3}
  <2>1. ASSUME T # {}
        PROVE  FALSE
    <3>1. PICK i \in T : \A l \in T : i <= l
      <4>1. T \in SUBSET Nat
        BY <1>0
      <4> HIDE DEF T
      <4> QED
        BY <2>1, <4>1, NatLeast
    <3>2. i \in 0..Len(chunk) /\ f[i] \notin -1..3
      OBVIOUS
    <3>3. i # 0
      BY <1>5, <3>2
    <3>4. i \in 1..Len(chunk) /\ i - 1 \in 0..Len(chunk) /\ ~ (i <= i - 1)
      BY <1>0, <3>2, <3>3
    <3>5. f[i - 1] \in -1..3
      BY <3>1, <3>4
    <3>6. f[i] \in -1..3
      BY <1>6, <3>4, <3>5, ByteSeq, DecoderStepType
    <3> QED
      BY <3>2, <3>6
  <2> QED
    BY <2>1
<1>8. Decoding(f, chunk, needs)
  BY <1>4, <1>5, <1>6, <1>7 DEF Decoding
<1> QED
  BY <1>1, <1>8

\* An error stays.
LEMMA ErrorStays ==
  ASSUME NEW chunk \in Seq(Byte), NEW n, NEW f, Decoding(f, chunk, n),
         f[Len(chunk)] # -1
  PROVE  \A i \in 0..Len(chunk) : f[i] \in 0..3
<1>0. Len(chunk) \in Nat
  BY ByteSeq
<1> DEFINE T == {k \in 0..Len(chunk) : f[Len(chunk) - k] = -1}
<1>1. ASSUME T # {}
      PROVE  FALSE
  <2>1. PICK k \in T : \A l \in T : k <= l
    <3>1. T \in SUBSET Nat
      BY <1>0
    <3> HIDE DEF T
    <3> QED
      BY <1>1, <3>1, NatLeast
  <2>2. PICK i : i = Len(chunk) - k
    OBVIOUS
  <2>3. k \in 0..Len(chunk) /\ i \in 0..Len(chunk) /\ f[i] = -1
    BY <1>0, <2>2
  <2>4. k # 0
    <3>1. k = 0 => i = Len(chunk)
      BY <1>0, <2>2
    <3> QED
      BY <2>3, <3>1
  <2>5. /\ k - 1 \in 0..Len(chunk) /\ ~ (k <= k - 1) /\ Len(chunk) - (k - 1) = i + 1
        /\ i + 1 \in 1..Len(chunk) /\ i + 1 - 1 = i
    BY <1>0, <2>2, <2>3, <2>4
  <2>6. f[i + 1] = DecoderStep(f[i], chunk[i + 1])
    BY <2>5, SMTT(30) DEF Decoding
  <2>7. f[i + 1] = -1
    BY <2>3, <2>6 DEF DecoderStep
  <2>8. k - 1 \in T
    BY <2>5, <2>7
  <2> HIDE DEF T
  <2> QED
    BY <2>1, <2>5, <2>8
<1>2. ASSUME NEW i \in 0..Len(chunk)
      PROVE  f[i] \in 0..3
  <2>1. Len(chunk) - i \in 0..Len(chunk) /\ Len(chunk) - (Len(chunk) - i) = i
    BY <1>0
  <2>2. f[i] # -1
    BY <1>1, <2>1
  <2>3. f[i] \in -1..3
    BY DEF Decoding
  <2> QED
    BY <2>2, <2>3
<1> QED
  BY <1>2

\* t is s and then chunk.
Joins(t, s, chunk) ==
  /\ s \in Seq(Byte) /\ chunk \in Seq(Byte) /\ t \in Seq(Byte)
  /\ Len(t) = Len(s) + Len(chunk)
  /\ \A i \in 1..Len(s) : t[i] = s[i]
  /\ \A i \in 1..Len(chunk) : t[Len(s) + i] = chunk[i]

\* What has been read, and a chunk that goes through the decoder, is read.
LEMMA ReadsBoth ==
  ASSUME NEW s, NEW chunk, NEW sc, Joins(sc, s, chunk),
         NEW st, Reads(st, s), NEW f, Decoding(f, chunk, st[Len(s)]),
         f[Len(chunk)] # -1
  PROVE  f[Len(chunk)] \in 0..3 /\ ReadsTo(sc, f[Len(chunk)])
<1>0. /\ s \in Seq(Byte) /\ chunk \in Seq(Byte) /\ sc \in Seq(Byte)
      /\ Len(s) \in Nat /\ Len(chunk) \in Nat /\ Len(sc) = Len(s) + Len(chunk)
      /\ \A i \in 1..Len(s) : sc[i] = s[i]
      /\ \A i \in 1..Len(chunk) : sc[Len(s) + i] = chunk[i]
  BY ByteSeq DEF Joins
<1>1. \A i \in 0..Len(chunk) : f[i] \in 0..3
  BY <1>0, ErrorStays
<1> DEFINE u == [i \in 0..Len(sc) |-> IF i <= Len(s) THEN st[i] ELSE f[i - Len(s)]]
<1>2. u \in [0..Len(sc) -> 0..3]
  <2>1. \A i \in 0..Len(sc) : i <= Len(s) => st[i] \in 0..3
    <3>1. \A i \in 0..Len(s) : st[i] \in 0..3
      BY DEF Reads
    <3> QED
      BY <1>0, <3>1
  <2>2. \A i \in 0..Len(sc) : ~ (i <= Len(s)) => f[i - Len(s)] \in 0..3
    BY <1>0, <1>1
  <2> QED
    BY <1>0, <2>1, <2>2
<1>3. u[0] = 0
  BY <1>0 DEF Reads
<1>4. \A i \in 0..Len(chunk) : u[Len(s) + i] = f[i]
  <2> TAKE i \in 0..Len(chunk)
  <2>1. /\ Len(s) + i \in 0..Len(sc) /\ Len(s) + i - Len(s) = i
        /\ Len(s) + i <= Len(s) <=> i = 0
    BY <1>0
  <2>2. f[0] = st[Len(s)] /\ Len(s) + 0 = Len(s)
    BY <1>0 DEF Decoding
  <2>3. CASE i = 0
    BY <2>1, <2>2, <2>3
  <2>4. CASE i # 0
    BY <2>1, <2>4
  <2> QED
    BY <2>3, <2>4
<1>5. \A i \in 1..Len(sc) : u[i] = AfterByte(u[i - 1], sc[i])
  <2> TAKE i \in 1..Len(sc)
  <2>1. CASE i <= Len(s)
    <3>1. i \in 1..Len(s) /\ i \in 0..Len(sc) /\ i - 1 \in 0..Len(sc) /\ i - 1 <= Len(s)
      BY <1>0, <2>1
    <3>2. u[i] = st[i] /\ u[i - 1] = st[i - 1]
      BY <2>1, <3>1
    <3> HIDE DEF u
    <3> QED
      BY <1>0, <3>1, <3>2 DEF Reads
  <2>2. CASE ~ (i <= Len(s))
    <3>1. PICK j : j = i - Len(s)
      OBVIOUS
    <3>2. /\ j \in 1..Len(chunk) /\ j \in 0..Len(chunk) /\ j - 1 \in 0..Len(chunk)
          /\ Len(s) + j = i /\ Len(s) + (j - 1) = i - 1
      BY <1>0, <2>2, <3>1
    <3>3. u[i] = f[j] /\ u[i - 1] = f[j - 1] /\ sc[i] = chunk[j]
      <4> HIDE DEF u
      <4> QED
        BY <1>0, <1>4, <3>2
    <3> HIDE DEF u
    <3>4. f[j] = DecoderStep(f[j - 1], chunk[j]) /\ f[j - 1] \in 0..3
      BY <1>1, <3>2 DEF Decoding
    <3>5. f[j] = AfterByte(f[j - 1], chunk[j])
      BY <3>4 DEF DecoderStep
    <3> QED
      BY <3>3, <3>5
  <2> QED
    BY <2>1, <2>2
<1>6. u[Len(sc)] = f[Len(chunk)]
  <2>1. Len(chunk) \in 0..Len(chunk)
    BY <1>0
  <2> HIDE DEF u
  <2>2. u[Len(s) + Len(chunk)] = f[Len(chunk)]
    BY <1>4, <2>1
  <2> QED
    BY <1>0, <2>2
<1> HIDE DEF u
<1>7. Reads(u, sc)
  BY <1>2, <1>3, <1>5 DEF Reads
<1>8. f[Len(chunk)] \in 0..3
  BY <1>0, <1>1
<1> QED
  BY <1>6, <1>7, <1>8 DEF ReadsTo

\* What is read as a whole is read as far as its start, and the chunk behind it
\* goes through the decoder.
LEMMA ReadsEach ==
  ASSUME NEW s, NEW chunk, NEW sc, Joins(sc, s, chunk),
         NEW u, Reads(u, sc)
  PROVE  /\ ReadsTo(s, u[Len(s)])
         /\ \A f : Decoding(f, chunk, u[Len(s)]) => f[Len(chunk)] # -1
<1>0. /\ s \in Seq(Byte) /\ chunk \in Seq(Byte) /\ sc \in Seq(Byte)
      /\ Len(s) \in Nat /\ Len(chunk) \in Nat /\ Len(sc) = Len(s) + Len(chunk)
      /\ \A i \in 1..Len(s) : sc[i] = s[i]
      /\ \A i \in 1..Len(chunk) : sc[Len(s) + i] = chunk[i]
  BY ByteSeq DEF Joins
<1>1. ReadsTo(s, u[Len(s)])
  <2> DEFINE st == [i \in 0..Len(s) |-> u[i]]
  <2>1. st \in [0..Len(s) -> 0..3] /\ st[0] = 0
    BY <1>0 DEF Reads
  <2>2. \A i \in 1..Len(s) : st[i] = AfterByte(st[i - 1], s[i])
    <3> TAKE i \in 1..Len(s)
    <3>1. i \in 1..Len(sc) /\ i \in 0..Len(s) /\ i - 1 \in 0..Len(s)
      BY <1>0
    <3>2. u[i] = AfterByte(u[i - 1], sc[i]) /\ sc[i] = s[i]
      BY <1>0, <3>1 DEF Reads
    <3> QED
      BY <3>1, <3>2
  <2>3. st[Len(s)] = u[Len(s)]
    BY <1>0
  <2> HIDE DEF st
  <2> QED
    BY <2>1, <2>2, <2>3 DEF Reads, ReadsTo
<1>2. ASSUME NEW f, Decoding(f, chunk, u[Len(s)])
      PROVE  f[Len(chunk)] # -1
  <2> DEFINE T == {i \in 0..Len(chunk) : f[i] # u[Len(s) + i]}
  <2>1. ASSUME T # {}
        PROVE  FALSE
    <3>1. PICK i \in T : \A l \in T : i <= l
      <4>1. T \in SUBSET Nat
        BY <1>0
      <4> HIDE DEF T
      <4> QED
        BY <2>1, <4>1, NatLeast
    <3>2. i \in 0..Len(chunk) /\ f[i] # u[Len(s) + i]
      OBVIOUS
    <3>3. i # 0
      <4>1. f[0] = u[Len(s)] /\ Len(s) + 0 = Len(s)
        BY <1>0, <1>2 DEF Decoding
      <4> QED
        BY <3>2, <4>1
    <3>4. i \in 1..Len(chunk) /\ i - 1 \in 0..Len(chunk) /\ ~ (i <= i - 1)
      BY <1>0, <3>2, <3>3
    <3>5. f[i - 1] = u[Len(s) + (i - 1)]
      BY <3>1, <3>4
    <3>6. PICK j : j = Len(s) + i
      OBVIOUS
    <3>7. j \in 1..Len(sc) /\ j - 1 \in 0..Len(sc) /\ Len(s) + (i - 1) = j - 1
      BY <1>0, <3>4, <3>6
    <3>8. u[j] = AfterByte(u[j - 1], sc[j]) /\ u[j - 1] \in 0..3
      BY <3>7 DEF Reads
    <3>9. f[i] = DecoderStep(f[i - 1], chunk[i]) /\ sc[j] = chunk[i]
      BY <1>0, <1>2, <3>4, <3>6 DEF Decoding
    <3>10. f[i - 1] = u[j - 1] /\ f[i - 1] # -1
      BY <3>5, <3>7, <3>8
    <3>11. f[i] = AfterByte(u[j - 1], sc[j])
      BY <3>9, <3>10 DEF DecoderStep
    <3> QED
      BY <3>2, <3>6, <3>8, <3>11
  <2>2. Len(chunk) \in 0..Len(chunk) /\ Len(s) + Len(chunk) \in 0..Len(sc)
    BY <1>0
  <2>3. f[Len(chunk)] = u[Len(s) + Len(chunk)]
    BY <2>1, <2>2
  <2>4. u[Len(s) + Len(chunk)] \in 0..3
    BY <2>2 DEF Reads
  <2> QED
    BY <2>3, <2>4
<1> QED
  BY <1>1, <1>2

\* What the result holds of a stream.
SavedInv ==
  /\ saved.encoding \in {"none", "utf-8", "binary"}
  /\ saved.in \in {"none", "inline", "blob"}
  /\ saved.encoding = "utf-8" =>
       valid /\ saved.content \in Seq(Byte) /\ IsWhole(saved.content)
  /\ saved.encoding = "binary" => ~valid
  /\ TailTold

\* The state of the decoder is that of a decoder that reads all of the stream at
\* once, and the tail is the end of the stream.
DrainInv ==
  /\ Drops(tail, sent, Beyond(Len(sent), HardCap))
  /\ valid => ReadsTo(sent, needs)
  /\ ~valid => \A st : ~ Reads(st, sent)
  /\ tries = 0 /\ saved = NotSaved

\* After the end of the stream: the tail of a text begins with a character.
TextTail ==
  /\ IsWhole(tail)
  /\ \E m \in 0..3 : /\ Drops(tail, sent, Beyond(Len(sent), HardCap) + m)
                     /\ Len(sent) <= HardCap => m = 0

BuildInv ==
  /\ valid <=> IsWhole(sent)
  /\ valid => TextTail
  /\ ~valid => Drops(tail, sent, Beyond(Len(sent), HardCap))

CaptureTypes ==
  /\ sent \in Seq(Byte) /\ tail \in Seq(Byte)
  /\ stage \in {"drain", "build", "done"}
  /\ needs \in 0..3 /\ valid \in BOOLEAN /\ tries \in 0..BlobAttempts

CaptureInv ==
  /\ CaptureTypes
  /\ stage = "drain" => DrainInv
  /\ stage # "drain" => BuildInv
  /\ stage = "build" => saved = NotSaved /\ (tries > 0 => NeedsBlob)
  /\ stage = "done" => SavedInv

LEMMA Caps ==
  /\ HardCap \in Nat /\ InlineCap \in Nat /\ BlobAttempts \in Nat
  /\ HardCap >= 1 /\ InlineCap >= 1 /\ BlobAttempts >= 1 /\ InlineCap <= HardCap
<1>1. HardCap \in Nat \ {0} /\ InlineCap \in Nat \ {0} /\ BlobAttempts \in Nat \ {0}
  BY CaptureAssumption
<1> QED
  BY <1>1, CaptureAssumption

LEMMA CaptureInvInit == CaptureInit => CaptureInv
<1> SUFFICES ASSUME CaptureInit
             PROVE  CaptureInv
  OBVIOUS
<1>1. /\ sent = <<>> /\ tail = <<>> /\ stage = "drain" /\ needs = 0 /\ valid = TRUE
      /\ tries = 0 /\ saved = NotSaved
  BY DEF CaptureInit
<1>2. sent \in Seq(Byte) /\ tail \in Seq(Byte) /\ Len(sent) = 0 /\ tail = sent
  BY <1>1, EmptySeq
<1>3. CaptureTypes
  <2>1. tries \in 0..BlobAttempts
    BY <1>1, Caps
  <2>2. needs \in 0..3 /\ valid \in BOOLEAN
    BY <1>1
  <2> QED
    BY <1>1, <1>2, <2>1, <2>2 DEF CaptureTypes
<1>4. Drops(tail, sent, Beyond(Len(sent), HardCap))
  <2>1. Beyond(Len(sent), HardCap) = 0
    BY <1>2, Caps DEF Beyond
  <2> QED
    BY <1>2, <2>1, DropsNone
<1>5. ReadsTo(sent, needs)
  <2> DEFINE st == [i \in 0..0 |-> 0]
  <2>1. st \in [0..0 -> 0..3] /\ st[0] = 0
    OBVIOUS
  <2> HIDE DEF st
  <2>2. Reads(st, sent)
    BY <1>2, <2>1 DEF Reads
  <2> QED
    BY <1>1, <1>2, <2>1, <2>2 DEF ReadsTo
<1>6. DrainInv
  BY <1>1, <1>4, <1>5 DEF DrainInv
<1> QED
  BY <1>1, <1>3, <1>6 DEF CaptureInv

\* A chunk behind what has been read: either the decoder meets an error in it, and
\* the whole cannot be read, or both are read.
LEMMA ReadsChunk ==
  ASSUME NEW s, NEW chunk, NEW sc, Joins(sc, s, chunk), NEW n, ReadsTo(s, n),
         NEW f, Decoding(f, chunk, n)
  PROVE  /\ f[Len(chunk)] = -1 => \A u : ~ Reads(u, sc)
         /\ f[Len(chunk)] # -1 => f[Len(chunk)] \in 0..3 /\ ReadsTo(sc, f[Len(chunk)])
<1>0. /\ s \in Seq(Byte) /\ Len(s) \in Nat /\ Len(sc) \in Nat /\ Len(s) <= Len(sc)
      /\ \A i \in 1..Len(s) : s[i] = sc[i]
  BY ByteSeq DEF Joins
<1>1. PICK st : Reads(st, s) /\ st[Len(s)] = n
  BY DEF ReadsTo
<1>2. Decoding(f, chunk, st[Len(s)])
  BY <1>1, Zenon
<1>3. ASSUME NEW u, Reads(u, sc)
      PROVE  f[Len(chunk)] # -1
  <2>1. PICK m \in Nat : m = Len(s)
    BY <1>0
  <2>2. m \in Nat /\ m <= Len(s) /\ m <= Len(sc) /\ \A i \in 1..m : s[i] = sc[i]
    BY <1>0, <2>1
  <2>3. Len(s) \in Nat /\ Len(sc) \in Nat
    BY <1>0
  <2>4. \A i \in 0..m : st[i] = u[i]
    BY <1>1, <1>3, <2>2, <2>3, ReadsOnce
  <2>5. m \in 0..m
    BY <2>2
  <2>6. st[Len(s)] = u[Len(s)]
    BY <2>1, <2>4, <2>5, Zenon
  <2>7. Decoding(f, chunk, u[Len(s)])
    BY <1>2, <2>6, Zenon
  <2>8. \A g : Decoding(g, chunk, u[Len(s)]) => g[Len(chunk)] # -1
    BY <1>3, ReadsEach
  <2> QED
    BY <2>7, <2>8
<1>4. ASSUME f[Len(chunk)] # -1
      PROVE  f[Len(chunk)] \in 0..3 /\ ReadsTo(sc, f[Len(chunk)])
  BY <1>1, <1>2, <1>4, ReadsBoth
<1> QED
  BY <1>3, <1>4

LEMMA CaptureReadChunk ==
  ASSUME CaptureInv, ReadChunk
  PROVE  CaptureInv'
<1>1. /\ stage = "drain" /\ stage' = "drain" /\ tries' = tries /\ saved' = saved
      /\ DrainInv /\ sent \in Seq(Byte) /\ needs \in 0..3 /\ valid \in BOOLEAN
      /\ tail \in Seq(Byte) /\ tries \in 0..BlobAttempts
  BY DEF ReadChunk, CaptureInv, CaptureTypes
<1>2. PICK n \in 1..MaxChunk : \E chunk \in [1..n -> Byte] :
        /\ sent' = sent \o chunk
        /\ tail' = Last(tail \o chunk, HardCap)
        /\ IF valid
           THEN /\ valid' = (Decoded(chunk) # -1)
                /\ needs' = IF valid' THEN Decoded(chunk) ELSE 0
           ELSE UNCHANGED <<valid, needs>>
  BY DEF ReadChunk
<1>3. PICK chunk \in [1..n -> Byte] :
        /\ sent' = sent \o chunk
        /\ tail' = Last(tail \o chunk, HardCap)
        /\ IF valid
           THEN /\ valid' = (Decoded(chunk) # -1)
                /\ needs' = IF valid' THEN Decoded(chunk) ELSE 0
           ELSE UNCHANGED <<valid, needs>>
  BY <1>2
<1>4. chunk \in Seq(Byte) /\ n \in Nat
  <2>1. n \in Nat
    OBVIOUS
  <2> QED
    BY <2>1, SeqDef
<1>5. /\ sent' \in Seq(Byte) /\ Len(sent') = Len(sent) + Len(chunk)
      /\ Drops(tail', sent', Beyond(Len(sent'), HardCap))
  <2>1. /\ sent \o chunk \in Seq(Byte) /\ Len(sent \o chunk) = Len(sent) + Len(chunk)
        /\ Drops(Last(tail \o chunk, HardCap), sent \o chunk,
                 Beyond(Len(sent \o chunk), HardCap))
    BY <1>1, <1>4, Caps, TailFollows DEF DrainInv
  <2> QED
    BY <1>3, <2>1, Zenon
<1>6. /\ \A i \in 1..Len(sent) : sent'[i] = sent[i]
      /\ \A i \in 1..Len(chunk) : sent'[Len(sent) + i] = chunk[i]
  <2>1. Len(sent) \in Nat /\ Len(chunk) \in Nat
    BY <1>1, <1>4, ByteSeq
  <2>2. \A i \in 1..(Len(sent) + Len(chunk)) :
          (sent \o chunk)[i] = IF i <= Len(sent) THEN sent[i] ELSE chunk[i - Len(sent)]
    BY <1>1, <1>4, ConcatProperties
  <2>3. \A i \in 1..(Len(sent) + Len(chunk)) :
          sent'[i] = IF i <= Len(sent) THEN sent[i] ELSE chunk[i - Len(sent)]
    BY <1>3, <2>2, Zenon
  <2>4. \A i \in 1..Len(sent) : i \in 1..(Len(sent) + Len(chunk)) /\ i <= Len(sent)
    BY <2>1
  <2>5. \A i \in 1..Len(chunk) :
          /\ Len(sent) + i \in 1..(Len(sent) + Len(chunk))
          /\ ~ (Len(sent) + i <= Len(sent)) /\ Len(sent) + i - Len(sent) = i
    BY <2>1
  <2>6. \A i \in 1..Len(sent) : sent'[i] = sent[i]
    BY <2>3, <2>4
  <2>7. ASSUME NEW i \in 1..Len(chunk)
        PROVE  sent'[Len(sent) + i] = chunk[i]
    <3>1. PICK j : j = Len(sent) + i
      OBVIOUS
    <3>2. j \in 1..(Len(sent) + Len(chunk)) /\ ~ (j <= Len(sent)) /\ j - Len(sent) = i
      BY <2>5, <3>1
    <3>3. sent'[j] = chunk[i]
      BY <2>3, <3>2
    <3> QED
      BY <3>1, <3>3
  <2> QED
    BY <2>6, <2>7
<1>7. PICK sc : sc = sent'
  OBVIOUS
<1>8. Joins(sc, sent, chunk)
  BY <1>1, <1>4, <1>5, <1>6, <1>7 DEF Joins
<1>9. /\ valid' \in BOOLEAN /\ needs' \in 0..3
      /\ valid' => ReadsTo(sc, needs')
      /\ ~valid' => \A st : ~ Reads(st, sc)
  <2>1. CASE valid
    <3>1. ReadsTo(sent, needs)
      BY <1>1, <2>1 DEF DrainInv
    <3>2. PICK f : Decoding(f, chunk, needs) /\ Decoded(chunk) = f[Len(chunk)]
      BY <1>1, <1>4, DecodedIs
    <3>3. /\ f[Len(chunk)] = -1 => \A u : ~ Reads(u, sc)
          /\ f[Len(chunk)] # -1 => f[Len(chunk)] \in 0..3 /\ ReadsTo(sc, f[Len(chunk)])
      BY <1>8, <3>1, <3>2, ReadsChunk
    <3>4. CASE Decoded(chunk) = -1
      <4>1. valid' = FALSE /\ needs' = 0
        BY <1>3, <2>1, <3>4
      <4>2. f[Len(chunk)] = -1
        BY <3>2, <3>4, Zenon
      <4>3. \A u : ~ Reads(u, sc)
        BY <3>3, <4>2, Zenon
      <4>4. needs' \in 0..3
        BY <4>1
      <4>5. valid' \in BOOLEAN
        BY <4>1, Zenon
      <4> QED
        BY <4>1, <4>3, <4>4, <4>5, Zenon
    <3>5. CASE Decoded(chunk) # -1
      <4>1. valid' = TRUE /\ needs' = Decoded(chunk)
        BY <1>3, <2>1, <3>5
      <4> QED
        BY <3>2, <3>3, <3>5, <4>1
    <3> QED
      BY <3>4, <3>5
  <2>2. CASE ~valid
    <3>1. valid' = valid /\ needs' = needs
      BY <1>3, <2>2
    <3>2. ASSUME NEW u, Reads(u, sc)
          PROVE  FALSE
      <4>1. \E st : Reads(st, sent)
        BY <1>8, <3>2, ReadsEach DEF ReadsTo
      <4> QED
        BY <1>1, <2>2, <4>1 DEF DrainInv
    <3> QED
      BY <1>1, <2>2, <3>1, <3>2
  <2> QED
    BY <2>1, <2>2
<1>10. CaptureTypes'
  <2>1. tail' \in Seq(Byte)
    BY <1>5 DEF Drops
  <2> QED
    BY <1>1, <1>5, <1>9, <2>1 DEF CaptureTypes
<1>11. DrainInv'
  <2>1. /\ valid' => ReadsTo(sent', needs')
        /\ ~valid' => \A st : ~ Reads(st, sent')
    BY <1>7, <1>9
  <2>2. tries' = 0 /\ saved' = NotSaved
    BY <1>1 DEF DrainInv
  <2> QED
    BY <1>5, <2>1, <2>2, Zenon DEF DrainInv
<1> QED
  BY <1>1, <1>10, <1>11 DEF CaptureInv

LEMMA CaptureEof ==
  ASSUME CaptureInv, Eof
  PROVE  CaptureInv'
<1>1. /\ stage = "drain" /\ stage' = "build" /\ DrainInv
      /\ valid' = (valid /\ needs = 0)
      /\ tail' = IF valid' THEN Aligned(tail) ELSE tail
      /\ UNCHANGED <<sent, needs, tries, saved>>
      /\ sent \in Seq(Byte) /\ needs \in 0..3 /\ valid \in BOOLEAN
      /\ tail \in Seq(Byte) /\ tries \in 0..BlobAttempts
  BY DEF Eof, CaptureInv, CaptureTypes
<1>2. Len(sent) \in Nat /\ Drops(tail, sent, Beyond(Len(sent), HardCap))
  BY <1>1, ByteSeq DEF DrainInv
<1>3. valid' <=> IsWhole(sent)
  <2>1. CASE valid
    <3>1. PICK st : Reads(st, sent) /\ st[Len(sent)] = needs
      BY <1>1, <2>1 DEF DrainInv, ReadsTo
    <3>2. \A u : Reads(u, sent) => u[Len(sent)] = needs
      <4>1. ASSUME NEW u, Reads(u, sent)
            PROVE  u[Len(sent)] = needs
        <5>1. \A i \in 0..Len(sent) : u[i] = st[i]
          BY <1>2, <3>1, <4>1, ReadsOnce
        <5> QED
          BY <1>2, <3>1, <5>1
      <4> QED
        BY <4>1
    <3>3. needs = 0 <=> IsWhole(sent)
      BY <3>1, <3>2 DEF IsWhole
    <3> QED
      BY <1>1, <2>1, <3>3
  <2>2. CASE ~valid
    BY <1>1, <2>2 DEF DrainInv, IsWhole
  <2> QED
    BY <2>1, <2>2
<1>4. CASE valid'
  <2>1. IsWhole(sent) /\ tail' = Aligned(tail)
    BY <1>1, <1>3, <1>4
  <2> DEFINE k == Beyond(Len(sent), HardCap)
  <2>2. PICK m \in 0..3 : /\ Drops(Aligned(tail), tail, m) /\ IsWhole(Aligned(tail))
                          /\ k = 0 => m = 0
    BY <1>1, <1>2, <2>1, AlignedIsWhole
  <2>3. Drops(Aligned(tail), sent, k + m)
    BY <1>1, <1>2, <2>2, DropsTwice
  <2>4. Len(sent) <= HardCap => m = 0
    BY <2>2 DEF Beyond
  <2> HIDE DEF k
  <2>5. IsWhole(tail') /\ Drops(tail', sent', k + m) /\ Len(sent') = Len(sent)
    BY <1>1, <2>1, <2>2, <2>3, Zenon
  <2>6. TextTail'
    <3>1. k = Beyond(Len(sent'), HardCap)
      BY <1>1 DEF k
    <3> QED
      BY <2>4, <2>5, <3>1 DEF TextTail
  <2>7. tail' \in Seq(Byte)
    BY <2>5 DEF Drops
  <2>8. BuildInv'
    BY <1>1, <1>3, <1>4, <2>6 DEF BuildInv
  <2> QED
    BY <1>1, <2>7, <2>8, Caps DEF CaptureInv, CaptureTypes, DrainInv
<1>5. CASE ~valid'
  <2>1. tail' = tail /\ Drops(tail', sent', Beyond(Len(sent'), HardCap))
    BY <1>1, <1>2, <1>5
  <2>2. BuildInv'
    BY <1>1, <1>3, <1>5, <2>1 DEF BuildInv
  <2> QED
    BY <1>1, <2>1, <2>2, Caps DEF CaptureInv, CaptureTypes, DrainInv
<1> QED
  BY <1>4, <1>5

\* The end of a stream, by its length.
LEMMA EndOfStream ==
  ASSUME NEW s \in Seq(Byte), NEW c, NEW k, Drops(c, s, k),
         NEW cap \in Nat, k <= Beyond(Len(s), cap) + 3
  PROVE  /\ c = SubSeq(s, Len(s) - Len(c) + 1, Len(s))
         /\ Len(c) >= (IF Len(s) < cap THEN Len(s) ELSE cap) - 3
         /\ Len(c) < Len(s) <=> k > 0
<1>1. /\ Len(s) \in Nat /\ k \in 0..Len(s) /\ Len(c) = Len(s) - k
  BY ByteSeq DEF Drops
<1>2. c = SubSeq(s, k + 1, Len(s))
  <2>1. PICK t : t = SubSeq(s, k + 1, Len(s))
    OBVIOUS
  <2>2. Drops(t, s, k)
    BY <1>1, <2>1, SubSeqDrops
  <2>3. c = t
    BY <2>2, DropsOnly
  <2> QED
    BY <2>1, <2>3, Zenon
<1>3. Len(s) - Len(c) + 1 = k + 1
  BY <1>1
<1>4. c = SubSeq(s, Len(s) - Len(c) + 1, Len(s))
  BY <1>2, <1>3, Zenon
<1>5. /\ Len(c) >= (IF Len(s) < cap THEN Len(s) ELSE cap) - 3
      /\ Len(c) < Len(s) <=> k > 0
  BY <1>1 DEF Beyond
<1> QED
  BY <1>4, <1>5

LEMMA SameAnswer ==
  ASSUME NEW b \in BOOLEAN, NEW m \in Int, NEW n \in Int, b <=> m < n
  PROVE  b = (m < n)
OBVIOUS

\* The cap that a stream was saved under.
CapNow == IF tries = BlobAttempts THEN InlineCap ELSE HardCap

\* What is saved is the end of the stream, and the rest is told.
Tells(content, truncated) ==
  /\ truncated \in BOOLEAN
  /\ \E k : /\ Drops(content, sent, k) /\ k <= Beyond(Len(sent), CapNow) + 3
            /\ truncated <=> k > 0

LEMMA CaptureSaves ==
  ASSUME CaptureInv, stage = "build",
         NEW encoding \in {"none", "utf-8", "binary"},
         NEW in \in {"none", "inline", "blob"}, NEW content, NEW truncated,
         Save(encoding, in, content, truncated),
         encoding = "utf-8" => valid /\ content \in Seq(Byte) /\ IsWhole(content),
         encoding = "binary" => ~valid,
         in # "none" => Tells(content, truncated)
  PROVE  CaptureInv'
<1>1. /\ stage' = "done" /\ UNCHANGED <<sent, tail, needs, valid, tries>>
      /\ saved' = [encoding |-> encoding, in |-> in, content |-> content,
                   truncated |-> truncated]
  BY DEF Save
<1>2. /\ saved'.encoding = encoding /\ saved'.in = in /\ saved'.content = content
      /\ saved'.truncated = truncated
  BY <1>1
<1>3. CaptureTypes /\ BuildInv /\ sent \in Seq(Byte) /\ CapNow \in Nat
  BY Caps DEF CaptureInv, CaptureTypes, CapNow
<1>4. CaptureTypes'
  BY <1>1, <1>3 DEF CaptureTypes
<1>5. BuildInv'
  BY <1>1, <1>3 DEF BuildInv, TextTail
<1>6. ASSUME in # "none"
      PROVE  /\ content = SubSeq(sent, Len(sent) - Len(content) + 1, Len(sent))
             /\ Len(content) >= (IF Len(sent) < CapNow THEN Len(sent) ELSE CapNow) - 3
             /\ truncated \in BOOLEAN
             /\ truncated <=> Len(content) < Len(sent)
  <2>1. PICK k : /\ Drops(content, sent, k) /\ k <= Beyond(Len(sent), CapNow) + 3
                 /\ truncated <=> k > 0
    BY <1>6 DEF Tells
  <2>2. /\ content = SubSeq(sent, Len(sent) - Len(content) + 1, Len(sent))
        /\ Len(content) >= (IF Len(sent) < CapNow THEN Len(sent) ELSE CapNow) - 3
        /\ Len(content) < Len(sent) <=> k > 0
    BY <1>3, <2>1, EndOfStream
  <2>3. truncated \in BOOLEAN
    BY <1>6 DEF Tells
  <2> QED
    BY <2>1, <2>2, <2>3, Zenon
<1>7. SavedIsTail'
  <2> SUFFICES ASSUME in # "none"
               PROVE  /\ saved'.content = SubSeq(sent', Len(sent') - Len(saved'.content) + 1,
                                                 Len(sent'))
                      /\ Len(saved'.content) >= (IF Len(sent') < CapNow' THEN Len(sent')
                                                 ELSE CapNow') - 3
    BY <1>2, Zenon DEF SavedIsTail, CapNow
  <2>1. CapNow' = CapNow /\ sent' = sent
    BY <1>1 DEF CapNow
  <2> QED
    BY <1>2, <1>6, <2>1, Zenon
<1>8. TruncationTold'
  <2> SUFFICES ASSUME in # "none"
               PROVE  saved'.truncated = (Len(saved'.content) < Len(sent'))
    BY <1>2, Zenon DEF TruncationTold
  <2>1. truncated = (Len(content) < Len(sent))
    <3>1. Len(content) \in Int /\ Len(sent) \in Int
      <4>1. content \in Seq(Byte)
        BY <1>6 DEF Tells, Drops
      <4> QED
        BY <1>3, <4>1, ByteSeq
    <3> QED
      BY <1>6, <3>1, SameAnswer
  <2>2. sent' = sent
    BY <1>1
  <2> QED
    BY <1>2, <2>1, <2>2, Zenon
<1>9. SavedInv'
  BY <1>1, <1>2, <1>7, <1>8, Zenon DEF SavedInv, TailTold
<1> QED
  BY <1>1, <1>4, <1>5, <1>9, Zenon DEF CaptureInv

\* build_stream finds the tail as the end of the stream left it.
LEMMA ContentIsTail ==
  ASSUME CaptureInv, stage = "build"
  PROVE  /\ Content = tail /\ Len(tail) \in Nat
         /\ valid => IsWhole(tail)
         /\ \E k : /\ Drops(tail, sent, k) /\ k <= Beyond(Len(sent), HardCap) + 3
                   /\ Truncated <=> k > 0
<1>1. /\ BuildInv /\ sent \in Seq(Byte) /\ tail \in Seq(Byte) /\ Len(sent) \in Nat
      /\ Len(tail) \in Nat /\ HardCap \in Nat
  BY Caps, ByteSeq DEF CaptureInv, CaptureTypes
<1>2. PICK k : /\ Drops(tail, sent, k) /\ Beyond(Len(sent), HardCap) <= k
               /\ k <= Beyond(Len(sent), HardCap) + 3
               /\ Len(sent) <= HardCap => k = 0
  <2> DEFINE b == Beyond(Len(sent), HardCap)
  <2>1. b \in Nat /\ (Len(sent) <= HardCap => b = 0)
    BY <1>1 DEF Beyond
  <2> HIDE DEF b
  <2>2. CASE valid
    <3>1. PICK m \in 0..3 : Drops(tail, sent, b + m) /\ (Len(sent) <= HardCap => m = 0)
      BY <1>1, <2>2 DEF BuildInv, TextTail, b
    <3>2. b <= b + m /\ b + m <= b + 3 /\ (Len(sent) <= HardCap => b + m = 0)
      BY <2>1, <3>1
    <3> QED
      BY <3>1, <3>2 DEF b
  <2>3. CASE ~valid
    <3>1. Drops(tail, sent, b)
      BY <1>1, <2>3 DEF BuildInv, b
    <3>2. b <= b /\ b <= b + 3
      BY <2>1
    <3> QED
      BY <2>1, <3>1, <3>2 DEF b
  <2> QED
    BY <2>2, <2>3
<1>3. /\ k \in 0..Len(sent) /\ Len(tail) = Len(sent) - k
  BY <1>2 DEF Drops
<1>4. Len(tail) <= HardCap
  BY <1>1, <1>2, <1>3 DEF Beyond
<1>5. Truncated <=> k > 0
  BY <1>1, <1>2, <1>3 DEF Beyond, Truncated
<1>6. Last(tail, HardCap) = tail
  BY <1>4 DEF Last
<1>7. valid => IsWhole(tail)
  BY <1>1 DEF BuildInv, TextTail
<1>8. Content = tail
  BY <1>1, <1>6, <1>7, AlignedOnce, Zenon DEF Content
<1> QED
  BY <1>1, <1>2, <1>5, <1>7, <1>8

LEMMA CaptureBuild ==
  ASSUME CaptureInv, SaveInline \/ WriteBlob \/ BlobFails \/ Fallback \/ Lose
  PROVE  CaptureInv'
<1>1. /\ stage = "build" /\ sent \in Seq(Byte) /\ tail \in Seq(Byte)
      /\ tries \in 0..BlobAttempts /\ valid \in BOOLEAN
      /\ saved = NotSaved /\ (tries > 0 => NeedsBlob) /\ BuildInv /\ CaptureTypes
  BY DEF CaptureInv, CaptureTypes, SaveInline, WriteBlob, BlobFails, Fallback, Lose
<1>2. /\ Content = tail /\ Len(tail) \in Nat
      /\ valid => IsWhole(tail)
  BY <1>1, ContentIsTail
<1>3. ASSUME tries < BlobAttempts
      PROVE  Tells(Content, Truncated)
  <2>1. CapNow = HardCap
    BY <1>1, <1>3, Caps DEF CapNow
  <2>2. Truncated \in BOOLEAN
    BY DEF Truncated
  <2>3. PICK k : /\ Drops(tail, sent, k) /\ k <= Beyond(Len(sent), HardCap) + 3
                 /\ Truncated <=> k > 0
    BY <1>1, ContentIsTail
  <2>4. Drops(tail, sent, k) /\ k <= Beyond(Len(sent), CapNow) + 3
    BY <2>1, <2>3, Zenon
  <2>5. Tells(tail, Truncated)
    BY <2>2, <2>3, <2>4, Zenon DEF Tells
  <2> QED
    BY <1>2, <2>5, Zenon
<1>4. CASE SaveInline
  <2>1. /\ valid /\ Len(Content) <= InlineCap
        /\ Save("utf-8", "inline", Content, Truncated)
    BY <1>4 DEF SaveInline
  <2>2. tries < BlobAttempts
    <3>1. tries = 0
      BY <1>1, <1>2, <2>1, Caps DEF NeedsBlob
    <3> QED
      BY <3>1, Caps
  <2>3. Tells(Content, Truncated)
    BY <1>3, <2>2
  <2>4. valid /\ Content \in Seq(Byte) /\ IsWhole(Content)
    BY <1>1, <1>2, <2>1, Zenon
  <2> QED
    BY <1>1, <2>1, <2>3, <2>4, CaptureSaves
<1>5. CASE WriteBlob
  <2>1. Tells(Content, Truncated)
    BY <1>3, <1>5 DEF WriteBlob
  <2>2. valid => Content \in Seq(Byte) /\ IsWhole(Content)
    BY <1>1, <1>2, Zenon
  <2>3. CASE valid
    <3>1. Save("utf-8", "blob", Content, Truncated)
      BY <1>5, <2>3 DEF WriteBlob
    <3> QED
      BY <1>1, <2>1, <2>2, <2>3, <3>1, CaptureSaves
  <2>4. CASE ~valid
    <3>1. Save("binary", "blob", Content, Truncated)
      BY <1>5, <2>4 DEF WriteBlob
    <3> QED
      BY <1>1, <2>1, <2>4, <3>1, CaptureSaves
  <2> QED
    BY <2>3, <2>4
<1>6. CASE BlobFails
  <2>1. /\ NeedsBlob /\ tries < BlobAttempts /\ tries' = tries + 1
        /\ UNCHANGED <<sent, stage, tail, needs, valid, saved>>
    BY <1>6 DEF BlobFails
  <2>2. CaptureTypes'
    BY <1>1, <2>1, Caps DEF CaptureTypes
  <2>3. BuildInv'
    BY <1>1, <2>1 DEF BuildInv, TextTail
  <2>4. NeedsBlob'
    BY <2>1 DEF NeedsBlob, Content
  <2> QED
    BY <1>1, <2>1, <2>2, <2>3, <2>4 DEF CaptureInv
<1>7. CASE Fallback
  <2>1. /\ NeedsBlob /\ tries = BlobAttempts /\ valid
        /\ Save("utf-8", "inline", Aligned(Last(tail, InlineCap)), TRUE)
    BY <1>2, <1>7, Zenon DEF Fallback, FallbackIsTruncated
  <2>2. IsWhole(tail) /\ Len(tail) > InlineCap
    BY <1>2, <2>1 DEF NeedsBlob
  <2> DEFINE b == Beyond(Len(tail), InlineCap)
             c == Aligned(Last(tail, InlineCap))
  <2>3. Drops(Last(tail, InlineCap), tail, b)
    BY <1>1, Caps, LastDrops
  <2>4. PICK m \in 0..3 : Drops(c, tail, m + b) /\ IsWhole(c)
    <3>1. PICK m \in 0..3 : Drops(c, Last(tail, InlineCap), m) /\ IsWhole(c)
      BY <1>1, <2>2, <2>3, AlignedIsWhole
    <3>2. Drops(c, tail, b + m)
      BY <1>1, <2>3, <3>1, DropsTwice
    <3>3. b \in Int
      BY <1>2, Caps DEF Beyond
    <3>4. b + m = m + b
      BY <3>3
    <3> HIDE DEF b, c
    <3> QED
      BY <3>1, <3>2, <3>4, Zenon
  <2>5. PICK k : Drops(tail, sent, k)
    BY <1>1, ContentIsTail
  <2>6. Drops(c, sent, k + (m + b))
    BY <1>1, <2>4, <2>5, DropsTwice
  <2>7. /\ k \in 0..Len(sent) /\ Len(tail) = Len(sent) - k /\ Len(sent) \in Nat
    BY <1>1, <2>5, ByteSeq DEF Drops
  <2>8. b = Len(tail) - InlineCap
    BY <1>2, <2>2, Caps DEF Beyond
  <2> HIDE DEF b, c
  <2>9. CapNow = InlineCap
    BY <2>1 DEF CapNow
  <2>10. k + (m + b) <= Beyond(Len(sent), CapNow) + 3 /\ k + (m + b) > 0
    BY <2>2, <2>4, <2>7, <2>8, <2>9, Caps DEF Beyond
  <2>11. Tells(c, TRUE)
    <3>1. TRUE \in BOOLEAN
      OBVIOUS
    <3> QED
      BY <2>6, <2>10, <3>1, Zenon DEF Tells
  <2>12. c \in Seq(Byte) /\ Save("utf-8", "inline", c, TRUE)
    BY <2>1, <2>4 DEF Drops, c
  <2> QED
    BY <1>1, <2>1, <2>4, <2>11, <2>12, CaptureSaves
<1>8. CASE Lose
  <2>1. Save("none", "none", <<>>, Truncated)
    BY <1>8 DEF Lose
  <2> QED
    BY <1>1, <2>1, CaptureSaves
<1> QED
  BY <1>4, <1>5, <1>6, <1>7, <1>8

LEMMA CaptureInvStep == CaptureInv /\ [CaptureNext]_captureVars => CaptureInv'
<1> SUFFICES ASSUME CaptureInv, [CaptureNext]_captureVars
             PROVE  CaptureInv'
  OBVIOUS
<1>1. CASE ReadChunk
  BY <1>1, CaptureReadChunk
<1>2. CASE Eof
  BY <1>2, CaptureEof
<1>3. CASE SaveInline \/ WriteBlob \/ BlobFails \/ Fallback \/ Lose
  BY <1>3, CaptureBuild
<1>4. CASE UNCHANGED captureVars
  BY <1>4
  DEF captureVars, CaptureInv, CaptureTypes, DrainInv, BuildInv, TextTail, SavedInv,
      TailTold, SavedIsTail, TruncationTold, NeedsBlob, Content
<1> QED
  BY <1>1, <1>2, <1>3, <1>4 DEF CaptureNext

\* The capture of a stream keeps this: what the decoder knows of the chunks is what
\* a decoder knows that reads all of the stream at once, and the tail is its end.
THEOREM CaptureInvariant == CaptureSpec => []CaptureInv
  BY CaptureInvInit, CaptureInvStep, PTL DEF CaptureSpec

\* The tail never exceeds the cap, and the failed blob writes never their budget.
THEOREM CaptureWellFormed == CaptureSpec => []CaptureTypeOK
<1>1. CaptureInv => CaptureTypeOK
  <2> SUFFICES ASSUME CaptureInv
               PROVE  CaptureTypeOK
    OBVIOUS
  <2>1. CaptureTypes
    BY DEF CaptureInv
  <2>2. Len(tail) <= HardCap
    <3>1. \E k : Drops(tail, sent, k) /\ k >= Beyond(Len(sent), HardCap)
      <4>1. Beyond(Len(sent), HardCap) \in Int
        BY <2>1, Caps, ByteSeq DEF CaptureTypes, Beyond
      <4>2. CASE Drops(tail, sent, Beyond(Len(sent), HardCap))
        BY <4>1, <4>2
      <4>3. CASE TextTail
        <5>1. PICK m \in 0..3 : Drops(tail, sent, Beyond(Len(sent), HardCap) + m)
          BY <4>3 DEF TextTail
        <5>2. Beyond(Len(sent), HardCap) + m >= Beyond(Len(sent), HardCap)
          BY <4>1, <5>1
        <5> QED
          BY <5>1, <5>2
      <4> QED
        BY <4>2, <4>3 DEF CaptureInv, DrainInv, BuildInv
    <3>2. PICK k : Drops(tail, sent, k) /\ k >= Beyond(Len(sent), HardCap)
      BY <3>1
    <3>3. k \in 0..Len(sent) /\ Len(tail) = Len(sent) - k /\ Len(sent) \in Nat
      BY <2>1, <3>2, ByteSeq DEF Drops, CaptureTypes
    <3> QED
      BY <3>2, <3>3, Caps DEF Beyond
  <2>3. /\ saved.encoding \in {"none", "utf-8", "binary"}
        /\ saved.in \in {"none", "inline", "blob"}
    BY <2>1 DEF CaptureInv, DrainInv, SavedInv, NotSaved, CaptureTypes
  <2> QED
    BY <2>1, <2>2, <2>3 DEF CaptureTypes, CaptureTypeOK
<1> QED
  BY <1>1, CaptureInvariant, PTL

\* What is saved of a stream is its end, as much as the cap allows but for at most
\* three bytes of a cut character, and the result says whether something is missing
\* (TailTold).
THEOREM EndIsTold == CaptureSpec => []TailTold
<1>1. CaptureInv => TailTold
  <2>1. CASE stage = "done"
    BY <2>1 DEF CaptureInv, SavedInv
  <2>2. CASE stage # "done"
    BY <2>2 DEF TailTold, SavedIsTail, TruncationTold
  <2> QED
    BY <2>1, <2>2
<1> QED
  BY <1>1, CaptureInvariant, PTL

\* However the chunks cut the stream, it is text in the result exactly if all of it
\* is text, and what is saved as text decodes (EncodingRight).
THEOREM EncodingIsRight == CaptureSpec => []EncodingRight
<1>1. CaptureInv => EncodingRight
  <2> SUFFICES ASSUME CaptureInv
               PROVE  EncodingRight
    OBVIOUS
  <2>1. CaptureTypes /\ sent \in Seq(Byte)
    BY DEF CaptureInv, CaptureTypes
  <2>2. CASE saved.encoding = "none"
    BY <2>2 DEF EncodingRight, EncodingOfWhole, SavedTextDecodes
  <2>3. CASE saved.encoding # "none"
    <3>1. stage = "done"
      BY <2>1, <2>3 DEF CaptureInv, CaptureTypes, DrainInv, NotSaved
    <3>2. SavedInv /\ BuildInv
      BY <3>1 DEF CaptureInv
    <3>3. IsText(sent) <=> valid
      BY <2>1, <3>2, TextIsWhole DEF BuildInv
    <3>4. saved.encoding = "utf-8" <=> valid
      BY <2>3, <3>2 DEF SavedInv
    <3>5. (saved.encoding = "utf-8") = IsText(sent)
      <4>1. IsText(sent) \in BOOLEAN
        BY <2>1, TextIsWhole
      <4> QED
        BY <3>3, <3>4, <4>1, Zenon
    <3>6. saved.encoding = "utf-8" => IsText(saved.content)
      BY <3>2, TextIsWhole DEF SavedInv
    <3> QED
      BY <3>5, <3>6 DEF EncodingRight, EncodingOfWhole, SavedTextDecodes
  <2> QED
    BY <2>2, <2>3
<1> QED
  BY <1>1, CaptureInvariant, PTL

------------------------------------------------------------------------------
\* The three parts side by side.

\* The parts of the level below the orchestrator have their types (SessionTypes).
THEOREM SessionPartsWellFormed == MCSpec => []SessionTypes
<1>1. MCInit => SessionInit /\ CaptureInit /\ ContractInit
  BY DEF MCInit
<1>2. [MCNext]_MCVars => /\ [SessionNext]_sessionVars
                        /\ [CaptureNext]_captureVars
                        /\ [ContractNext]_contractVars
  BY DEF MCNext, MCVars, SessionStep, CaptureStep, ContractStep
<1>3. MCSpec => SessionSpec /\ CaptureSpec /\ ContractSpec
  BY <1>1, <1>2, PTL DEF MCSpec, SessionSpec, CaptureSpec, ContractSpec
<1>4. SessionTypeOK /\ CaptureTypeOK /\ ContractTypeOK => SessionTypes
  BY DEF SessionTypes
<1> QED
  BY <1>3, <1>4, SessionWellFormed, CaptureWellFormed, ContractWellFormed, PTL
==============================================================================
