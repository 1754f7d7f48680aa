------------------------------ MODULE SshSession ------------------------------
(***************************************************************************)
(* The attempts of one node inside execute_script: connect, upload,        *)
(* verify, run under a timeout, reap, remove, close.  Every action is one  *)
(* await of the code that ends, in one of the ways it can end, or one step *)
(* of the host.                                                            *)
(*                                                                         *)
(* Abstractions.  Messages and streams are left out.  An open connection   *)
(* may go silent ("broken"): what is sent over it is lost, and the library *)
(* may or may not notice.  A script may ignore SIGTERM; a SIGKILL that     *)
(* reaches its host ends it.  A cancellation acts on the await the task is *)
(* in.                                                                     *)
(***************************************************************************)
EXTENDS ErrorMatrix

CONSTANT MaxCancels  \* bound: how often the task is cancelled

ASSUME SessionAssumption == MaxCancels \in Nat

VARIABLES
  att,      \* the attempt under way
  pc,       \* the await its task is in
  result,   \* what the attempt will return or raise
  cancels,  \* cancellations so far
  conn,     \* by attempt: its connection
  file,     \* by attempt: its script file on the host
  proc      \* by attempt: its script on the host

sessionVars == <<att, pc, result, cancels, conn, file, proc>>

Attempt == 1..AttemptCap

\* execute_script returns a class or an exit code, or raises.
NoResult == "none"

\* What a failed connect is mapped to.
ConnectErrors ==
  {"host_key_unknown", "host_key_mismatch", "auth_failed", "conn_timeout",
   "dns_failed", "conn_refused", "conn_reset", "network_unreachable",
   "unknown"}

\* What an error while the script runs is mapped to.
LinkErrors == {"conn_timeout", "conn_reset", "unknown"}

SessionInit ==
  /\ att = 1
  /\ pc = "check"
  /\ result = NoResult
  /\ cancels = 0
  /\ conn = [a \in Attempt |-> "none"]
  /\ file = [a \in Attempt |-> "none"]
  /\ proc = [a \in Attempt |-> "none"]

------------------------------------------------------------------------------
Open == conn[att] = "open"

Goto(next, res) == pc' = next /\ result' = res

\* The finally block is entered with this result.
CleanUp(res) == Goto("remove", res)

\* known_hosts and the credentials are looked at before anything is sent.
Check ==
  /\ pc = "check"
  /\ \/ Goto("connect", NoResult)
     \/ \E class \in {"host_key_unknown", "secret_resolution_failed"} :
          Goto("done", class)
  /\ UNCHANGED <<att, cancels, conn, file, proc>>

Connect ==
  /\ pc = "connect"
  /\ \/ /\ conn' = [conn EXCEPT ![att] = "open"]
        /\ Goto("upload", NoResult)
     \/ /\ \E class \in ConnectErrors : Goto("done", class)
        /\ UNCHANGED conn
  /\ UNCHANGED <<att, cancels, file, proc>>

\* What a transfer that does not end well may leave.
Uploaded == \E f \in {"none", "there"} : file' = [file EXCEPT ![att] = f]

\* Unreadable script, refused or interrupted transfer; the file may be there.
Upload ==
  /\ pc = "upload"
  /\ \/ Open /\ file' = [file EXCEPT ![att] = "there"] /\ Goto("verify", NoResult)
     \/ Uploaded /\ CleanUp("upload_failed")
  /\ UNCHANGED <<att, cancels, conn, proc>>

\* Mutant: an integrity failure returns at once.
MismatchReturns == Goto("done", "script_integrity_failed")

Mismatch == CleanUp("script_integrity_failed")

\* conn.run(sha256sum) stands outside every except clause.
Verify ==
  /\ pc = "verify"
  /\ \/ Open /\ Goto("start", NoResult)
     \/ Mismatch
     \/ CleanUp("raised")
  /\ UNCHANGED <<att, cancels, conn, file, proc>>

\* create_process: the host confirms, or the channel is refused.
Started ==
  /\ pc = "start"
  /\ \/ /\ Open
        /\ proc' = [proc EXCEPT ![att] = IF @ = "ended" THEN @ ELSE "running"]
        /\ Goto("run", NoResult)
     \/ /\ \E class \in LinkErrors : CleanUp(class)
        /\ UNCHANGED proc
  /\ UNCHANGED <<att, cancels, conn, file>>

\* The streams are drained and the process has been waited for.
Finished ==
  /\ pc = "run"
  /\ Open /\ proc[att] = "ended"
  /\ CleanUp("exit")
  /\ UNCHANGED <<att, cancels, conn, file, proc>>

\* SIGTERM is sent; whether the script obeys is up to it.
Reap(res) == Goto("term", res)

\* The library notices that the connection is gone.
LinkLost ==
  /\ pc = "run"
  /\ ~Open
  /\ \E class \in LinkErrors : Reap(class)
  /\ UNCHANGED <<att, cancels, conn, file, proc>>

\* wait_for gives up on _run_process: a script that is known to run is reaped.
ExecTimeout ==
  /\ \/ pc = "start" /\ CleanUp("exec_timeout")
     \/ pc = "run" /\ Reap("exec_timeout")
  /\ UNCHANGED <<att, cancels, conn, file, proc>>

\* proc.wait() returns to _reap_process.
Reaped ==
  /\ pc \in {"term", "kill"}
  /\ proc[att] = "ended" \/ ~Open
  /\ CleanUp(result)
  /\ UNCHANGED <<att, cancels, conn, file, proc>>

\* Mutant: no escalation after the first wait.
EscalateNot == CleanUp(result) /\ UNCHANGED proc

\* The first wait is over: SIGKILL.
Escalate ==
  /\ Goto("kill", result)
  /\ proc' = [proc EXCEPT ![att] = IF Open THEN "ended" ELSE @]

\* Mutant: the second wait has no limit.
WaitsOnce == {"term"}

\* The waits that _REAP_TIMEOUT_SEC limits.
Waits == {"term", "kill"}

ReapTimeout ==
  /\ pc \in Waits
  /\ \/ pc = "term" /\ Escalate
     \/ pc = "kill" /\ CleanUp(result) /\ UNCHANGED proc
  /\ UNCHANGED <<att, cancels, conn, file>>

\* Mutant: rm -f is sent and not awaited.
RemovalUnawaited == TRUE

\* The await of rm -f ends with the host's answer, or when the connection is
\* found to be gone.
RemovalOver == Open => file[att] # "there"

\* rm -f, its errors and its exit code ignored, and conn.close() without an
\* await between.
Remove ==
  /\ pc = "remove"
  /\ RemovalOver
  /\ conn' = [conn EXCEPT ![att] = IF Open THEN "closed" ELSE "lost"]
  /\ Goto("closing", result)
  /\ UNCHANGED <<att, cancels, file, proc>>

\* wait_closed, its errors ignored.
Closed ==
  /\ pc = "closing"
  /\ Goto("done", result)
  /\ UNCHANGED <<att, cancels, conn, file, proc>>

\* A mapped error is retried within the budget of the error matrix.
Retry ==
  /\ pc = "done"
  /\ result \in ErrorClass /\ ShouldRetry(result, att)
  /\ att' = att + 1
  /\ Goto("check", NoResult)
  /\ UNCHANGED <<cancels, conn, file, proc>>

------------------------------------------------------------------------------
\* Cancellation: the lease is lost, or the command is interrupted.

CanBeCancelled == pc # "done" /\ pc # "check" /\ cancels < MaxCancels

Cancel ==
  /\ CanBeCancelled
  /\ cancels' = cancels + 1
  /\ \/ pc = "connect" /\ Goto("done", "CancelledError") /\ UNCHANGED file
     \/ /\ pc = "upload"
        /\ Uploaded
        /\ CleanUp("CancelledError")
     \/ pc \in {"verify", "start"} /\ CleanUp("CancelledError") /\ UNCHANGED file
     \* _run_process reaps, unless the script has just ended.
     \/ pc = "run" /\ Reap("CancelledError") /\ UNCHANGED file
     \/ /\ pc = "run" /\ Open /\ proc[att] = "ended"
        /\ CleanUp("exit") /\ UNCHANGED file
     \* except Exception does not catch it: what is left of the reap is skipped,
     \* or, with wait_for of 3.10 and 3.11, goes on while the connection closes.
     \/ pc \in {"term", "kill"} /\ CleanUp("CancelledError") /\ UNCHANGED file
     \* In the finally block: what is left of it is skipped.
     \/ /\ pc \in {"remove", "closing"}
        /\ Goto("done", "CancelledError")
        /\ UNCHANGED file
  /\ UNCHANGED <<att, conn, proc>>

------------------------------------------------------------------------------
\* The host and the network.

\* The start request is carried out before its confirmation arrives.
StartsUnseen ==
  /\ pc = "start" /\ Open /\ proc[att] = "none"
  /\ proc' = [proc EXCEPT ![att] = "unseen"]
  /\ UNCHANGED <<att, pc, result, cancels, conn, file>>

\* The host is asked to remove the file: it does, or it refuses the channel or
\* rm fails, and the file is kept.
AnswersRemoval ==
  /\ pc = "remove" /\ Open /\ file[att] = "there"
  /\ \E f \in {"none", "kept"} : file' = [file EXCEPT ![att] = f]
  /\ UNCHANGED <<att, pc, result, cancels, conn, proc>>

ScriptEnds(a) ==
  /\ proc[a] \in {"unseen", "running"}
  /\ proc' = [proc EXCEPT ![a] = "ended"]
  /\ UNCHANGED <<att, pc, result, cancels, conn, file>>

Break ==
  /\ Open /\ pc # "done"
  /\ conn' = [conn EXCEPT ![att] = "broken"]
  /\ UNCHANGED <<att, pc, result, cancels, file, proc>>

SessionNext ==
  \/ Check
  \/ Connect
  \/ Upload
  \/ Verify
  \/ Started
  \/ Finished
  \/ LinkLost
  \/ ExecTimeout
  \/ Reaped
  \/ ReapTimeout
  \/ Remove
  \/ Closed
  \/ Retry
  \/ Cancel
  \/ StartsUnseen
  \/ AnswersRemoval
  \/ \E a \in Attempt : ScriptEnds(a)
  \/ Break

SessionSpec == SessionInit /\ [][SessionNext]_sessionVars

\* The two timers of the event loop; nothing is asked of host and network.
SessionFairness ==
  /\ WF_sessionVars(ExecTimeout)
  /\ WF_sessionVars(ReapTimeout)

------------------------------------------------------------------------------
\* Correctness.

\* The task, its connections, files and scripts have their types, and the
\* budget of the error matrix bounds the attempts.
SessionTypeOK ==
  /\ att \in Attempt
  /\ pc \in {"check", "connect", "upload", "verify", "start", "run", "term",
             "kill", "remove", "closing", "done"}
  /\ result \in ErrorClass \cup
                   {NoResult, "exit", "raised", "CancelledError"}
  /\ cancels \in 0..MaxCancels
  /\ conn \in [Attempt -> {"none", "open", "broken", "closed", "lost"}]
  /\ file \in [Attempt -> {"none", "there", "kept"}]
  /\ proc \in [Attempt -> {"none", "unseen", "running", "ended"}]

\* Attempts that have returned, on their own account.
Over(a) == a < att \/ (a = att /\ pc = "done" /\ result # "CancelledError")

\* "must not leave the remote script running after we leave": however an
\* attempt ended, its script is over when it returns, and so when the next
\* attempt runs, unless the connection went silent or the start of the script
\* was never confirmed.
OneScriptPerNode ==
  \A a \in Attempt : Over(a) /\ proc[a] = "running" => conn[a] = "lost"

\* "always remove the temp file and close the connection", as far as the code
\* carries it: however an attempt ended, its connection is closed when it
\* returns, and so when the next attempt runs, and a file is left only on a host
\* whose connection went silent or that was asked to remove it and did not.
CleanSlate ==
  \A a \in Attempt :
    Over(a) =>
      /\ conn[a] \in {"none", "closed", "lost"}
      /\ file[a] = "there" => conn[a] = "lost"

\* Whatever host and network do, the part of a call that is under the exec
\* timeout ends: an attempt does not hang in a running script or its reap.
ScriptPhaseEnds ==
  pc \in {"start", "run", "term", "kill"}
    ~> pc \notin {"start", "run", "term", "kill"}

\* However an attempt ended by itself, when it returns its connection is closed,
\* its file removed and its script over, but for what a silent connection, an
\* unconfirmed start or a refused removal leaves.
NothingLeft == CleanSlate /\ OneScriptPerNode
==============================================================================
