------------------------------ MODULE MCSession ------------------------------
(***************************************************************************)
(* What happens to one node below the orchestrator, for TLC: the attempts  *)
(* over SSH, the capture of a stream, and the envelope of the result.      *)
(*                                                                         *)
(* The three are checked side by side: a behaviour picks one part and      *)
(* leaves the variables of the others alone, so that the state spaces add  *)
(* up and do not multiply.                                                 *)
(***************************************************************************)
EXTENDS SshSession, StreamCapture, ResultContract

MCExitCodes == {-1, 0, 1, 3, 256}

VARIABLE part

MCVars == <<part, sessionVars, captureVars, contractVars>>

MCInit ==
  /\ part \in {"session", "capture", "contract"}
  /\ SessionInit
  /\ CaptureInit
  /\ ContractInit

SessionStep ==
  /\ part = "session"
  /\ SessionNext
  /\ UNCHANGED <<part, captureVars, contractVars>>

CaptureStep ==
  /\ part = "capture"
  /\ CaptureNext
  /\ UNCHANGED <<part, sessionVars, contractVars>>

ContractStep ==
  /\ part = "contract"
  /\ ContractNext
  /\ UNCHANGED <<part, sessionVars, captureVars>>

MCNext == SessionStep \/ CaptureStep \/ ContractStep

MCSpec == MCInit /\ [][MCNext]_MCVars /\ SessionFairness

\* The types of the three parts.
SessionTypes == SessionTypeOK /\ CaptureTypeOK /\ ContractTypeOK
==============================================================================
