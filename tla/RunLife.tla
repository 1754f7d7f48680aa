------------------------------- MODULE RunLife -------------------------------
(***************************************************************************)
(* What the life of one run looks like to everybody who reads its row:     *)
(* it is created once, started once, changes hands only after the lease of *)
(* its owner has lapsed, and ends once, by the hand of an owner whose      *)
(* lease is live, together with its exit code.                             *)
(***************************************************************************)
EXTENDS Naturals

CONSTANTS Owner, NoOwner

VARIABLES status, owner, live, exit

lifeVars == <<status, owner, live, exit>>

Ended  == {"SUCCESS", "DEGRADED"}
NoExit == 99

\* A row that is not there yet has the status NONE.
Init == /\ status \in {"NONE", "QUEUED"}
        /\ owner = NoOwner
        /\ live = FALSE
        /\ exit = NoExit

Create ==
  /\ status = "NONE"
  /\ status' = "QUEUED"
  /\ UNCHANGED <<owner, live, exit>>

Start ==
  /\ status = "QUEUED"
  /\ status' = "RUNNING"
  /\ owner' \in Owner
  /\ live' = TRUE
  /\ UNCHANGED exit

Lapse ==
  /\ status = "RUNNING" /\ live
  /\ live' = FALSE
  /\ UNCHANGED <<status, owner, exit>>

TakeOver ==
  /\ status = "RUNNING" /\ ~live
  /\ owner' \in Owner
  /\ live' = TRUE
  /\ UNCHANGED <<status, exit>>

\* Only a batch that is a success in both respects ends with exit code 0.
End ==
  /\ status = "RUNNING" /\ live
  /\ status' \in Ended
  /\ exit' \in IF status' = "SUCCESS" THEN {0, 1} ELSE {1}
  /\ UNCHANGED <<owner, live>>

Next == Create \/ Start \/ Lapse \/ TakeOver \/ End

Spec == Init /\ [][Next]_lifeVars
==============================================================================
