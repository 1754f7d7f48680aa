------------------------------- MODULE MCClocks -------------------------------
(***************************************************************************)
(* The three components that live by a clock, for TLC: the lease of a run, *)
(* the rate limiter, and the generator of ids.                             *)
(*                                                                         *)
(* They are checked side by side: a behaviour picks one part and leaves    *)
(* the variables of the others alone, so that the state spaces add up and  *)
(* do not multiply.                                                        *)
(***************************************************************************)
EXTENDS Lease, Throttle, Uuid7

VARIABLE part

MCVars == <<part, leaseVars, throttleVars, uuidVars>>

\* The reading that the system clock starts with varies in its own part only.
MCInit ==
  /\ part \in {"lease", "throttle", "uuid"}
  /\ LeaseInit
  /\ ThrottleInit
  /\ UuidInit /\ (part # "uuid" => clock = 1)

LeaseStep ==
  /\ part = "lease"
  /\ LeaseNext
  /\ UNCHANGED <<part, throttleVars, uuidVars>>

ThrottleStep ==
  /\ part = "throttle"
  /\ ThrottleNext
  /\ UNCHANGED <<part, leaseVars, uuidVars>>

UuidStep ==
  /\ part = "uuid"
  /\ UuidNext
  /\ UNCHANGED <<part, leaseVars, throttleVars>>

MCNext == LeaseStep \/ ThrottleStep \/ UuidStep

MCSpec == MCInit /\ [][MCNext]_MCVars

\* The types of the three parts, and the ids stay near the clock.
ClockTypes == LeaseTypeOK /\ ThrottleTypeOK /\ UuidTypeOK /\ LittleAhead
==============================================================================
