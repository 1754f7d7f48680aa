---------------------------- MODULE ResultContract ----------------------------
(***************************************************************************)
(* Contract-03: the envelope that build_execution_result makes of the end  *)
(* of an attempt, and validate_execution_result, which judges it and those *)
(* of other producers.  What the validator refuses of its own program's    *)
(* results is raised and costs the node its result.                        *)
(*                                                                         *)
(* Abstractions.  Of a message only the length is kept, in units of        *)
(* MESSAGE_CAP; of flags and identifiers whether they are of the           *)
(* vocabulary.  A version is a major and a minor number.                   *)
(***************************************************************************)
EXTENDS ExecutionResult, Integers

CONSTANTS Expected,    \* expected_exit_codes of the resolved script
          ExitCodes,   \* that scripts end with; all integers
          NoExit,      \* a null exit code
          Clock,       \* readings of the wall clock, which may go back
          MaxMinor     \* bound: minor versions of other producers

ASSUME ContractAssumption ==
  /\ Expected \subseteq 0..255
  /\ ExitCodes \subseteq Int
  /\ NoExit \notin Int
  /\ Clock \subseteq Nat
  /\ MaxMinor \in Nat \ {0}

VARIABLES
  envelope,  \* what is judged; a set of none or one
  own        \* did this program build it?

contractVars == <<envelope, own>>

Status == {"SUCCEEDED", "FAILED", "UNKNOWN", "CANCELLED", "SKIPPED"}

Category(class) ==
  CASE class \in Transient -> "TRANSIENT"
    [] class \in Permanent -> "PERMANENT"
    [] class \in Security  -> "SECURITY"
    [] class \in Resource  -> "RESOURCE"
    [] class \in Data      -> "DATA"

Retryable(class) ==
  \/ class \in Transient
  \/ class \in Resource \ {"llm_unavailable"}
  \/ class \in {"llm_invalid_output", "db_write_failed", "outbox_write_failed"}

MessageCap == 2

\* Mutant: the message is kept as it came.
CutNot(length) == IF length = 0 THEN 1 ELSE length

\* error_dict: no message is replaced by the class, a long one is cut.
Cut(length) ==
  IF length = 0 THEN 1 ELSE IF length > MessageCap THEN MessageCap ELSE length

ErrorDict(class, length) ==
  [class |-> class, category |-> Category(class),
   retryable |-> Retryable(class), message |-> Cut(length)]

\* The error slot of the payload: none or one.
ErrorSlot(class, length) ==
  IF class = NoError THEN {} ELSE {ErrorDict(class, length)}

\* classify_exit
Classified(exit) ==
  IF exit \in Expected THEN [status |-> "SUCCEEDED", class |-> NoError]
                       ELSE [status |-> "FAILED", class |-> "exec_nonzero"]

\* Mutant: the difference as it is.
DurationSigned(started, finished) == finished - started

\* _iso_ms_delta: both are readings of the wall clock.
Duration(started, finished) ==
  IF finished < started THEN 0 ELSE finished - started

\* RESULT_SCHEMA_VERSION
OwnVersion == [major |-> 1, minor |-> 1]

Envelope(result, exit, length, duration) ==
  [version |-> OwnVersion, status |-> result.status, count |-> result.count,
   exit |-> exit, duration |-> duration, known |-> TRUE,
   error |-> ErrorSlot(result.class, length)]

------------------------------------------------------------------------------
\* The validator.

\* The JSON schema of Contract-03.
SchemaHolds(e) ==
  /\ e.known
  /\ e.status \in Status
  /\ e.count \in 0..AttemptCap
  /\ e.duration >= 0
  /\ \A err \in e.error :
       /\ err.class \in ErrorClass
       /\ err.category \in {"TRANSIENT", "RESOURCE", "PERMANENT", "SECURITY", "DATA"}
       /\ err.message \in 1..MessageCap
  /\ e.status = "FAILED" => e.error # {}
  /\ e.status = "SUCCEEDED" => e.exit # NoExit /\ e.exit \in 0..255

\* _check_error: the triple is that of the error matrix.
MatrixHolds(e) ==
  \A err \in e.error :
    /\ err.class \in ErrorClass
    /\ err.category = Category(err.class)
    /\ err.retryable = Retryable(err.class)

MajorSupported(version) == version.major = 1

\* Mutant: non-zero codes belong to 1.1 alone.
CodeAllowedExactly(version, exit) == exit = 0 \/ version.minor = 1

\* Non-zero success codes exist since 1.1.
CodeAllowed(version, exit) == exit = 0 \/ version.minor >= 1

\* validate_execution_result, in its order of early returns.
Accepts(e) ==
  /\ SchemaHolds(e)
  /\ MatrixHolds(e)
  /\ MajorSupported(e.version)
  /\ e.status = "SUCCEEDED" => CodeAllowed(e.version, e.exit) /\ e.exit \in Expected

------------------------------------------------------------------------------
\* Where envelopes come from.

ContractInit == envelope = {} /\ own = FALSE

\* A script answered.
BuildAnswered ==
  \E exit \in ExitCodes \cup {NoExit}, seq \in 1..AttemptCap,
     out, err \in StreamKind, started, finished \in Clock,
     length \in 0..(MessageCap + 1) :
    LET c == Classified(exit)
    IN /\ envelope' = {Envelope(BuildResult(c.status, c.class, seq, out, err),
                                exit, length, Duration(started, finished))}
       /\ own' = TRUE

\* No answer, or a result rebuilt from the last recorded error: no exit code
\* and empty streams.
BuildFailed ==
  \E class \in ErrorClass, seq \in 1..AttemptCap,
     started, finished \in Clock,
     length \in 0..(MessageCap + 1) :
    /\ envelope' = {Envelope(BuildResult("FAILED", class, seq, "stored", "stored"),
                             NoExit, length, Duration(started, finished))}
    /\ own' = TRUE

\* Another producer, of another version, right or wrong.
Receive ==
  \E version \in [major : 0..2, minor : 0..MaxMinor], status \in Status,
     count \in {0, AttemptCap, AttemptCap + 1},
     exit \in ExitCodes \cup {NoExit}, known \in BOOLEAN, duration \in {-1, 0},
     error \in {{}, {ErrorDict("exec_nonzero", 1)},
                {[ErrorDict("exec_nonzero", 1) EXCEPT !.retryable = TRUE]}} :
    /\ envelope' = {[version |-> version, status |-> status, count |-> count,
                     exit |-> exit, duration |-> duration, known |-> known,
                     error |-> error]}
    /\ own' = FALSE

ContractNext ==
  /\ envelope = {}
  /\ \/ BuildAnswered
     \/ BuildFailed
     \/ Receive

ContractSpec == ContractInit /\ [][ContractNext]_contractVars

------------------------------------------------------------------------------
\* Correctness.

\* An error slot holds at most one error, of the matrix, with a message.
ContractTypeOK ==
  /\ own \in BOOLEAN
  /\ \A e \in envelope :
       /\ e.status \in Status
       /\ e.count \in 0..(AttemptCap + 1)
       /\ \A err \in e.error :
            err.class \in ErrorClass /\ err.message \in 1..MessageCap

\* Whatever the script answers, whichever blob write fails, and however the
\* clock is set meanwhile: no result of this program is refused by its own
\* validator, which would raise after the hosts have been worked on.
BuiltIsAccepted == own => \A e \in envelope : Accepts(e)

\* "Higher compatible MINORs (e.g. 1.2.0) keep the 1.1.0 behaviour": what is
\* accepted stays accepted from a producer that is one minor version ahead.
NewerMinorAgrees ==
  \A e \in envelope :
    Accepts(e) => Accepts([e EXCEPT !.version.minor = @ + 1])

\* No good result is refused, neither the program's own nor that of a newer
\* compatible producer.
NoGoodResultRefused == BuiltIsAccepted /\ NewerMinorAgrees
==============================================================================
