----------------------------- MODULE RunContract -----------------------------
(***************************************************************************)
(* What a batch run promises to whoever reads its result, with no word of  *)
(* processes, leases, attempts or crashes: every node gets at most one     *)
(* verdict and keeps it, and at most one report is published, after the    *)
(* last verdict, which counts every verdict exactly once.                  *)
(***************************************************************************)
EXTENDS ErrorMatrix, FiniteSets

CONSTANTS Node,
          NoReport   \* no summary published yet

VARIABLES verdict,   \* by node: Undecided, or the result and its error classes
          report     \* the published batch summary

Undecided == [status |-> "UNDECIDED", classes |-> {}]

Verdict == [status : {"SUCCEEDED", "FAILED"}, classes : SUBSET ErrorClass]

With(status) == {n \in Node : verdict[n].status = status}

\* The report that the verdicts determine.
Tally ==
  LET ok  == Cardinality(With("SUCCEEDED"))
      bad == Cardinality(With("FAILED"))
  IN [runStatus   |-> IF \E n \in Node : verdict[n].classes
                                           \cap DegradingClasses # {}
                      THEN "DEGRADED" ELSE "SUCCESS",
      batchStatus |-> CASE bad = 0            -> "success"
                        [] ok = 0 /\ bad > 0  -> "failed"
                        [] ok > 0 /\ bad > 0  -> "partial",
      targeted    |-> Cardinality(Node),
      succeeded   |-> ok,
      failed      |-> bad,
      unknown     |-> 0,
      errorCounts |-> [c \in ErrorClass |->
                        Cardinality({n \in Node : c \in verdict[n].classes})]]

Init == verdict = [n \in Node |-> Undecided] /\ report = NoReport

Decide(n) ==
  /\ verdict[n] = Undecided
  /\ report = NoReport
  /\ verdict'[n] \in Verdict
  /\ verdict' = [verdict EXCEPT ![n] = verdict'[n]]
  /\ UNCHANGED report

Publish ==
  /\ report = NoReport
  /\ \A n \in Node : verdict[n] # Undecided
  /\ report' = Tally
  /\ UNCHANGED verdict

Next == Publish \/ \E n \in Node : Decide(n)

Spec == Init /\ [][Next]_<<verdict, report>>
==============================================================================
