--------------------------- MODULE ExecutionResult ---------------------------
(***************************************************************************)
(* How the end of an attempt becomes a Contract-03 result: which status,   *)
(* which primary error and which secondary evidence.  A stream is          *)
(* abstracted to the four ways build_stream can end:                       *)
(*   "stored"   UTF-8, inline or in a blob                                 *)
(*   "binary"   not UTF-8, stored in a blob                                *)
(*   "fallback" UTF-8 over the inline cap whose blob write failed three    *)
(*              times: truncated inline                                    *)
(*   "lost"     not UTF-8 and the blob write failed three times            *)
(* Evidence is kept as a set of classes, since every consumer counts a     *)
(* class at most once per node.                                            *)
(***************************************************************************)
EXTENDS ErrorMatrix, FiniteSets

StreamKind == {"stored", "binary", "fallback", "lost"}

BlobFailed(kind) == kind \in {"fallback", "lost"}
Binary(kind)     == kind \in {"binary", "lost"}

\* The rest of the Contract-03 payload and what run_one keeps beside it.
Result == [status    : {"SUCCEEDED", "FAILED"},
           count     : 1..AttemptCap,
           class     : MaybeError,
           secondary : SUBSET ErrorClass,
           degraded  : BOOLEAN]

\* The evidence that is not the primary error itself: the filter is by
\* identity, so a second blob failure survives beside a promoted first one.
Secondary(class, out, err) ==
  LET someBlob == BlobFailed(out) \/ BlobFailed(err)
      bothBlob == BlobFailed(out) /\ BlobFailed(err)
      blob     == IF class = NoError THEN bothBlob ELSE someBlob
      decode   == /\ Binary(out) \/ Binary(err)
                  /\ class # NoError \/ someBlob
  IN (IF blob THEN {"blob_write_failed"} ELSE {})
       \cup (IF decode THEN {"output_decode_failed"} ELSE {})

\* Mutant: stream evidence wins over the caller's error.
PrimaryStreamFirst(class, out, err) ==
  IF BlobFailed(out) \/ BlobFailed(err) THEN "blob_write_failed"
  ELSE IF Binary(out) \/ Binary(err) THEN "output_decode_failed"
  ELSE class

\* The caller's error wins the single error slot; otherwise the strongest
\* stream evidence is promoted, blob before decode.
Primary(class, out, err) ==
  IF class # NoError THEN class
  ELSE IF BlobFailed(out) \/ BlobFailed(err) THEN "blob_write_failed"
  ELSE IF Binary(out) \/ Binary(err) THEN "output_decode_failed"
  ELSE NoError

BuildResult(status, class, seq, out, err) ==
  [status    |-> IF "lost" \in {out, err} THEN "FAILED" ELSE status,
   count     |-> seq,
   class     |-> Primary(class, out, err),
   secondary |-> Secondary(class, out, err),
   degraded  |-> {out, err} # {"stored"}]
==============================================================================
