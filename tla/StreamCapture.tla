---------------------------- MODULE StreamCapture ----------------------------
(***************************************************************************)
(* One stream of a remote script on its way into the result: _drain reads  *)
(* it chunk by chunk, keeps the tail and checks the encoding of all of it; *)
(* build_stream then saves the tail inline or as a blob.                   *)
(*                                                                         *)
(* Abstractions.  A byte is what it is to UTF-8: a whole character, the    *)
(* lead of a character of two or of four bytes, a continuation, or none of *)
(* these.  The caps are a few bytes instead of up to a megabyte.           *)
(***************************************************************************)
EXTENDS Integers, Sequences

CONSTANTS HardCap,       \* STREAM_HARD_CAP
          InlineCap,     \* the inline cap of this stream
          BlobAttempts,  \* _BLOB_WRITE_ATTEMPTS
          MaxBytes,      \* bound: length of the stream
          MaxChunk       \* bound: bytes that one read returns

ASSUME CaptureAssumption ==
  /\ {HardCap, InlineCap, BlobAttempts, MaxBytes, MaxChunk} \subseteq Nat \ {0}
  /\ InlineCap <= HardCap

VARIABLES
  sent,     \* what the script has written so far, all of it
  stage,
  tail,     \* what is kept
  needs,    \* continuation bytes that the decoder waits for
  valid,    \* the decoder has met no error
  tries,    \* blob writes that failed
  saved     \* the stream of the result

captureVars == <<sent, stage, tail, needs, valid, tries, saved>>

Byte == {"char", "lead2", "lead4", "cont", "bad"}

NotSaved == [encoding |-> "none", in |-> "none", content |-> <<>>,
             truncated |-> FALSE]

CaptureInit ==
  /\ sent = <<>> /\ tail = <<>>
  /\ stage = "drain"
  /\ needs = 0 /\ valid = TRUE
  /\ tries = 0
  /\ saved = NotSaved

\* Mutant: the head is kept.
FirstOf(s, n) == IF Len(s) <= n THEN s ELSE SubSeq(s, 1, n)

\* Mutant: one byte too many is kept.
LastAndOne(s, n) ==
  IF Len(s) <= n THEN s ELSE SubSeq(s, Len(s) - n, Len(s))

Last(s, n) == IF Len(s) <= n THEN s ELSE SubSeq(s, Len(s) - n + 1, Len(s))

\* Mutant: at most two continuation bytes are dropped.
AlignedTwo(s) ==
  LET n == CHOOSE i \in 0..2 :
             /\ \A j \in 1..i : j <= Len(s) /\ s[j] = "cont"
             /\ i = 2 \/ i = Len(s) \/ s[i + 1] # "cont"
  IN SubSeq(s, n + 1, Len(s))

\* align_utf8_tail: up to three leading continuation bytes are dropped.
Aligned(s) ==
  LET n == CHOOSE i \in 0..3 :
             /\ \A j \in 1..i : j <= Len(s) /\ s[j] = "cont"
             /\ i = 3 \/ i = Len(s) \/ s[i + 1] # "cont"
  IN SubSeq(s, n + 1, Len(s))

------------------------------------------------------------------------------
\* _drain

\* The incremental decoder: how many continuation bytes it needs after a byte,
\* or -1 for an error.
AfterByte(n, byte) ==
  CASE n > 0 /\ byte = "cont" -> n - 1
    [] n = 0 /\ byte = "char" -> 0
    [] n = 0 /\ byte = "lead2" -> 1
    [] n = 0 /\ byte = "lead4" -> 3
    [] OTHER -> -1

\* Mutant: the decoder starts afresh with every chunk.
StartOfChunk == 0

StateOfDecoder == needs

\* A chunk through the decoder.
Decoded(chunk) ==
  LET state[i \in 0..Len(chunk)] ==
        IF i = 0 THEN StateOfDecoder
        ELSE IF state[i - 1] = -1 THEN -1 ELSE AfterByte(state[i - 1], chunk[i])
  IN state[Len(chunk)]

ReadChunk ==
  /\ stage = "drain"
  /\ \E n \in 1..MaxChunk : \E chunk \in [1..n -> Byte] :
       /\ Len(sent) + n <= MaxBytes
       /\ sent' = sent \o chunk
       /\ tail' = Last(tail \o chunk, HardCap)
       /\ IF valid
          THEN /\ valid' = (Decoded(chunk) # -1)
               /\ needs' = IF valid' THEN Decoded(chunk) ELSE 0
          ELSE UNCHANGED <<valid, needs>>
  /\ UNCHANGED <<stage, tries, saved>>

\* The final decode, and the alignment of a tail that is known to be UTF-8.
Eof ==
  /\ stage = "drain"
  /\ stage' = "build"
  /\ valid' = (valid /\ needs = 0)
  /\ tail' = IF valid' THEN Aligned(tail) ELSE tail
  /\ UNCHANGED <<sent, needs, tries, saved>>

------------------------------------------------------------------------------
\* build_stream

Truncated == Len(sent) > HardCap

\* build_stream aligns once more, which changes nothing.
Content == IF valid THEN Aligned(Last(tail, HardCap)) ELSE Last(tail, HardCap)

Save(encoding, in, content, truncated) ==
  /\ stage' = "done"
  /\ saved' = [encoding |-> encoding, in |-> in, content |-> content,
               truncated |-> truncated]
  /\ UNCHANGED <<sent, tail, needs, valid, tries>>

SaveInline ==
  /\ stage = "build"
  /\ valid /\ Len(Content) <= InlineCap
  /\ Save("utf-8", "inline", Content, Truncated)

NeedsBlob == ~valid \/ Len(Content) > InlineCap

WriteBlob ==
  /\ stage = "build"
  /\ NeedsBlob /\ tries < BlobAttempts
  /\ Save(IF valid THEN "utf-8" ELSE "binary", "blob", Content, Truncated)

BlobFails ==
  /\ stage = "build"
  /\ NeedsBlob /\ tries < BlobAttempts
  /\ tries' = tries + 1
  /\ UNCHANGED <<sent, stage, tail, needs, valid, saved>>

\* Mutant: only the hard cap counts as truncation.
FallbackTruncated == Truncated

FallbackIsTruncated == TRUE

\* A text falls back to what fits inline.
Fallback ==
  /\ stage = "build"
  /\ NeedsBlob /\ tries = BlobAttempts /\ valid
  /\ Save("utf-8", "inline", Aligned(Last(Content, InlineCap)),
          FallbackIsTruncated)

\* What is no text and cannot be stored is lost; the result is FAILED.
Lose ==
  /\ stage = "build"
  /\ NeedsBlob /\ tries = BlobAttempts /\ ~valid
  /\ Save("none", "none", <<>>, Truncated)

CaptureNext ==
  \/ ReadChunk
  \/ Eof
  \/ SaveInline
  \/ WriteBlob
  \/ BlobFails
  \/ Fallback
  \/ Lose

CaptureSpec == CaptureInit /\ [][CaptureNext]_captureVars

------------------------------------------------------------------------------
\* Correctness.

\* The text that a sequence of bytes is, read off its end without a decoder:
\* it can be cut into whole characters.
IsText(s) ==
  LET Chars == {<<"char">>, <<"lead2", "cont">>,
                <<"lead4", "cont", "cont", "cont">>}
      from[i \in 1..(Len(s) + 1)] ==
        \/ i = Len(s) + 1
        \/ \E c \in Chars :
             /\ i + Len(c) - 1 <= Len(s)
             /\ SubSeq(s, i, i + Len(c) - 1) = c
             /\ from[i + Len(c)]
  IN from[1]

\* The tail never exceeds the cap, the tries their budget.
CaptureTypeOK ==
  /\ sent \in Seq(Byte) /\ tail \in Seq(Byte) /\ Len(tail) <= HardCap
  /\ stage \in {"drain", "build", "done"}
  /\ needs \in 0..3 /\ valid \in BOOLEAN /\ tries \in 0..BlobAttempts
  /\ saved.encoding \in {"none", "utf-8", "binary"}
  /\ saved.in \in {"none", "inline", "blob"}

\* Whatever the chunks, a stream is text in the result exactly if all of it is
\* text: neither the cut of the tail nor a chunk boundary inside a character
\* turns text into binary, or hides what came before the tail.
EncodingOfWhole ==
  saved.encoding # "none" => (saved.encoding = "utf-8") = IsText(sent)

\* What is saved as text decodes: neither cap leaves half a character.
SavedTextDecodes == saved.encoding = "utf-8" => IsText(saved.content)

\* What is saved is the end of the stream, as much of it as the cap allows but
\* for at most three bytes of a character that was cut.
SavedIsTail ==
  stage = "done" /\ saved.in # "none" =>
    LET kept == Len(saved.content)
        cap  == IF tries = BlobAttempts THEN InlineCap ELSE HardCap
    IN /\ saved.content = SubSeq(sent, Len(sent) - kept + 1, Len(sent))
       /\ kept >= (IF Len(sent) < cap THEN Len(sent) ELSE cap) - 3

\* A result says that its stream is truncated exactly if something is missing.
TruncationTold ==
  stage = "done" /\ saved.in # "none" =>
    saved.truncated = (Len(saved.content) < Len(sent))

\* The encoding of a result is that of the whole stream, and what is saved of it
\* has that encoding.
EncodingRight == EncodingOfWhole /\ SavedTextDecodes

\* What is saved is the end of the stream, and the result says what is missing.
TailTold == SavedIsTail /\ TruncationTold
==============================================================================
