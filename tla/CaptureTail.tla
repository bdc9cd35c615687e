----------------------------- MODULE CaptureTail -----------------------------
(***************************************************************************)
(* captureWriter of cmd/thin passes a response on to the client chunk by   *)
(* chunk and keeps its last responseTailBytes bytes; when the response is  *)
(* over, usage.ExtractCacheHit looks there for the provider's count of     *)
(* cached prompt tokens.  How the response is cut into chunks is up to the *)
(* network.                                                                *)
(*                                                                         *)
(* Bytes are numbers 0..9 for digits and other values for everything else. *)
(* The two keys are short sequences of such bytes; what matters of the     *)
(* keys in the code is that neither occurs within the other.               *)
(***************************************************************************)
EXTENDS Integers, SequencesExt

CONSTANTS
  Bytes,              \* the bytes of responses
  Spaces,             \* those that may stand between a key and its number
  OpenAIKey,          \* "cached_tokens":
  AnthropicKey,       \* "cache_read_input_tokens":
  ResponseTailBytes,  \* responseTailBytes, 8192 in the code
  MaxBody             \* bound: length of a response body

Digits == 0 .. 9

ASSUME TailAssumption ==
  /\ ResponseTailBytes \in Nat \ {0}
  /\ MaxBody \in Nat
  /\ Spaces \subseteq Bytes \ Digits
  /\ OpenAIKey \in Seq(Bytes) \ {<<>>}
  /\ AnthropicKey \in Seq(Bytes) \ {<<>>}

VARIABLES
  status,     \* captureWriter.status, 0 before the first write
  bodyBytes,  \* captureWriter.bodyBytes
  tail,       \* captureWriter.tail
  hit,        \* the outcome of ExtractCacheHit once the response is over
  body        \* history: everything written so far

vars == <<status, bodyBytes, tail, hit, body>>

NoSignal == [n |-> 0, ok |-> FALSE]
Pending == [n |-> -1, ok |-> FALSE]

------------------------------------------------------------------------------
(* usage.                                                                  *)

Occurs(bytes, key, at) ==
  /\ at + Len(key) - 1 <= Len(bytes)
  /\ SubSeq(bytes, at, at + Len(key) - 1) = key

Occurrences(bytes, key) == {at \in 1 .. Len(bytes) : Occurs(bytes, key, at)}

\* The value of a sequence of digits.
Value(digits) == FoldLeft(LAMBDA n, d : 10 * n + d, 0, digits)

\* The digits that follow position at, after spaces.
NumberAfter(bytes, at) ==
  LET start == at + Cardinality({i \in at .. Len(bytes) :
                   \A j \in at .. i : bytes[j] \in Spaces})
      stop == start + Cardinality({i \in start .. Len(bytes) :
                   \A j \in start .. i : bytes[j] \in Digits})
  IN  SubSeq(bytes, start, stop - 1)

\* Variant: the first occurrence.
ScanIntAfterFirst(bytes, key) ==
  IF Occurrences(bytes, key) = {} THEN NoSignal
  ELSE LET digits == NumberAfter(bytes, Min(Occurrences(bytes, key)) + Len(key))
       IN  IF digits = <<>> THEN NoSignal ELSE [n |-> Value(digits), ok |-> TRUE]

\* The last occurrence of the key and the number after it, if there is one.
ScanIntAfter(bytes, key) ==
  IF Occurrences(bytes, key) = {} THEN NoSignal
  ELSE LET digits == NumberAfter(bytes, Max(Occurrences(bytes, key)) + Len(key))
       IN  IF digits = <<>> THEN NoSignal ELSE [n |-> Value(digits), ok |-> TRUE]

\* Variant: OpenAI's key is enough, with or without a number.
ExtractByKey(bytes) ==
  IF Occurrences(bytes, OpenAIKey) # {} THEN ScanIntAfter(bytes, OpenAIKey)
  ELSE ScanIntAfter(bytes, AnthropicKey)

ExtractCacheHit(bytes) ==
  IF ScanIntAfter(bytes, OpenAIKey).ok THEN ScanIntAfter(bytes, OpenAIKey)
  ELSE ScanIntAfter(bytes, AnthropicKey)

------------------------------------------------------------------------------
(* captureWriter.                                                          *)

Init ==
  /\ status = 0
  /\ bodyBytes = 0
  /\ tail = <<>>
  /\ hit = Pending
  /\ body = <<>>

LastBytes(bytes, n) == SubSeq(bytes, Len(bytes) - n + 1, Len(bytes))

\* The reverse proxy announces a status before the body, and may have announced an
\* informational one before that.  The last one is kept.
WriteHeader(code) ==
  /\ hit = Pending /\ body = <<>>
  /\ status' = code
  /\ UNCHANGED <<bodyBytes, tail, hit, body>>

\* Variants: the window is cut at the wrong end; a large chunk is kept whole.
SlideTailHead(chunk) ==
  IF Len(chunk) >= ResponseTailBytes THEN LastBytes(chunk, ResponseTailBytes)
  ELSE IF Len(tail \o chunk) > ResponseTailBytes
         THEN SubSeq(tail \o chunk, 1, ResponseTailBytes)
         ELSE tail \o chunk

SlideTailWhole(chunk) ==
  IF Len(chunk) >= ResponseTailBytes THEN chunk
  ELSE IF Len(tail \o chunk) > ResponseTailBytes
         THEN LastBytes(tail \o chunk, ResponseTailBytes)
         ELSE tail \o chunk

\* A chunk that fills the window replaces it; a shorter one is appended, and what
\* is too much is dropped from the front.
SlideTail(chunk) ==
  IF Len(chunk) >= ResponseTailBytes THEN LastBytes(chunk, ResponseTailBytes)
  ELSE IF Len(tail \o chunk) > ResponseTailBytes
         THEN LastBytes(tail \o chunk, ResponseTailBytes)
         ELSE tail \o chunk

Write(chunk) ==
  /\ hit = Pending
  /\ status' = IF status = 0 THEN 200 ELSE status
  /\ bodyBytes' = bodyBytes + Len(chunk)
  /\ tail' = SlideTail(chunk)
  /\ body' = body \o chunk
  /\ UNCHANGED hit

\* The response is over: the handler looks at the tail.
Extract ==
  /\ hit = Pending
  /\ hit' = ExtractCacheHit(tail)
  /\ UNCHANGED <<status, bodyBytes, tail, body>>

Chunks == UNION {[1 .. n -> Bytes] : n \in 1 .. MaxBody - Len(body)}

Codes == {103, 200, 502}

Over == hit # Pending /\ UNCHANGED vars

Next ==
  \/ \E code \in Codes : WriteHeader(code)
  \/ \E chunk \in Chunks : Write(chunk)
  \/ Extract
  \/ Over

Spec == Init /\ [][Next]_vars

------------------------------------------------------------------------------
(* Properties.                                                             *)

TypeOK ==
  /\ status \in {0} \cup Codes
  /\ body \in Seq(Bytes) /\ tail \in Seq(Bytes)
  /\ Len(tail) <= ResponseTailBytes
  /\ bodyBytes = Len(body)
  /\ hit = Pending \/ hit \in [n : Nat, ok : BOOLEAN]

Lesser(m, n) == IF m <= n THEN m ELSE n

\* However the response was cut into chunks, the tail is its end: all of it while
\* it fits the window, and its last responseTailBytes bytes from then on.
TailIsSuffix == tail = LastBytes(body, Lesser(Len(body), ResponseTailBytes))

\* A hit is never made up from a piece of a key or of a number: the count read from
\* the tail is the one that stands after the last occurrence of a key in the body.
HitIsGenuine ==
  hit.ok => \E key \in {OpenAIKey, AnthropicKey} : ScanIntAfter(body, key) = hit

\* Where in the body the last occurrence of a key starts, if a number follows it.
LastCount(key) ==
  IF ScanIntAfter(body, key).ok THEN Max(Occurrences(body, key)) ELSE 0

LateKeys ==
  {key \in {OpenAIKey, AnthropicKey} :
     LastCount(key) > 0 /\ LastCount(key) > Len(body) - ResponseTailBytes}

\* A count whose key lies wholly in the last responseTailBytes bytes is found, whatever
\* the chunks, and whatever there is of the other key; if both have one, one of the two.
LateCountIsSeen ==
  hit # Pending /\ LateKeys # {} => \E key \in LateKeys : hit = ScanIntAfter(body, key)

==============================================================================
