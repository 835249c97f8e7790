------------------------------- MODULE LZCodec -------------------------------
(***************************************************************************)
(* lz_encode and lz_decode (lz_codec.cpp) around the parser. A token is    *)
(* coded as symbols: a literal or the match flag under the adaptive model  *)
(* of the byte before it, and for a match two numbers, each as the power   *)
(* of two below it (its bucket) and the rest. The adaptive models and the  *)
(* range coder are RangeCoder's: here the symbols arrive as they were      *)
(* coded, as long as both sides agree on the model.                        *)
(*                                                                         *)
(* The code parses everything, codes everything and then decodes; nothing  *)
(* flows back, so each token is coded and replayed here as it is pushed.   *)
(***************************************************************************)
EXTENDS LZMatcher

CONSTANT NumBuckets  \* kNumBuckets

\* u64(1) << b
PowerOfTwo[b \in 0 .. NumBuckets] == IF b = 0 THEN 1 ELSE 2 * PowerOfTwo[b - 1]

ASSUME BucketAssumption ==
  /\ NumBuckets \in Nat
  /\ WordSize < PowerOfTwo[NumBuckets]

VARIABLES
  encPos,   \* encode_tokens_payload: pos
  encCtx,   \* encode_tokens_payload: ctx
  coded,    \* the symbols of the token in flight
  decCtx,   \* lz_decode: ctx
  copy,     \* the match being copied: where it starts, how far it has got
  out,      \* lz_decode: result
  error     \* lz_decode threw

codecVars == <<encPos, encCtx, coded, decCtx, copy, out, error>>
vars == <<matcherVars, codecVars>>

NoCode == [sym |-> "none", ctx |-> 0, literal |-> 0,
           length |-> [bucket |-> 0, extra |-> 0], distance |-> [bucket |-> 0, extra |-> 0]]
NoCopy == [start |-> 0, done |-> 0, length |-> 0]

Init ==
  /\ MatcherInit
  /\ encPos = 0 /\ encCtx = 0
  /\ coded = NoCode
  /\ decCtx = 0
  /\ copy = NoCopy
  /\ out = <<>>
  /\ error = FALSE

\* bucket_encode, whose loop ends with the last power of two that is not above
\* v + 1. The extra value is written in as many bits as the bucket says.
IsBucket(b, v) == PowerOfTwo[b] <= v + 1 /\ v + 1 < PowerOfTwo[b + 1]
Bucketed(b, v) == [bucket |-> b, extra |-> v + 1 - PowerOfTwo[b]]

\* bucket_decode
Unbucket(c) == U32(PowerOfTwo[c.bucket] + c.extra - 1)

CodeMatch ==
  LET length == U32(token.length - MinMatch)
      distance == U32(token.distance - 1)
  IN  \E lb, db \in 0 .. NumBuckets - 1 :
        /\ IsBucket(lb, length)
        /\ IsBucket(db, distance)
        /\ coded' = [sym |-> "match", ctx |-> encCtx, literal |-> 0,
                     length |-> Bucketed(lb, length), distance |-> Bucketed(db, distance)]

\* Faulty variant: the context after a match is the byte behind it.
EncodeStaleContext ==
  /\ token.kind = "match" /\ coded = NoCode
  /\ CodeMatch
  /\ encPos' = encPos + token.length
  /\ UNCHANGED <<matcherVars, encCtx, decCtx, copy, out, error>>

EncodeLiteral ==
  /\ token.kind = "literal" /\ coded = NoCode
  /\ coded' = [NoCode EXCEPT !.sym = "literal", !.ctx = encCtx, !.literal = token.literal]
  /\ encPos' = encPos + 1
  /\ encCtx' = token.literal
  /\ UNCHANGED <<matcherVars, decCtx, copy, out, error>>

\* The context after a match is the last byte it covers.
EncodeMatch ==
  /\ token.kind = "match" /\ coded = NoCode
  /\ CodeMatch
  /\ encPos' = encPos + token.length
  /\ encCtx' = data[encPos']
  /\ UNCHANGED <<matcherVars, decCtx, copy, out, error>>

\* The decoder is done with what was in flight, and the parser goes on.
Accept == token' = NoToken /\ coded' = NoCode

DecodeLiteral ==
  /\ coded.sym = "literal"
  /\ out' = Append(out, coded.literal)
  /\ decCtx' = coded.literal
  /\ Accept
  /\ UNCHANGED <<data, pc, i, pend, chainVars, searchVars, k, encPos, encCtx, copy, error>>

\* A distance that reaches behind the start of the output makes lz_decode throw.
DecodeMatch ==
  /\ coded.sym = "match" /\ copy = NoCopy
  /\ ~error
  /\ LET length == U32(Unbucket(coded.length) + MinMatch)
         distance == U32(Unbucket(coded.distance) + 1)
     IN  IF distance > Len(out)
         THEN error' = TRUE /\ UNCHANGED copy
         ELSE /\ copy' = [start |-> Len(out) - distance, done |-> 0, length |-> length]
              /\ UNCHANGED error
  /\ UNCHANGED <<matcherVars, encPos, encCtx, coded, decCtx, out>>

\* One byte of a match, which may be a byte that the same match wrote; then the
\* end of the copy.
CopyByte ==
  /\ copy.length > 0
  /\ IF copy.done < copy.length
     THEN /\ out' = Append(out, out[copy.start + copy.done + 1])
          /\ copy' = [copy EXCEPT !.done = @ + 1]
          /\ UNCHANGED <<decCtx, token, coded>>
     ELSE /\ decCtx' = out[Len(out)]
          /\ copy' = NoCopy
          /\ Accept
          /\ UNCHANGED out
  /\ UNCHANGED <<data, pc, i, pend, chainVars, searchVars, k, encPos, encCtx, error>>

\* The input is coded and the output returned.
Finished == pc = "done" /\ token = NoToken /\ UNCHANGED vars

Next ==
  \/ Parse /\ UNCHANGED codecVars
  \/ EncodeLiteral \/ EncodeMatch \/ DecodeLiteral \/ DecodeMatch \/ CopyByte
  \/ Finished

Spec == Init /\ [][Next]_vars
-----------------------------------------------------------------------------
\* What was decoded is the input as far as the parser has emitted it, and in the
\* end all of it: no deferral, improvement or overlapping copy loses or repeats
\* a byte, and the decoder never throws on what the encoder wrote.
RoundTrip ==
  /\ ~error
  /\ Len(out) <= N
  /\ \A p \in 1 .. Len(out) : out[p] = data[p]
  /\ pc = "done" /\ token = NoToken => out = data

\* Length and distance are in the range that their codes carry: length less
\* MinMatch and distance less 1 are unsigned in the code, and what is left of
\* either below its power of two fits in the bits written for it.
MatchLegal ==
  /\ token.kind = "match" => token.length >= MinMatch /\ token.distance >= 1
  /\ \A c \in {coded.length, coded.distance} : c.extra \in 0 .. PowerOfTwo[c.bucket] - 1

\* Both sides code the next symbol under the same adaptive model, though one
\* reads the context off its input and the other off its output.
SameModel == coded # NoCode /\ copy = NoCopy => coded.ctx = decCtx
=============================================================================
