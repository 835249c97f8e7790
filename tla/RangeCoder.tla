----------------------------- MODULE RangeCoder -----------------------------
(***************************************************************************)
(* range_encode_bytes and range_decode_bytes (range_coder.cpp): a message  *)
(* is encoded symbol by symbol with the adaptive order-1 model, flushed,   *)
(* and decoded by a decoder that starts from a fresh model and knows       *)
(* nothing but the bytes and the number of symbols. One pass of the loop   *)
(* of normalize() is a step of its own.                                    *)
(*                                                                         *)
(* The encoder is gone when the decoder starts, so low, range and tables   *)
(* are the encoder's first and the decoder's afterwards.                   *)
(***************************************************************************)
EXTENDS RangeInterval, FenwickFreqN, Sequences

CONSTANT MaxLen  \* bound: the longest message

ASSUME RangeCoderAssumption ==
  /\ MaxTotal <= Bot
  /\ MaxLen \in Nat

VARIABLES
  side,    \* "encode", "decode" or "done"
  tables,  \* Order1Model: a table per preceding symbol
  ctx,     \* the preceding symbol
  msg,     \* the symbols encoded so far
  out,     \* the bytes written
  code,    \* the decoder's code_
  pos,     \* the decoder's pos_
  got      \* the symbols decoded so far

coderVars == <<side, tables, ctx, msg, out, code, pos, got>>
vars == <<intervalVars, coderVars>>

FreshModel == [c \in Symbols |-> Reset]

Init ==
  /\ IntervalInit
  /\ side = "encode"
  /\ tables = FreshModel
  /\ ctx = 0
  /\ msg = <<>>
  /\ out = <<>>
  /\ code = 0
  /\ pos = 0
  /\ got = <<>>

\* The table of the context is updated, and the symbol is the next context.
Learn(sym) ==
  /\ tables' = [tables EXCEPT ![ctx] = Updated(@, sym)]
  /\ ctx' = sym

EncodeSymbol(sym) ==
  /\ side = "encode"
  /\ Len(msg) < MaxLen
  /\ LET t == tables[ctx]
     IN  Narrow(CumFreq(t, sym), FreqOf(t, sym), t.total)
  /\ Learn(sym)
  /\ msg' = Append(msg, sym)
  /\ UNCHANGED <<side, out, code, pos, got>>

Digits(x) == <<x \div Top, (x \div Bot) % Base, (x \div Base) % Base, x % Base>>

\* next_byte(): zeros once the data is used up.
ByteOf(bytes, i) == IF i <= Len(bytes) THEN bytes[i] ELSE 0

\* A decoder on the bytes that were written, with a model of its own.
StartDecoder(bytes) ==
  /\ side' = "decode"
  /\ out' = bytes
  /\ code' = ByteOf(bytes, 1) * Top + ByteOf(bytes, 2) * Bot
             + ByteOf(bytes, 3) * Base + ByteOf(bytes, 4)
  /\ pos' = 4
  /\ low' = 0 /\ range' = Word - 1
  /\ tables' = FreshModel
  /\ ctx' = 0
  /\ UNCHANGED <<pc, msg, got>>

\* Faulty variant: the flush leaves out the last two bytes of low_.
FinishShort ==
  /\ side = "encode" /\ pc = "ready"
  /\ StartDecoder(out \o SubSeq(Digits(low), 1, 2))

\* finish() writes low_ out.
Finish ==
  /\ side = "encode" /\ pc = "ready"
  /\ StartDecoder(out \o Digits(low))

\* get_freq: range_ is divided here, and decode() uses what is left of it.
Target(total) == ((code - low) % Word) \div (range \div total)

DecodeSymbol ==
  /\ side = "decode"
  /\ Len(got) < Len(msg)
  /\ LET t == tables[ctx]
         found == Find(t, Target(t.total))
     IN  /\ Narrow(found.lo, FreqOf(t, found.sym), t.total)
         /\ Learn(found.sym)
         /\ got' = Append(got, found.sym)
  /\ UNCHANGED <<side, msg, out, code, pos>>

\* What else happens when the interval is shifted by a byte.
ShiftBytes ==
  IF side = "encode"
  THEN out' = Append(out, low \div Top) /\ UNCHANGED <<code, pos>>
  ELSE /\ code' = (code * Base + ByteOf(out, pos + 1)) % Word
       /\ pos' = pos + 1
       /\ UNCHANGED out

\* One pass of normalize() in either class, or its end.
Normalize ==
  \/ Shift /\ ShiftBytes /\ UNCHANGED <<side, tables, ctx, msg, got>>
  \/ Normalized /\ UNCHANGED coderVars

DecodeDone ==
  /\ side = "decode" /\ pc = "ready"
  /\ Len(got) = Len(msg)
  /\ side' = "done"
  /\ UNCHANGED <<intervalVars, tables, ctx, msg, out, code, pos, got>>

Next ==
  \/ \E sym \in Symbols : EncodeSymbol(sym)
  \/ Finish \/ DecodeSymbol \/ DecodeDone \/ Normalize

Spec == Init /\ [][Next]_vars
-----------------------------------------------------------------------------
\* The decoder reproduces the message symbol by symbol, whatever the message,
\* wherever its intervals were cut and its tables rescaled.
RoundTrip ==
  /\ got = SubSeq(msg, 1, Len(got))
  /\ side = "done" => got = msg

\* Both directions drive the interval arithmetic as RangeInterval does, so that
\* what holds of every sequence of symbols there holds here; the decoder starts
\* it afresh.
Interval == INSTANCE RangeInterval
ImplementsInterval ==
  Interval!IntervalInit /\ [][Interval!IntervalNext \/ side' # side]_intervalVars
=============================================================================
