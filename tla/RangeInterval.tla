--------------------------- MODULE RangeInterval ---------------------------
(***************************************************************************)
(* The interval arithmetic of csa::RangeEncoder and csa::RangeDecoder      *)
(* (range_coder.hpp): low_ and range_, narrowed once per symbol and        *)
(* renormalised one byte at a time, all in u32. The two classes do the     *)
(* same to low_ and range_; what they emit or read is RangeCoder's part.   *)
(***************************************************************************)
EXTENDS ByteWord

Top == Base * Base * Base
Bot == Base * Base

VARIABLES
  low,    \* low_
  range,  \* range_
  pc      \* "ready", or "normalize" inside encode() or decode()

intervalVars == <<low, range, pc>>

IntervalInit ==
  /\ low = 0
  /\ range = Word - 1
  /\ pc = "ready"

\* encode(cumfreq, freq, totfreq), and get_freq() followed by decode().
Narrow(cum, freq, tot) ==
  /\ pc = "ready"
  /\ LET step == range \div tot
     IN  /\ low' = (low + cum * step) % Word
         /\ range' = (step * freq) % Word
  /\ pc' = "normalize"

\* (low_ ^ (low_ + range_)) < kTop: both ends have the same top byte.
Settled == low \div Top = ((low + range) % Word) \div Top

ShiftWith(r) ==
  /\ low' = (low * Base) % Word
  /\ range' = (r * Base) % Word
  /\ UNCHANGED pc

\* Faulty variant: the underflowing interval keeps its width.
ShiftForcedKeeps ==
  /\ pc = "normalize"
  /\ ~Settled /\ range < Bot
  /\ ShiftWith(range)

ShiftSettled ==
  /\ pc = "normalize"
  /\ Settled
  /\ ShiftWith(range)

\* Too narrow and not settled: the interval is cut at the next multiple of
\* kBot, which settles the byte.
ShiftForced ==
  /\ pc = "normalize"
  /\ ~Settled /\ range < Bot
  /\ ShiftWith((Word - low) % Bot)

\* Faulty variant: an interval that cannot be divided is left alone.
NormalizedAtSettled ==
  /\ pc = "normalize"
  /\ ~Settled
  /\ pc' = "ready"
  /\ UNCHANGED <<low, range>>

Normalized ==
  /\ pc = "normalize"
  /\ ~Settled /\ range >= Bot
  /\ pc' = "ready"
  /\ UNCHANGED <<low, range>>

Shift == ShiftSettled \/ ShiftForced

\* Any symbol of any table, which has a total of kBot at the most.
NarrowAny ==
  \E tot \in 1 .. Bot :
    \E cum \in 0 .. tot - 1 : \E freq \in 1 .. tot - cum : Narrow(cum, freq, tot)

IntervalNext == NarrowAny \/ Shift \/ Normalized

IntervalSpec == IntervalInit /\ [][IntervalNext]_intervalVars
-----------------------------------------------------------------------------
IntervalTypeOK ==
  /\ low \in 0 .. Word - 1
  /\ range \in 0 .. Word - 1
  /\ pc \in {"ready", "normalize"}

\* The bytes emitted are final: the interval never reaches past the largest
\* word, so no later addition to low_ carries into a byte already written. It
\* ends exactly there only while the top byte of low_ is the largest one,
\* without which low_ + range_, which then wraps to 0, would look settled.
NeverCarries ==
  /\ low + range <= Word
  /\ low + range = Word => low >= Word - Top

\* range_ never becomes 0, on which normalize() would emit for ever, and what
\* a symbol finds is wide enough to give every count of a table a share.
AlwaysDivisible ==
  /\ range > 0
  /\ pc = "ready" => range \div Bot > 0
=============================================================================
