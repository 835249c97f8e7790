------------------------------ MODULE BwtCodec ------------------------------
(***************************************************************************)
(* bwt_encode and bwt_decode (bwt_codec.cpp) around the block transform    *)
(* (bwt_transform.cpp): each block is permuted, moved to front, and its    *)
(* runs of zeros spelt out in RUNA and RUNB; the symbols of all blocks are *)
(* one coded stream, from which the decoder must tell where a block ends.  *)
(* Its symbols arrive as they were coded (RangeCoder).                     *)
(***************************************************************************)
EXTENDS SuffixArray

CONSTANTS
  NumBytes,   \* 256 in the code
  BlockSize,  \* kBwtDefaultBlockSize
  BwtInputs   \* bound: what is compressed

ASSUME BwtAssumption ==
  /\ NumBytes \in Nat \ {0} /\ BlockSize \in Nat \ {0}
  /\ BwtInputs \subseteq Seq(0 .. NumBytes - 1)

VARIABLES
  input,
  bwtPc,    \* "encode", "decode", "done", "mismatch" for the exception
  lens,     \* lengths of the blocks written
  stream,   \* coded symbols, from the encoder to the decoder
  ranks,    \* ranks of the block being decoded
  pending,  \* pending_n, pending_pow2 and have_pending (pow2 > 1)
  result

bwtVars == <<input, bwtPc, lens, stream, ranks, pending, result>>

Sentinel == 0
NoRun == [n |-> 0, pow2 |-> 1]

Text(block) == Append([p \in DOMAIN block |-> block[p] + 1], Sentinel)

\* The symbol before each suffix, in the order of the suffixes.
EncodeBlock(block) ==
  LET t == Text(block)
      sa == SAIS(t)
  IN  [r \in DOMAIN t |-> IF sa[r] = 1 THEN t[Len(t)] ELSE t[sa[r] - 1]]

\* The row of sorted order that row r precedes: same symbol, same rank among equals.
RowAfter(symbols, r) ==
  Cardinality({q \in 1 .. Len(symbols) : symbols[q] < symbols[r]})
    + Cardinality({q \in 1 .. r : symbols[q] = symbols[r]})

DecodeBlock(symbols) ==
  LET m == Len(symbols)
      next == [s \in 1 .. m |-> CHOOSE r \in 1 .. m : RowAfter(symbols, r) = s]
      row[c \in 0 .. m - 1] == IF c = 0 THEN CHOOSE r \in 1 .. m : symbols[r] = Sentinel
                               ELSE next[row[c - 1]]
  IN  [p \in 1 .. m - 1 |-> symbols[row[p]] - 1]

\* The entry at position p is moved to the front of the list.
ToFront(list, p) ==
  [q \in DOMAIN list |-> IF q = 1 THEN list[p] ELSE IF q <= p THEN list[q - 1] ELSE list[q]]

PlaceOf(list, symbol) == CHOOSE p \in DOMAIN list : list[p] = symbol

FreshList == [p \in 1 .. NumBytes + 1 |-> p - 1]

MtfEncode(symbols) ==
  LET list[c \in 0 .. Len(symbols)] ==
        IF c = 0 THEN FreshList
        ELSE LET l == list[c - 1] IN ToFront(l, PlaceOf(l, symbols[c]))
  IN  [c \in 1 .. Len(symbols) |-> PlaceOf(list[c - 1], symbols[c]) - 1]

MtfDecode(rs) ==
  LET list[c \in 0 .. Len(rs)] == IF c = 0 THEN FreshList ELSE ToFront(list[c - 1], rs[c] + 1)
  IN  [c \in 1 .. Len(rs) |-> list[c - 1][rs[c] + 1]]

\* Bijective base 2, least significant digit first; RUNA is 0 and RUNB is 1. A length
\* has fewer digits than it counts.
Spelt(s) ==
  IF s.left = 0 THEN s
  ELSE LET d == 1 + ((s.left - 1) % 2)
       IN  [left |-> (s.left - d) \div 2, digits |-> Append(s.digits, d - 1)]
RunDigits(len) ==
  LET spelt[c \in 0 .. len] == IF c = 0 THEN [left |-> len, digits |-> <<>>] ELSE Spelt(spelt[c - 1])
  IN  spelt[len].digits

\* One rank: it lengthens the run, or ends it and is shifted past RUNA and RUNB.
Written(acc, r) ==
  IF r = 0 THEN [acc EXCEPT !.run = @ + 1]
  ELSE [run |-> 0, coded |-> acc.coded \o RunDigits(acc.run) \o <<r + 1>>]
RleEncodeZeroRuns(rs) ==
  LET upTo[c \in 0 .. Len(rs)] ==
        IF c = 0 THEN [run |-> 0, coded |-> <<>>] ELSE Written(upTo[c - 1], rs[c])
  IN  upTo[Len(rs)].coded \o RunDigits(upTo[Len(rs)].run)

BwtInit ==
  /\ input \in BwtInputs
  /\ bwtPc = "encode"
  /\ lens = <<>> /\ stream = <<>>
  /\ ranks = <<>> /\ pending = NoRun /\ result = <<>>

BlockStart(b) == (b - 1) * BlockSize
BlockOf(b) ==
  SubSeq(input, BlockStart(b) + 1,
         IF BlockStart(b + 1) < Len(input) THEN BlockStart(b + 1) ELSE Len(input))
Block == BlockOf(Len(lens) + 1)

WriteBlock ==
  /\ bwtPc = "encode"
  /\ BlockStart(Len(lens) + 1) < Len(input)
  /\ lens' = Append(lens, Len(Block))
  /\ stream' = stream \o RleEncodeZeroRuns(MtfEncode(EncodeBlock(Block)))
  /\ UNCHANGED <<input, bwtPc, ranks, pending, result>>

\* An empty input has no blocks and no stream.
BlocksWritten ==
  /\ bwtPc = "encode"
  /\ BlockStart(Len(lens) + 1) >= Len(input)
  /\ bwtPc' = IF input = <<>> THEN "done" ELSE "decode"
  /\ UNCHANGED <<input, lens, stream, ranks, pending, result>>

Zeros(n) == [p \in 1 .. n |-> 0]

\* Faulty variant: the run at the end of a block is never taken to be complete.
FillsBlockNever(nsym) == FALSE

\* The run read so far fills the block: what follows belongs to the next one.
FillsBlock(nsym) == pending.pow2 > 1 /\ Len(ranks) + pending.n >= nsym

\* The rest of the decoder's loop for one block of nsym ranks.
ReadSymbol ==
  /\ bwtPc = "decode" /\ lens # <<>> /\ Len(ranks) < lens[1] + 1
  /\ IF FillsBlock(lens[1] + 1)
     THEN /\ ranks' = ranks \o Zeros(pending.n)
          /\ pending' = NoRun
          /\ UNCHANGED stream
     ELSE /\ stream # <<>>
          /\ stream' = Tail(stream)
          /\ IF stream[1] \in {0, 1}
             THEN /\ pending' = [n |-> pending.n + (stream[1] + 1) * pending.pow2,
                                 pow2 |-> 2 * pending.pow2]
                  /\ UNCHANGED ranks
             ELSE /\ ranks' = ranks \o Zeros(pending.n) \o <<stream[1] - 1>>
                  /\ pending' = NoRun
  /\ UNCHANGED <<input, bwtPc, lens, result>>

BlockRead ==
  /\ bwtPc = "decode" /\ lens # <<>> /\ Len(ranks) >= lens[1] + 1
  /\ result' = result \o DecodeBlock(MtfDecode(ranks))
  /\ lens' = Tail(lens) /\ ranks' = <<>>
  /\ UNCHANGED <<input, bwtPc, stream, pending>>

BlocksRead ==
  /\ bwtPc = "decode" /\ lens = <<>>
  /\ bwtPc' = IF Len(result) = Len(input) THEN "done" ELSE "mismatch"
  /\ UNCHANGED <<input, lens, stream, ranks, pending, result>>

BwtNext == WriteBlock \/ BlocksWritten \/ ReadSymbol \/ BlockRead \/ BlocksRead

BwtSpec == BwtInit /\ [][BwtNext]_bwtVars
-----------------------------------------------------------------------------
\* Induced sorting orders the suffixes of a block, and finds what prefix doubling finds.
SuffixArraysSorted ==
  bwtPc = "encode" /\ BlockStart(Len(lens) + 1) < Len(input) =>
    LET t == Text(Block)
        sa == SAIS(t)
    IN  /\ Range(sa) = DOMAIN t
        /\ \A s \in 1 .. Len(t) - 1 : Before(t, sa[s], sa[s + 1])
        /\ BuildSuffixArray(t) = sa

\* Every block that was finished is the block that was compressed, wherever runs end
\* and blocks meet, and the stream is used up exactly.
BlocksComeBack ==
  /\ result = SubSeq(input, 1, Len(result))
  /\ Len(ranks) <= BlockSize + 1
  /\ bwtPc = "done" => result = input /\ stream = <<>>
  /\ bwtPc # "mismatch"
  /\ bwtPc = "decode" /\ lens # <<>> /\ stream = <<>> => Len(ranks) + pending.n > lens[1]

\* Every block comes back from its transform and its runs, and both ways to sort its
\* suffixes agree.
BwtExact == BlocksComeBack /\ SuffixArraysSorted
=============================================================================
