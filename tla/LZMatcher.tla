------------------------------ MODULE LZMatcher ------------------------------
(***************************************************************************)
(* lz_parse (lz_matcher.cpp): the lazy hash-chain parser. A position is    *)
(* entered in the chain of the hash of the MinMatch bytes that start       *)
(* there; a match is committed to only when the next position has no       *)
(* longer one. One pass of each loop of the code is a step here, and a     *)
(* token that is pushed is in flight until the module that composes this   *)
(* one has coded it and replayed it.                                       *)
(*                                                                         *)
(* Positions count from 0, as in the code: the byte at p is data[p + 1].   *)
(***************************************************************************)
EXTENDS Integers, Sequences

CONSTANTS
  Bytes,       \* the byte values that occur
  Hashes,      \* indices of head
  Hash,        \* hash4, a function from MinMatch bytes to Hashes
  MinMatch,    \* kLzMinMatch, which is also the number of bytes hashed
  MaxChain,    \* max_chain
  NiceLength,  \* nice_length
  WordSize,    \* 2^32
  MaxLen       \* bound: the longest input, which the code does not check

ASSUME LZAssumption ==
  /\ MinMatch \in Nat \ {0}
  /\ Hash \in [[1 .. MinMatch -> Bytes] -> Hashes]
  /\ MaxChain \in Int
  /\ NiceLength \in Nat
  /\ WordSize \in Nat
  /\ MaxLen \in Nat /\ MaxLen < WordSize

\* The cast of a size_t to u32, and what u32 arithmetic leaves.
U32(n) == n % WordSize

VARIABLES
  data,    \* the input
  pc,      \* "look", "walk", "insert" or "done"
  i,       \* the position looked at
  pend,    \* the deferred match; its length is 0 when there is none
  head,    \* the newest position of each hash, or -1
  prev,    \* the next older position of the same hash, or -1
  hashed,  \* the positions entered
  cand,    \* find_match: the candidate, or -1 once the walk is over
  chain,   \* find_match: the candidates visited
  best,    \* find_match: the longest match so far
  k,       \* the next position of a committed match to enter
  token    \* the token in flight

chainVars == <<head, prev, hashed>>
searchVars == <<cand, chain, best>>
matcherVars == <<data, pc, i, pend, chainVars, searchVars, k, token>>

N == Len(data)
NoMatch == [len |-> 0, dist |-> 0]
NoPending == [len |-> 0, dist |-> 0, pos |-> 0]
HavePending == pend.len > 0

NoToken == [kind |-> "none", literal |-> 0, length |-> 0, distance |-> 0]
LiteralAt(p) ==
  [kind |-> "literal", literal |-> data[p + 1], length |-> 0, distance |-> 0]
PendingMatch ==
  [kind |-> "match", literal |-> 0, length |-> U32(pend.len), distance |-> U32(pend.dist)]

HashAt(p) == Hash[[j \in 1 .. MinMatch |-> data[p + j]]]

MatcherInit ==
  /\ data \in UNION {[1 .. n -> Bytes] : n \in 0 .. MaxLen}
  /\ pc = "look"
  /\ i = 0
  /\ pend = NoPending
  /\ head = [h \in Hashes |-> -1]
  /\ prev = [p \in 0 .. N - 1 |-> -1]
  /\ hashed = {}
  /\ cand = -1 /\ chain = 0 /\ best = NoMatch
  /\ k = 0
  /\ token = NoToken

\* insert_hash
Insert(p) ==
  IF p + MinMatch > N \/ p \in hashed
  THEN UNCHANGED chainVars
  ELSE /\ prev' = [prev EXCEPT ![p] = head[HashAt(p)]]
       /\ head' = [head EXCEPT ![HashAt(p)] = p]
       /\ hashed' = hashed \union {p}

\* The head of the loop. No search is made next to a match that is nice enough,
\* or where fewer than MinMatch bytes are left.
Look ==
  /\ pc = "look" /\ token = NoToken
  /\ i < N
  /\ pc' = "walk"
  /\ cand' = IF (HavePending /\ pend.len >= NiceLength) \/ i + MinMatch > N
             THEN -1 ELSE head[HashAt(i)]
  /\ chain' = 0
  /\ best' = NoMatch
  /\ UNCHANGED <<data, i, pend, chainVars, k, token>>

\* match_length of the bytes at a and at b, which is the later one.
IsMatchLength(len, a, b) ==
  /\ \A j \in 1 .. len : data[a + j] = data[b + j]
  /\ b + len < N => data[a + len + 1] # data[b + len + 1]

\* The pass over one candidate of find_match, which ends early on a match that
\* is good enough.
Visit ==
  /\ pc = "walk" /\ cand >= 0 /\ chain < MaxChain
  /\ \E len \in 0 .. N - i :
       /\ IsMatchLength(len, cand, i)
       /\ IF len > best.len
          THEN /\ best' = [len |-> len, dist |-> i - cand]
               /\ cand' = IF len = N - i \/ len >= NiceLength THEN -1 ELSE prev[cand]
          ELSE /\ cand' = prev[cand]
               /\ UNCHANGED best
  /\ chain' = chain + 1
  /\ UNCHANGED <<data, pc, i, pend, chainVars, k, token>>

Searched == pc = "walk" /\ ~(cand >= 0 /\ chain < MaxChain)

\* The match at i beats the deferred one, whose position becomes a literal.
Improve ==
  /\ Searched /\ HavePending
  /\ best.len > pend.len
  /\ token' = LiteralAt(pend.pos)
  /\ Insert(pend.pos)
  /\ pend' = [len |-> best.len, dist |-> best.dist, pos |-> i]
  /\ i' = i + 1
  /\ pc' = "look"
  /\ UNCHANGED <<data, searchVars, k>>

\* Faulty variant: the distance is taken from the position of the lookahead.
CommitFromLookahead ==
  /\ Searched /\ HavePending
  /\ best.len <= pend.len
  /\ token' = [PendingMatch EXCEPT !.distance = i - pend.pos + pend.dist]
  /\ k' = pend.pos
  /\ pc' = "insert"
  /\ UNCHANGED <<data, i, pend, chainVars, searchVars>>

\* The deferred match is at least as good.
Commit ==
  /\ Searched /\ HavePending
  /\ best.len <= pend.len
  /\ token' = PendingMatch
  /\ k' = pend.pos
  /\ pc' = "insert"
  /\ UNCHANGED <<data, i, pend, chainVars, searchVars>>

\* Faulty variant: the loop that enters the positions of a match starts behind it.
EnterNoneOfSpan ==
  /\ pc = "insert" /\ token = NoToken
  /\ pc' = "look"
  /\ i' = pend.pos + pend.len
  /\ pend' = NoPending
  /\ UNCHANGED <<data, chainVars, searchVars, k, token>>

\* The loop that enters every position of a committed match, and its end.
EnterSpan ==
  /\ pc = "insert" /\ token = NoToken
  /\ IF k < pend.pos + pend.len
     THEN /\ Insert(k)
          /\ k' = k + 1
          /\ UNCHANGED <<pc, i, pend>>
     ELSE /\ pc' = "look"
          /\ i' = pend.pos + pend.len
          /\ pend' = NoPending
          /\ UNCHANGED <<chainVars, k>>
  /\ UNCHANGED <<data, searchVars, token>>

\* Faulty variant: a match of any length is deferred, also a short one that two
\* windows with the same hash happen to have.
DeferShort ==
  /\ Searched /\ ~HavePending
  /\ best.len > 0
  /\ Insert(i)
  /\ pend' = [len |-> best.len, dist |-> best.dist, pos |-> i]
  /\ i' = i + 1
  /\ pc' = "look"
  /\ UNCHANGED <<data, searchVars, k, token>>

Defer ==
  /\ Searched /\ ~HavePending
  /\ best.len >= MinMatch
  /\ Insert(i)
  /\ pend' = [len |-> best.len, dist |-> best.dist, pos |-> i]
  /\ i' = i + 1
  /\ pc' = "look"
  /\ UNCHANGED <<data, searchVars, k, token>>

Literal ==
  /\ Searched /\ ~HavePending
  /\ best.len < MinMatch
  /\ token' = LiteralAt(i)
  /\ Insert(i)
  /\ i' = i + 1
  /\ pc' = "look"
  /\ UNCHANGED <<data, pend, searchVars, k>>

\* The end of the input: a match that is still deferred is the last token.
EndOfInput ==
  /\ pc = "look" /\ token = NoToken
  /\ i >= N
  /\ pc' = "done"
  /\ token' = IF HavePending THEN PendingMatch ELSE NoToken
  /\ UNCHANGED <<data, i, pend, chainVars, searchVars, k>>

Parse ==
  Look \/ Visit \/ Improve \/ Commit \/ EnterSpan \/ Defer \/ Literal \/ EndOfInput
-----------------------------------------------------------------------------
\* x is the newest position of a set of them, -1 when there is none.
IsNewest(x, positions) ==
  IF positions = {} THEN x = -1
  ELSE x \in positions /\ \A p \in positions : p <= x

\* A chain lists the positions with its hash once each, the newest first, so
\* that a walk is over the nearest candidates and never in a circle. A position
\* is behind the parser exactly when it has been entered, the inside of a match
\* included, except that a deferred one may be waiting.
ChainsExact ==
  /\ \A h \in Hashes : IsNewest(head[h], {q \in hashed : HashAt(q) = h})
  /\ \A p \in hashed :
       IsNewest(prev[p], {q \in hashed : HashAt(q) = HashAt(p) /\ q < p})
  /\ pc = "look" =>
       LET behind == {p \in 0 .. i - 1 : p + MinMatch <= N}
       IN  /\ hashed \subseteq behind
           /\ behind \subseteq IF HavePending THEN hashed \union {pend.pos} ELSE hashed
=============================================================================
