--------------------------- MODULE MCCommandLine ---------------------------
(***************************************************************************)
(* A small instance of CommandLine: numbers of at most three decimals, two *)
(* of which the tool goes by.                                              *)
(***************************************************************************)
EXTENDS CommandLine

N(value, decimals) == [value |-> value, decimals |-> decimals]
Row(tokens, numbers, pos, ori) == [tokens |-> tokens, numbers |-> numbers, pos |-> pos, ori |-> ori]
Plain(numbers, pos, ori) == Row(numbers, numbers, pos, ori)

Word == Row(0, 0, N(0, 0), N(0, 0))

\* Neither has a sign, a point or an exponent.
Nan == N(0, 0)
Inf == N(9999000, 0)

MCTexts == {
  <<>>,
  <<Word>>,
  <<Plain(2, N(1230, 2), N(0, 0)), Plain(2, N(-500, 1), N(0, 0))>>,
  <<Plain(2, N(1005, 3), N(0, 0)), Plain(2, N(7000, 0), N(0, 0))>>,
  <<Plain(3, N(12340, 2), N(0, 0)), Plain(3, N(-80, 2), N(0, 0))>>,
  <<Plain(3, N(4500, -1), N(0, 0))>>,
  <<Plain(7, N(2500, 1), N(-710, 2)), Plain(7, N(2000, 0), N(700, 2))>>,
  <<Plain(2, N(40, 2), N(0, 0)), Row(0, 2, N(80, 2), N(0, 0))>>,
  <<Plain(2, N(40, 2), N(0, 0)), Plain(3, N(16000, 0), N(0, 0))>>,
  <<Plain(2, N(990, 2), N(0, 0)), Word>>,
  <<Plain(2, N(-250, 2), N(0, 0)), Row(2, 1, Inf, N(0, 0))>>,
  <<Row(7, 3, N(3100, 1), Nan), Plain(7, N(1600, 1), N(-290, 2))>>,
  <<Plain(2, N(1500000, 0), N(0, 0)), Plain(2, N(-7000, 0), N(0, 0))>> }

MCErrors == {[s \in 1 .. MaxStep |-> IF s = 1 THEN 0 ELSE s \div 2],
             [s \in 1 .. MaxStep |-> IF s % 2 = 0 THEN s ELSE 0]}
\* Any integer is taken for a scale.
MCScales == {-3, 0, 7}

MCBudgets == {-1, 10, 20, 300}
=============================================================================
