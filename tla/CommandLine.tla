---------------------------- MODULE CommandLine ----------------------------
(***************************************************************************)
(* The scissorc tool on tables of numbers (cli/main.cpp): what a text file *)
(* is taken for, at what scale its numbers become integers, what is        *)
(* written, and what is printed of it when it is read back.                *)
(*                                                                         *)
(* A number of a text is a multiple of 10^-Digits. The columns of a row    *)
(* that are positions are alike, and so are those that are an orientation: *)
(* one number stands for each. A codec (Container) is exact at step 1; at  *)
(* any other step it has some error, at the last row.                      *)
(***************************************************************************)
EXTENDS QuantSearch, Sequences, FiniteSets

CONSTANTS
  Texts,          \* the contents of the input file
  Digits,         \* bound: decimals a number is written with
  MaxDecimals,    \* the most sniff_table goes by, and what unsqueeze prints
  ShortDecimals,  \* what sniff_table takes exponents for, and decompress-* print
  SafeLimit,      \* of an integer, in safe_scale
  I32,            \* 2^31
  CleanPercent,   \* of the rows of a table
  Scales,         \* --scale and --qscale: any integers
  MaxQuality,     \* 9
  Qualities,      \* --quality
  CodecErrors,    \* of a codec at each step
  Budgets         \* --max-pos-error, --max-quat-error

\* pow10i
PowerOfTen[n \in 0 .. Digits] == IF n = 0 THEN 1 ELSE 10 * PowerOfTen[n - 1]

\* 1u << bits
PowerOfTwo[bits \in 0 .. MaxQuality] == IF bits = 0 THEN 1 ELSE 2 * PowerOfTwo[bits - 1]

Unit == PowerOfTen[Digits]

\* A number as the multiple of 10^-Digits it is, and its decimals, or -1 where it has an
\* exponent. A row is so many tokens, none unless stod takes each of them, the first so
\* many of which operator>> reads: not a nan, whose value here is 0, nor an inf, whose
\* value is one that is too large for every scale.
Numbers == [value : Int, decimals : -1 .. Digits]
TextRows == [tokens : Nat, numbers : Nat, pos : Numbers, ori : Numbers]

AsWritten(number) ==
  number.decimals >= 0 => number.value % PowerOfTen[Digits - number.decimals] = 0

ASSUME ToolAssumption ==
  /\ Digits \in Nat /\ MaxDecimals \in 0 .. Digits /\ ShortDecimals \in 0 .. MaxDecimals
  /\ Texts \subseteq Seq(TextRows)
  /\ \A t \in Texts : \A i \in DOMAIN t : AsWritten(t[i].pos) /\ AsWritten(t[i].ori)
  /\ SafeLimit \in Nat /\ I32 \in Nat /\ SafeLimit < I32
  /\ CleanPercent \in Nat
  /\ Scales \subseteq Int
  /\ MaxQuality \in Nat \ {0} /\ PowerOfTwo[MaxQuality] <= MaxStep /\ Qualities \subseteq Int
  /\ \A e \in CodecErrors : e \in [1 .. MaxStep -> Nat] /\ e[1] = 0
  /\ Budgets \subseteq Int

VARIABLES
  text,
  codec,    \* the codec's errors on this text, of positions and orientations
  file,     \* header and decoded rows of the compressed file, <<>> if there is none
  said,     \* what was printed when it was written
  restored, \* the rows of the text it was decompressed to, with the decimals printed
  pc,
  budgets,  \* of each axis, <<>> if not given
  steps     \* quantisation step found for each axis

state == <<text, codec, file, said, restored>>
found == <<pc, budgets, steps>>

Axes == {"pos", "ori"}
Columns == {2, 3, 7}
AxesOf(columns) == IF columns = 7 THEN Axes ELSE {"pos"}
Abs(x) == IF x < 0 THEN -x ELSE x

\* n / d, as llround and a fixed number of decimals round it.
Rounded(n, d) == (IF n < 0 THEN -1 ELSE 1) * ((2 * Abs(n) + d) \div (2 * d))

Largest(S) == CHOOSE x \in S : \A y \in S : y <= x
-----------------------------------------------------------------------------
(* From text to integers.                                                  *)

\* The rows at these places, in their order.
RowsAt(t, places) ==
  LET kept[i \in 0 .. Len(t)] ==
        IF i = 0 THEN <<>> ELSE IF i \in places THEN Append(kept[i - 1], t[i]) ELSE kept[i - 1]
  IN  kept[Len(t)]

\* Rows of numbers and nothing else, as many as the first such row has.
Clean(t) == {i \in DOMAIN t : t[i].tokens # 0}
ExpectedColumns(t) == t[CHOOSE i \in Clean(t) : \A j \in Clean(t) : i <= j].tokens
Matching(t) == {i \in Clean(t) : t[i].tokens = ExpectedColumns(t)}

CountDecimals(token) == IF token.decimals < 0 THEN 0 ELSE token.decimals

\* sniff_table: 0 columns for what is not a table.
SniffedColumns(t) ==
  IF \/ Matching(t) = {}
     \/ 100 * Cardinality(Matching(t)) < CleanPercent * Len(t)
     \/ ExpectedColumns(t) \notin Columns
  THEN 0 ELSE ExpectedColumns(t)

SniffedDecimals(t, a) ==
  LET exponent == \E i \in Matching(t), b \in AxesOf(ExpectedColumns(t)) : t[i][b].decimals < 0
      seen == {CountDecimals(t[i][a]) : i \in Matching(t)}
                \cup (IF exponent THEN {ShortDecimals} ELSE {})
  IN  IF Largest(seen) <= MaxDecimals THEN Largest(seen) ELSE MaxDecimals

SniffedMaxAbs(t, a) == Largest({Abs(t[i][a].value) : i \in Matching(t)})

\* Faulty variant: the scale keeps the decimals, whatever the numbers.
SafeScaleAnyway(decimals, maxAbs) == PowerOfTen[decimals]

\* The largest scale for these decimals whose integers are safe.
SafeScale(decimals, maxAbs) ==
  PowerOfTen[Largest({d \in 0 .. decimals : maxAbs * PowerOfTen[d] <= SafeLimit * Unit} \cup {0})]

ScalesFor(t) ==
  [a \in AxesOf(SniffedColumns(t)) |-> SafeScale(SniffedDecimals(t, a), SniffedMaxAbs(t, a))]

ToI32(x) == ((x + I32) % (2 * I32)) - I32

\* Faulty variant: a row with more than its numbers is not read.
ReadableExactly(row, columns) == row.tokens = columns /\ row.numbers = columns

\* What operator>> finds at the front of the row is enough.
Readable(row, columns) == row.numbers >= columns

ReadFrom(t, columns) == {i \in DOMAIN t : Readable(t[i], columns)}

\* read_points2d, read_points3d, read_poses.
ReadRows(t, columns, scale) ==
  LET rows == RowsAt(t, ReadFrom(t, columns))
  IN  [i \in 1 .. Len(rows) |->
         [a \in AxesOf(columns) |-> ToI32(Rounded(rows[i][a].value * scale[a], Unit))]]

\* cmd_validate: the rows it warns of.
Malformed(t, columns) == {i \in DOMAIN t : t[i].numbers # columns}
-----------------------------------------------------------------------------
(* Files.                                                                  *)

\* What the decoder makes of the rows at these steps, and the error measured by doing so.
Lossy(rows, step) ==
  [i \in 1 .. Len(rows) |->
     [a \in DOMAIN rows[i] |-> rows[i][a] + IF i = Len(rows) THEN codec[a][step[a]] ELSE 0]]

Measured(rows, a, s) == IF rows = <<>> THEN 0 ELSE codec[a][s]

NoFile == [columns |-> -1]
Nothing == [by |-> "nothing"]

\* A header and a blob, written by a command that tells the error that was measured, or
\* was told the one that is allowed: in the units of the text, and multiplied by the
\* scale (of which a measured one is the quotient, so that this is defined for each).
Wrote(command, columns, scale, step) ==
  LET rows == ReadRows(text, columns, scale)
  IN  /\ file' = [columns |-> columns, scale |-> scale, rows |-> Lossy(rows, step)]
      /\ said' = [command |-> command,
                  within |-> [a \in AxesOf(columns) |->
                    IF command = "optimize" /\ budgets[a] # <<>>
                    THEN Largest({0, budgets[a][1]}) * scale[a]
                    ELSE Measured(rows, a, step[a]) * Unit]]
      /\ restored' = Nothing

\* A number printed with so many decimals, the scale taken out: by a scale of 0 it is nan
\* or inf.
NoNumber == "nan"

Unscaled(x, scale, decimals) ==
  LET p == x * PowerOfTen[decimals]
  IN  IF scale = 0 THEN NoNumber
      ELSE Rounded(IF scale < 0 THEN -p ELSE p, Abs(scale)) * PowerOfTen[Digits - decimals]

Printed(by, rows, scale, decimals) ==
  [by |-> by, decimals |-> decimals,
   rows |-> [i \in 1 .. Len(rows) |->
     [a \in DOMAIN rows[i] |-> Unscaled(rows[i][a], scale[a], decimals)]]]

NoLimits == [a \in Axes |-> <<>>]
Finest == [a \in Axes |-> 1]
NoErrors == [s \in 1 .. MaxStep |-> 0]

Init ==
  /\ text \in Texts
  /\ codec \in [Axes -> CodecErrors]
  /\ file = NoFile /\ restored = Nothing
  /\ said = [command |-> "nothing"]
  /\ pc = "shell" /\ budgets = NoLimits /\ steps = Finest
  /\ err = NoErrors /\ budget = 0
  /\ lo = 1 /\ hi = MaxStep /\ best = MaxStep /\ stage = "done"

\* compress-geo2d, compress-geo3d and compress-pose, with -lossy or without: the user
\* says what the file is and at which scale.
CompressTable(columns, scale, step) ==
  /\ pc = "shell"
  /\ Wrote("compress", columns, scale, step)
  /\ UNCHANGED <<text, codec, found, search>>

CompressGeo2D(scale, step) == CompressTable(2, [pos |-> scale], [pos |-> step])
CompressGeo3D(scale, step) == CompressTable(3, [pos |-> scale], [pos |-> step])
CompressPose(scale, qscale, step, qstep) ==
  CompressTable(7, [pos |-> scale, ori |-> qscale], [pos |-> step, ori |-> qstep])

DecompressTable(columns) ==
  /\ pc = "shell"
  /\ file.columns = columns
  /\ restored' = Printed("decompress", file.rows, file.scale, ShortDecimals)
  /\ UNCHANGED <<text, codec, file, said, found, search>>

DecompressGeo2D == DecompressTable(2)
DecompressGeo3D == DecompressTable(3)
DecompressPose == DecompressTable(7)

\* Faulty variant: what unsqueeze prints is cut short as by the older commands.
UnsqueezeShort ==
  /\ pc = "shell"
  /\ file # NoFile
  /\ restored' = IF file.columns = 0 THEN [by |-> "unsqueeze", rows |-> file.rows]
                 ELSE Printed("unsqueeze", file.rows, file.scale, ShortDecimals)
  /\ UNCHANGED <<text, codec, file, said, found, search>>

\* An existing file is only written over by force.
MayWrite(force) == force \/ file = NoFile

QualityToQuantStep(quality) ==
  PowerOfTwo[MaxQuality + 1 -
    (IF quality < 1 THEN 1 ELSE IF quality > MaxQuality THEN MaxQuality ELSE quality)]

\* quality is <<>> unless given. What is not a table is stored as it is, and verified.
Squeeze(quality, force) ==
  LET columns == SniffedColumns(text)
      step == IF quality = <<>> THEN 1 ELSE QualityToQuantStep(quality[1])
  IN  /\ pc = "shell"
      /\ MayWrite(force)
      /\ IF columns = 0
         THEN /\ file' = [columns |-> 0, rows |-> text]
              /\ said' = [command |-> "squeeze"]
              /\ restored' = Nothing
         ELSE Wrote(IF quality = <<>> THEN "squeeze" ELSE "squeeze lossy",
                    columns, ScalesFor(text), [a \in Axes |-> step])
      /\ UNCHANGED <<text, codec, found, search>>

Unsqueeze ==
  /\ pc = "shell"
  /\ file # NoFile
  /\ restored' = IF file.columns = 0 THEN [by |-> "unsqueeze", rows |-> file.rows]
                 ELSE Printed("unsqueeze", file.rows, file.scale, MaxDecimals)
  /\ UNCHANGED <<text, codec, file, said, found, search>>

\* eval, eval_pos and eval_quat: in the units of the text.
BeginSearch(a, limit) ==
  LET columns == SniffedColumns(text)
      scale == ScalesFor(text)
      rows == ReadRows(text, columns, scale)
  IN  Begin([s \in 1 .. MaxStep |-> Measured(rows, a, s) * (Unit \div scale[a])], limit)

\* Each axis with a budget is searched; a geo file has no orientation to search.
Optimize(limits, force) ==
  LET columns == SniffedColumns(text)
      first == IF limits["pos"] # <<>> THEN "pos" ELSE "ori"
  IN  /\ pc = "shell"
      /\ MayWrite(force)
      /\ limits # NoLimits
      /\ columns \in Columns
      /\ columns # 7 => limits["pos"] # <<>>
      /\ budgets' = [a \in Axes |-> IF a \in AxesOf(columns) THEN limits[a] ELSE <<>>]
      /\ steps' = Finest
      /\ pc' = first
      /\ BeginSearch(first, limits[first][1])
      /\ UNCHANGED state

SearchStep ==
  /\ pc \in Axes
  /\ First \/ Probe
  /\ UNCHANGED <<state, found>>

\* Positions come first.
SearchEnds ==
  /\ pc \in Axes
  /\ stage = "done"
  /\ steps' = [steps EXCEPT ![pc] = best]
  /\ IF pc = "pos" /\ budgets["ori"] # <<>>
     THEN pc' = "ori" /\ BeginSearch("ori", budgets["ori"][1])
     ELSE /\ pc' = "write"
          /\ err' = NoErrors /\ budget' = 0
          /\ lo' = 1 /\ hi' = MaxStep /\ best' = MaxStep /\ stage' = "done"
  /\ UNCHANGED <<state, budgets>>

\* The lossless format if no step will do, for both parts of a pose. Else the pose is
\* measured once more, with both steps at once, and it is an error if a budget is missed.
WriteOptimized ==
  LET columns == SniffedColumns(text)
      scale == ScalesFor(text)
      rows == ReadRows(text, columns, scale)
      lossless == \A a \in AxesOf(columns) : budgets[a] # <<>> /\ steps[a] = 0
      step == [a \in Axes |-> IF steps[a] = 0 THEN 1 ELSE steps[a]]
      Within(a) == budgets[a] = <<>>
                     \/ Measured(rows, a, step[a]) * Unit <= budgets[a][1] * scale[a]
  IN  /\ pc = "write"
      /\ pc' = "shell" /\ budgets' = NoLimits /\ steps' = Finest
      /\ IF lossless \/ columns # 7 \/ \A a \in Axes : Within(a)
         THEN Wrote("optimize", columns, scale, IF lossless THEN Finest ELSE step)
         ELSE UNCHANGED <<file, said, restored>>
      /\ UNCHANGED <<text, codec, search>>

Next ==
  \/ \E scale \in Scales, step \in 1 .. MaxStep :
       CompressGeo2D(scale, step) \/ CompressGeo3D(scale, step)
  \/ \E scale, qscale \in Scales, step, qstep \in 1 .. MaxStep :
       CompressPose(scale, qscale, step, qstep)
  \/ DecompressGeo2D \/ DecompressGeo3D \/ DecompressPose
  \/ \E quality \in {<<>>} \cup {<<q>> : q \in Qualities}, force \in BOOLEAN : Squeeze(quality, force)
  \/ Unsqueeze
  \/ \E limits \in [Axes -> {<<>>} \cup {<<b>> : b \in Budgets}], force \in BOOLEAN :
       Optimize(limits, force)
  \/ SearchStep \/ SearchEnds \/ WriteOptimized

Spec == Init /\ [][Next]_<<state, found, search>>
-----------------------------------------------------------------------------
Table == file # NoFile /\ file.columns # 0
Decompressed == Table /\ restored # Nothing

\* The integer of a number is as it was before it was cast to 32 bits.
Fits(number, scale) ==
  LET x == Rounded(number.value * scale, Unit) IN ToI32(x) = x

\* A number that is safe as it is.
Small(number) == Abs(number.value) <= SafeLimit * Unit

AllMatch == Matching(text) = DOMAIN text

\* Every number that is printed is as close to the one in the text as the scale, the
\* digits printed and the error that was measured, or the budget, leave it, whichever
\* command wrote the file and whichever read it: off by half of what one is at that scale,
\* by half of a last digit, and by that error. A user's scale may be any integer, also one
\* that is negative or divides nothing, but 0, which no number survives. It may be too large
\* for a number; squeeze and optimize find one that is not, for every number of the table
\* for which there is one.
RestoredClose ==
  Decompressed =>
    LET read == RowsAt(text, ReadFrom(text, file.columns))
    IN  /\ Len(restored.rows) = Len(read)
        /\ \A i \in DOMAIN read, a \in AxesOf(file.columns) :
             /\ file.scale[a] # 0
             /\ \/ Fits(read[i][a], file.scale[a])
                \/ said.command # "compress" /\ AllMatch /\ Small(read[i][a])
             => Abs(file.scale[a]) * (2 * Abs(restored.rows[i][a] - read[i][a].value)
                                        - PowerOfTen[Digits - restored.decimals])
                  <= Unit + 2 * said.within[a]

\* A table in which nothing is odd comes back from squeeze and unsqueeze number for
\* number: rows all alike, none of them malformed to validate, no exponents, no more
\* decimals than the tool goes by, and nothing too large for its decimals.
SqueezeExact ==
  Table /\ said.command = "squeeze" /\ restored.by = "unsqueeze" =>
    LET plain == /\ AllMatch /\ Malformed(text, file.columns) = {}
                 /\ \A i \in DOMAIN text, a \in AxesOf(file.columns) :
                      /\ text[i][a].decimals \in 0 .. MaxDecimals
                      /\ \A j \in DOMAIN text :
                           Abs(text[i][a].value) * PowerOfTen[text[j][a].decimals] <= SafeLimit * Unit
    IN  plain => restored.rows = [i \in DOMAIN text |->
                                    [a \in AxesOf(file.columns) |-> text[i][a].value]]

\* Three commands read a text in three ways. Of one in which validate finds no malformed
\* row, squeeze and optimize keep every row: none is dropped on the way to the codec.
ValidatedRowsKept ==
  Table /\ said.command # "compress" /\ Malformed(text, file.columns) = {} =>
    Len(file.rows) = Len(text)

\* What the comment above SniffResult says of the word printed by squeeze: "lossless" is
\* a verified fact about the run, so what unsqueeze prints are the numbers of the text,
\* at least of one that is a table from the first row to the last, with nothing in it that
\* validate would warn of.
SqueezeLossless ==
  /\ Table /\ said.command = "squeeze" /\ restored.by = "unsqueeze"
  /\ AllMatch /\ Malformed(text, file.columns) = {}
  => restored.rows = [i \in DOMAIN text |-> [a \in AxesOf(file.columns) |-> text[i][a].value]]
=============================================================================
