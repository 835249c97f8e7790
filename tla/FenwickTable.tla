---------------------------- MODULE FenwickTable ----------------------------
(***************************************************************************)
(* One csa::FenwickFreqN over its lifetime: any sequence of update() on a  *)
(* table that reset() made, with find() and cumfreq() asked at every       *)
(* moment.                                                                 *)
(***************************************************************************)
EXTENDS FenwickFreqN

VARIABLE table

TableInit == table = Reset

Update(sym) == table' = Updated(table, sym)

TableNext == \E sym \in Symbols : Update(sym)

TableSpec == TableInit /\ [][TableNext]_table
-----------------------------------------------------------------------------

\* The tree is a plain table of counts to whoever asks for them: no sequence of
\* updates and rescalings makes a prefix sum drift from the counts, and no
\* count becomes 0, which the coder could not encode.
Plain == INSTANCE FrequencyTable WITH freq <- [s \in Symbols |-> FreqOf(table, s)]
ImplementsTable == Plain!Spec
=============================================================================
