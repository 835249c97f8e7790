------------------------------ MODULE ByteWord ------------------------------
(***************************************************************************)
(* The widths the entropy coders compute with: a byte has Base values, 256 *)
(* in the code, and a u32 four bytes.                                      *)
(***************************************************************************)
EXTENDS Integers

CONSTANT Base  \* values of a byte

ASSUME ByteAssumption == Base \in Nat /\ Base > 1

Word == Base * Base * Base * Base

ByteValues == 0 .. Base - 1
=============================================================================
