------------------------------ MODULE MCLZCodec ------------------------------
\* A hash under which most windows that differ collide, also those that share
\* their first byte.
EXTENDS LZCodec

MCBytes == {0, 1}
MCHash == [w \in [1 .. 2 -> MCBytes] |-> IF w = <<1, 1>> THEN 1 ELSE 0]
=============================================================================
