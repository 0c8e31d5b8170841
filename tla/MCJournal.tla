------------------------------ MODULE MCJournal -----------------------------
(* TLC instance of Journal.                                                *)
EXTENDS Journal

\* Stands for the CRC-32: 0 for nothing, and different for what is compared.
Code(cells) == FoldLeft(LAMBDA sum, c : 37 * sum + c + 8, 0, cells)

\* One cell, and two of which the last may be zero.
SamplePayloads == {<<1>>, <<2, 0>>, <<3, 3>>}
=============================================================================
