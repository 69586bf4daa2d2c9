------------------------------- MODULE Bytes -------------------------------
(***************************************************************************)
(* Contents of a file as a sequence of bytes, and what storing bytes at a  *)
(* position makes of it.                                                   *)
(***************************************************************************)
EXTENDS Naturals, Sequences

CONSTANT Zero  \* the byte that fills a gap before a write

SmallerOf(a, b) == IF a < b THEN a ELSE b
LargerOf(a, b)  == IF a < b THEN b ELSE a

\* Contents c after the bytes d were stored at position at.
Store(c, at, d) ==
    IF d = << >> THEN c
    ELSE [i \in 1..LargerOf(Len(c), at + Len(d)) |->
            IF i \in at + 1..at + Len(d) THEN d[i - at]
            ELSE IF i <= Len(c) THEN c[i] ELSE Zero]
=============================================================================
