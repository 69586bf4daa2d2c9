----------------------------- MODULE MCDataPath -----------------------------
(* A small instance of DataPath.tla.                                        *)
EXTENDS DataPath

CONSTANTS a, b, z  \* bytes

\* One chunk of two bytes, or two of one; and nothing at all.
MCData == {<< >>, <<a, b>>}

\* iounit 1: chunks of one byte; no iounit: chunks of two, a part of which
\* came with the client's message.
HowOpen(acc, trunc, append, iounit) ==
    [acc |-> acc, trunc |-> trunc, append |-> append, iounit |-> iounit]
MCOpens == {HowOpen({"rd"}, FALSE, FALSE, 0),
            HowOpen({"rd", "wr"}, TRUE, FALSE, 1),
            HowOpen({"wr"}, FALSE, TRUE, 0)}

\* Names whose entry is smaller on the wire than as a record, and larger.
MCNameLen == <<1, 4, 12>>
=============================================================================
