----------------------------- MODULE MCNinePWire -----------------------------
(* A small instance of NinePWire.tla: bytes of two bits.                     *)
EXTENDS NinePWire

Ints  == {1, 250}        \* one byte, and four different ones
Longs == {2, 40001}
Words == {<< >>, <<1, 3>>}
Names == {<< >>, <<<<1>>>>, <<<<3, 2, 1>>, <<2>>>>}

ArgsOf ==
    [Tversion  |-> Ints \X Words,        Tattach  |-> Ints \X Ints \X Words \X Words \X {0},
     Twalk     |-> Ints \X Ints \X Names, Tlopen   |-> Ints \X Ints,
     Tread     |-> Ints \X Longs \X Ints,   Tclunk   |-> {<<u>> : u \in Ints},
     Tgetattr  |-> Ints \X Longs,          Treaddir |-> Ints \X Longs \X Ints,
     Twrite    |-> Ints \X Longs \X Words, Tlcreate |-> Ints \X Words \X Ints \X {3} \X {0},
     Tmkdir    |-> Ints \X Words \X Ints \X {0},
     Tunlinkat |-> Ints \X Words \X {0, 32},
     Trenameat |-> Ints \X Words \X Ints \X Words]

MCCalls ==
    UNION {[type : {t}, tag : IF t = "Tversion" THEN {kNoTag} ELSE {6},
            args : ArgsOf[t]] : t \in DOMAIN ArgsOf}

Qids    == {<<2, 27, 40001>>, <<0, 1, 2>>}
\* The bytes of valid are none of the qid's type, in either half.
Stat(k) == <<43690 + k, <<1, k + 2, k + 3>>, k, k + 4, k + 5>>
               \o [i \in 1..15 |-> (k + i) * 259]
Entry(i, name) == <<<<1, 100 + i, 3000 + i>>, i, 2, name>>

ValsOf ==
    [Rlerror   |-> {<<0>>, <<2>>, <<110>>},
     Rversion  |-> Ints \X Words,                 Rattach   |-> {<<q>> : q \in Qids},
     Rwalk     |-> {<< >>} \cup {<<q>> : q \in Qids} \cup Qids \X Qids,
     Rlopen    |-> Qids \X Ints,
     Rread     |-> {<<t>> : t \in Words},        Rclunk    |-> {<< >>},
     Rgetattr  |-> {Stat(0), Stat(100)},         Rwrite    |-> {<<u>> : u \in Ints},
     Rreaddir  |-> {<< >>, <<Entry(1, <<2>>)>>,
                    <<Entry(1, <<2>>), Entry(2, << >>), Entry(3, <<1, 3, 2>>)>>},
     Rlcreate  |-> Qids \X Ints,
     Rmkdir    |-> {<<q>> : q \in Qids}, Runlinkat |-> {<< >>},  Rrenameat |-> {<< >>}]

MCAnswers ==
    UNION {[type : {t}, tag : {6}, vals : ValsOf[t]] : t \in DOMAIN ValsOf}

MCStrays == {a \in MCAnswers : a.type \in {"Rlerror", "Rclunk", "Rreaddir"}}

ASSUME ServersAnswers == ServerKeepsToLayouts
=============================================================================
