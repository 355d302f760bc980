---------------------------- MODULE MCMemoryLog ----------------------------
(***************************************************************************)
(* An instance of MemoryLog: lines that fit, that fill the limit, and that *)
(* are cut with and without the marker.                                    *)
(***************************************************************************)
EXTENDS MemoryLog

CONSTANT viewer

AllSizes == {0, 2, 5}

NoLimit == [MaxLines |-> 0, MaxBytes |-> 0]
TwoLines == [MaxLines |-> 2, MaxBytes |-> 0]
FourBytes == [MaxLines |-> 0, MaxBytes |-> 4]
OneByte == [MaxLines |-> 2, MaxBytes |-> 1]
AllLimits == {NoLimit, TwoLines, FourBytes, OneByte}
=============================================================================
