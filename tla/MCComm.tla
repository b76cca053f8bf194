------------------------------- MODULE MCComm -------------------------------
(* The instances of Comm that TLC checks: the two contexts next to Main are *)
(* interchangeable.                                                         *)
EXTENDS Comm, TLC
CONSTANTS t1, t2

SenderSymmetry == Permutations(Tasks)
=============================================================================
