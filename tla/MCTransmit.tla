------------------------------ MODULE MCTransmit ------------------------------
(***************************************************************************)
(* Instances of TransmitThread for TLC: a few packets of each kind, of     *)
(* which those of one kind are interchangeable.                            *)
(***************************************************************************)
EXTENDS TransmitThread, TLC

CONSTANTS f1, f2, f3, s1, b1

FrameSymmetry == Permutations({f1, f2, f3})
=============================================================================
