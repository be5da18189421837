------------------------------ MODULE MCMainLoop ------------------------------
(* Instances of MainLoop for TLC: a few item addresses.                    *)
EXTENDS MainLoop
CONSTANTS i1, i2, i3
=============================================================================
