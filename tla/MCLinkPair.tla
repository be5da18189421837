------------------------------ MODULE MCLinkPair ------------------------------
(* An instance of LinkPair for TLC.                                        *)
EXTENDS LinkPair

MCInfo == 1..Parts
=============================================================================
