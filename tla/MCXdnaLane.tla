----------------------------- MODULE MCXdnaLane -----------------------------
(* Small instances of XdnaLane for TLC.                                    *)
EXTENDS XdnaLane, TLC

CONSTANTS b1, b2
MCBuffers == {b1, b2}
AnyBindings == SUBSET MCBuffers \ {{}}
Symmetry == Permutations(MCBuffers)
=============================================================================
