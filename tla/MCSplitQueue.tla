---------------------------- MODULE MCSplitQueue ----------------------------
(***************************************************************************)
(* Three chains, one of them of several descriptors with its head not in   *)
(* first place, against a queue of four or of two descriptors whose ring   *)
(* indices wrap after two laps.                                            *)
(***************************************************************************)
EXTENDS SplitQueue, TLC

CONSTANTS c1, c2, c3

\* Small queue: c3 fills it.
SmallDescriptorCount == c1 :> 1 @@ c2 :> 1 @@ c3 :> 2
SmallLocalHead       == c1 :> 0 @@ c2 :> 0 @@ c3 :> 1

\* Large queue: freed entries are no longer adjacent when c3 is placed.
LargeDescriptorCount == c1 :> 1 @@ c2 :> 2 @@ c3 :> 3
LargeLocalHead       == c1 :> 0 @@ c2 :> 1 @@ c3 :> 5
============================================================================
