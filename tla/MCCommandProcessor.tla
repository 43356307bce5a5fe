------------------------- MODULE MCCommandProcessor -------------------------
(* Instances of CommandProcessor for TLC.                                  *)
EXTENDS CommandProcessor, TLC

MCChildLimit == [k \in ChildKinds |-> 2]
MCPolicy == [k \in BulkKinds |-> IF k = "buffer" THEN 2 ELSE 1]
MCSizes == 1..2
MCNamespaces == 1..2
=============================================================================
