--------------------------- MODULE MCDeviceState ---------------------------
(* Instances of DeviceState for TLC.                                       *)
EXTENDS DeviceState, TLC

MCChildLimit == [k \in ChildKinds |-> IF k = "queue" THEN 1 ELSE 2]
MCPolicy == [k \in BulkKinds |-> IF k = "buffer" THEN 3 ELSE 2]
MCSizes == 1..2
Symmetry == Permutations(Contexts) \cup Permutations(Buffers)
            \cup Permutations(Programs) \cup Permutations(Events)
============================================================================
