------------------------- MODULE IdentityRegistry -------------------------
(***************************************************************************)
(* What the object tables promise the rest of the device about names: a    *)
(* name is issued for one object, is never issued a second time, and never *)
(* names anything again once it has been revoked.  Nothing is said about   *)
(* slots, generations or namespaces; ObjectTable implements this.          *)
(***************************************************************************)
CONSTANTS Names,    \* every object ID that can be written on the wire
          Objects   \* the records the tables store

VARIABLES named,    \* the names that resolve now, with the object of each
          spent     \* the names that were issued and have been revoked

vars == <<named, spent>>

\* Functions from a subset of Names to Objects.
PartialNaming == UNION {[D -> Objects] : D \in SUBSET Names}

TypeOK == /\ named \in PartialNaming
          /\ spent \subseteq Names

Init == /\ named = <<>>
        /\ spent = {}

\* A name is chosen that never named anything.
Issue == \E name \in Names \ (DOMAIN named \cup spent), object \in Objects :
            /\ named' = [n \in DOMAIN named \cup {name} |->
                            IF n = name THEN object ELSE named[n]]
            /\ UNCHANGED spent

\* Names are only ever taken away for good.  One removal revokes one name,
\* renewing the tables revokes all of them.
Revoke == \E gone \in SUBSET DOMAIN named :
             /\ gone # {}
             /\ named' = [n \in DOMAIN named \ gone |-> named[n]]
             /\ spent' = spent \cup gone

Next == Issue \/ Revoke

Spec == Init /\ [][Next]_vars
============================================================================
