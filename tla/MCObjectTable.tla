--------------------------- MODULE MCObjectTable ---------------------------
(***************************************************************************)
(* A table of two slots with two generations each, over two reset        *)
(* epochs: every slot is reused and retired, in both orders, before and    *)
(* after the renewal.                                                      *)
(***************************************************************************)
EXTENDS ObjectTable

MCNamespaces == 1..2
============================================================================
