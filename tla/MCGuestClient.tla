---------------------------- MODULE MCGuestClient ---------------------------
(***************************************************************************)
(* Two chains, two slots and three request ids, which wrap after three     *)
(* requests.                                                               *)
(***************************************************************************)
EXTENDS GuestClient

CONSTANTS c1, c2
=============================================================================
