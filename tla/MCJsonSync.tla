----------------------------- MODULE MCJsonSync -----------------------------
(***************************************************************************)
(* JsonSync for TLC: the two devices of the default buddy list.            *)
(***************************************************************************)
EXTENDS JsonSync

Devices == {"george", "freddy"}
Conns == {"c1", "c2"}
=============================================================================
