------------------------------ MODULE MCTcpTest ------------------------------
(***************************************************************************)
(* TcpTest for TLC: two slots and buffers of two pieces.  One client       *)
(* object is used again and again with faults and one slot; two share the  *)
(* buffers, with a slot for each or one slot for both.                     *)
(***************************************************************************)
EXTENDS TcpTest

Clients == {"k1", "k2"}
Alone == [clients |-> {"k1"}, mem |-> 1, loss |-> 1, dead |-> {2}]
Together(D) == [clients |-> Clients, mem |-> 0, loss |-> 0, dead |-> D]
AloneOrTogether == {Alone, Together({}), Together({2})}
=============================================================================
