---------------------------- MODULE MCRingBuffer ----------------------------
(***************************************************************************)
(* Instances of RingBuffer for TLC.  Sectors of 12 bytes, pages of 4 and   *)
(* headers of 2 keep every boundary of the real geometry: a header that    *)
(* straddles two pages, a record that ends on a sector boundary, a sector  *)
(* tail too short for a header and a byte, a record that fills a sector.   *)
(***************************************************************************)
EXTENDS RingBuffer

OneCtx == {"main"}
NoIrq == {}
OneBuffer == {"pagebuff"}
SharedBuffer == [c \in Ctx |-> "pagebuff"]

Letters == {"a", "b", "c", "d", "x"}
Short == <<"a", "b", "c">>
Long == <<"a", "b", "c", "d", "a", "b", "c", "d">>
Mixed == {Short, Long}
WithTooLong == {Short, Long, Long \o <<"a">>}
Pairs == {<<"a", "b">>, <<"b", "a">>}

\* The properties are checked, as they are proved, for one context at a time.
ASSUME OneContextAssumption == OneContext
=============================================================================
