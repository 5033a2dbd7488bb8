----------------------------- MODULE MCScanList -----------------------------
(***************************************************************************)
(* ScanList for TLC: four names, two of them of one length, four strengths *)
(* of which one is too weak, and an anonymous access point.                *)
(***************************************************************************)
EXTENDS ScanList

Ssids == {"a", "b", "cc", "ddd", ""}
Lengths == [s \in Ssids |-> CASE s = "" -> 0 [] s = "cc" -> 2 [] s = "ddd" -> 3
                              [] OTHER -> 1]
Strengths == {-90, -80, -70, -60}
Known == {{"a", "cc", "ddd"}}
=============================================================================
