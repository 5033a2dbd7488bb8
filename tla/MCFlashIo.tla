------------------------------ MODULE MCFlashIo ------------------------------
(***************************************************************************)
(* FlashIo for TLC: main stores one ssid with two passwords, callbacks     *)
(* store a longer ssid that begins with it, and two host names.            *)
(***************************************************************************)
EXTENDS FlashIo

Names == {"a", "ab", "h", "k"}
LongerNames == [n \in Names |-> IF n = "a" THEN {"ab"} ELSE {}]

Ssid(n, p) == [fn |-> "write_ssid", name |-> n, pw |-> p]
Do(f, n) == [fn |-> f, name |-> n, pw |-> ""]
Any == CHOOSE n \in Names : TRUE

SsidCalls ==
    {Ssid("a", "p"), Ssid("a", "q"), Do("find", "a"), Do("read_host", Any)}
PostCalls ==
    {Ssid("ab", "p"), Do("write_host", "h"), Do("write_host", "k"), Do("wipe", Any)}
WipeOnly == {Do("wipe", Any)}

\* The properties are checked, as they are proved, with other names in callbacks.
ASSUME NamesAssumption == OtherSsids
=============================================================================
