---------------------------- MODULE MCWifiStartup ----------------------------
(***************************************************************************)
(* WifiStartup for TLC: two access points on the air with different        *)
(* passwords, two connections, forms that are right and wrong.             *)
(***************************************************************************)
EXTENDS WifiStartup

Wifi(s, p) == [kind |-> "wifi", ssid |-> s, pass |-> p]
Typed == {Wifi("a", "p"), Wifi("b", "p"), [kind |-> "config"]}
Secrets == [s \in {"a", "b"} |-> IF s = "a" THEN "p" ELSE "q"]
=============================================================================
