----------------------------- MODULE WifiStartup -----------------------------
(***************************************************************************)
(* picow_web.c: main up to the point where the device is on the network.   *)
(* It scans, tries the access points it has a password for, strongest      *)
(* first, and becomes an access point itself for a while so that a user    *)
(* can post credentials (PostHandler).  Main and the callbacks of lwIP     *)
(* interleave; main is preempted between any two of its steps.  ScanList   *)
(* and FlashIo stand behind the list and the password lookup used here.    *)
(***************************************************************************)
EXTENDS PostHandler, Integers, Sequences, FiniteSetsExt, SequencesExt

CONSTANTS
    Air,            \* access points on the air: a subset of Ssid
    Secret,         \* the password that each of them really has
    Flaky,          \* times in a row that a good connect may fail
    MaxTurns        \* bound: turns of the access point's wait (181 in the code)

ASSUME AirAssumption == Air \subseteq Ssid /\ Secret \in [Air -> Password]
ASSUME FlakyAssumption == Flaky \in 0 .. 3 /\ MaxTurns \in Nat \ {0}

VARIABLES
    pc,             \* where main is
    inner,          \* be_access_point was called for a failed connect
    list, found,    \* the sorted scan list and the nodes marked as tried
    count,          \* tries of the connect loop, or turns of the wait
    temp,           \* the ssid that flash_io_write_ssid has copied
    phase           \* history of this access point phase: "stored" a form came,
                    \* "finished" one was finished, "torn" one came between
                    \* the two copies

mainVars == <<pc, inner, list, found, count, temp, phase>>
vars == <<postVars, mainVars>>

\* Is a browser able to reach the device?
Reached == pc \in {"ap", "settle", "copy", "run"}

-----------------------------------------------------------------------------
(* main *)

\* The scan gives the access points in the order of their strength now.
Scan ==
    /\ pc = "scan"
    /\ list' \in SetToSeqs(Air)
    /\ found' = {}
    /\ pc' = "best"
    /\ UNCHANGED <<postVars, inner, count, temp, phase>>

\* Mutant of Candidates: the mark on the nodes tried is ignored.
Candidates_Again == {i \in DOMAIN list : flash[list[i]] # NoPassword}

\* Nodes not tried that flash has a password for.
Candidates == {i \in DOMAIN list : list[i] \notin found /\ flash[list[i]] # NoPassword}

\* scan_find_best_ap leaves the password in wifi_password, an empty one if
\* there is no access point to try.
Best ==
    /\ pc = "best"
    /\ count' = 0
    /\ IF Candidates # {}
       THEN LET s == list[Min(Candidates)]
            IN  /\ h' = [h EXCEPT !.wifi_ssid = s, !.wifi_password = flash[s]]
                /\ found' = found \cup {s}
                /\ pc' = "connect"
                /\ UNCHANGED inner
       ELSE /\ h' = [h EXCEPT !.wifi_password = Empty]
            /\ inner' = FALSE
            /\ pc' = "be_ap"
            /\ UNCHANGED found
    /\ UNCHANGED <<http, flash, typed, stored, earned, refused, list, temp, phase>>

Good == h.wifi_password = Secret[h.wifi_ssid]

ConnectSucceeds ==
    /\ pc = "connect" /\ Good
    /\ pc' = "run"
    /\ count' = 0
    /\ UNCHANGED <<postVars, inner, list, found, temp, phase>>

\* Four tries are made.
LastTry == count >= 3

\* PICO_ERROR_CONNECT_FAILED is retried, any other error (here: only for a wrong
\* password) is not.
ConnectFails ==
    /\ pc = "connect"
    /\ Good => count < Flaky
    /\ \/ ~LastTry /\ count' = count + 1 /\ UNCHANGED <<pc, inner>>
       \/ /\ LastTry \/ ~Good
          /\ pc' = "be_ap" /\ inner' = TRUE /\ count' = 0
    /\ UNCHANGED <<postVars, list, found, temp, phase>>

-----------------------------------------------------------------------------
(* be_access_point *)

\* Mutant of Fresh: config_changed is not reset.
Fresh_Keep == h

Fresh == [h EXCEPT !.config_changed = FALSE]

be_access_point ==
    /\ pc = "be_ap"
    /\ h' = Fresh
    /\ count' = 0
    /\ phase' = {}
    /\ pc' = "ap"
    /\ UNCHANGED <<http, flash, typed, stored, earned, refused, inner, list, found, temp>>

\* One turn of the wait, a second long, then a look at config_changed.
ApTurn ==
    /\ pc = "ap"
    /\ count' = IF h.config_changed \/ count + 1 = MaxTurns THEN 0 ELSE count + 1
    /\ pc' = CASE h.config_changed -> "settle"
               [] ~h.config_changed /\ count + 1 = MaxTurns -> "leave"
               [] OTHER -> "ap"
    /\ UNCHANGED <<postVars, inner, list, found, temp, phase>>

\* After two seconds flash_io_write_ssid copies wifi_ssid to its buffer.
CopySsid ==
    /\ pc = "settle"
    /\ temp' = h.wifi_ssid
    /\ pc' = "copy"
    /\ UNCHANGED <<postVars, inner, list, found, count, phase>>

\* Then it copies wifi_password, and writes the pair to flash.
WriteSsid ==
    /\ pc = "copy"
    /\ flash' = [flash EXCEPT ![temp] = h.wifi_password]
    /\ temp' = ""
    /\ typed' = [typed EXCEPT ![temp] =
                    IF "torn" \in phase \/ "stored" \notin phase THEN Mixed ELSE @]
    /\ pc' = "leave"
    /\ UNCHANGED <<h, http, stored, earned, refused, inner, list, found, count, phase>>

\* The access point is switched off; after a failed connect the rest of the
\* list is tried, else it is thrown away (removelist) for a new scan.
LeaveAp ==
    /\ pc = "leave"
    /\ pc' = IF inner THEN "best" ELSE "scan"
    /\ list' = IF inner THEN list ELSE <<>>
    /\ found' = IF inner THEN found ELSE {}
    /\ inner' = FALSE
    /\ phase' = {}
    /\ UNCHANGED <<postVars, count, temp>>

-----------------------------------------------------------------------------
(* Callbacks *)

\* What a callback adds to the history of the access point phase.
Note(S) ==
    phase' = IF pc \notin {"ap", "settle", "copy"} THEN phase
             ELSE phase \cup S \cup (IF h'.config_changed THEN {"finished"} ELSE {})

Callback ==
    /\ \/ Reached /\ \E c \in Conn, f \in Forms : PostBegin(c, f) /\ Note({})
       \/ /\ Reached
          /\ \E c \in Conn, whole, last \in BOOLEAN :
                /\ PostData(c, whole, last)
                /\ Note(IF ~Stores(c, whole) THEN {}
                        ELSE IF pc = "copy" THEN {"stored", "torn"} ELSE {"stored"})
       \/ Reached /\ cgi_handler_resflash /\ Note({})
       \/ \E c \in Conn : PostLost(c) /\ Note({})
    /\ UNCHANGED <<pc, inner, list, found, count, temp>>

Init ==
    /\ PostInit
    /\ flash \in [Ssid -> Password \cup {NoPassword}]
    /\ typed = flash
    /\ pc = "scan" /\ inner = FALSE /\ list = <<>> /\ found = {} /\ count = 0
    /\ temp = "" /\ phase = {}

Main == Scan \/ Best \/ ConnectSucceeds \/ ConnectFails
            \/ be_access_point \/ ApTurn \/ CopySsid \/ WriteSsid \/ LeaveAp
Next == Main \/ Callback
Spec == Init /\ [][Next]_vars

\* Main runs whenever no callback does.
FairSpec == Spec /\ WF_vars(Main)

-----------------------------------------------------------------------------
\* Main writes the credentials that it found in wifi_ssid and wifi_password two
\* seconds after a form was finished.  Whatever other forms came since, no old
\* password comes back and none ends up with another ssid, provided a form was
\* received in this phase at all and none between the two copies.
StoredAsTyped ==
    \A s \in Ssid : flash[s] \in {NoPassword, typed[s]} \/ typed[s] = Mixed

\* The wait for a user ends early only if a form was finished during it: a POST
\* whose connection is lost between two phases does not end the next one.
EarlyExitHasForm == pc = "settle" => "finished" \in phase

\* "if connection fails, retry from step 2 until all discovered and known APs
\* have been tried" (picow_web.c:174): when flash has the right password of some
\* access point on the air, and goes on having it, the device connects, though
\* others are stronger and fail, and though a connect fails a few times.
Reachable == \E s \in Air : flash[s] = Secret[s]
EventuallyConnects == <>[]Reachable => <>(pc = "run")
=============================================================================
