-------------------------- MODULE WifiStartupProofs --------------------------
(***************************************************************************)
(* The forms posted to the access point and what main does with them, for  *)
(* any number of connections, forms, networks and turns of the wait.       *)
(***************************************************************************)
EXTENDS WifiStartup, WellFoundedInduction, TLAPS

(* Numbers *)

\* Every set of natural numbers has a least element.
LEMMA LeastElement ==
    ASSUME NEW T, T \subseteq Nat, T # {}
    PROVE  \E x \in T : \A y \in T : x <= y
<1> DEFINE R == {p \in Nat \X Nat : p[1] < p[2]}
<1>1. IsWellFoundedOn(R, Nat)
  BY NatLessThanWellFounded DEF OpToRel
<1>2. PICK x \in T : \A y \in T : ~(<<y, x>> \in R)
  <2> HIDE DEF R
  <2> QED
    BY <1>1, WFMin
<1>3. \A y \in T : y < x => <<y, x>> \in R
  BY <1>2
<1>4. \A y \in T : ~(y < x)
  BY <1>2, <1>3
<1>5. \A y \in T : x <= y
  BY <1>4
<1> QED
  BY <1>5

-----------------------------------------------------------------------------
\* The globals of post_handler.c.
Globals ==
    [wifi_ssid : Ssid \cup {""}, wifi_password : Password \cup {NoPassword, Empty},
     config_changed : BOOLEAN, current : Conn \cup {NoConn}, valid : Conn \cup {NoConn}]

\* What the globals, httpd, the flash and main can hold.
TypeOK ==
    /\ h \in Globals
    /\ http \in [Conn -> {NoPost} \cup [form : Forms, begun : BOOLEAN]]
    /\ flash \in [Ssid -> Password \cup {NoPassword, Empty}]
    /\ typed \in [Ssid -> Password \cup {NoPassword, Mixed}]
    /\ stored \subseteq Conn
    /\ earned \in BOOLEAN /\ refused \in BOOLEAN
    /\ pc \in {"scan", "best", "connect", "be_ap", "ap", "settle", "copy", "leave", "run"}
    /\ \A i \in DOMAIN list : i \in Nat /\ list[i] \in Air
    /\ temp \in Ssid \cup {""}
    /\ phase \subseteq {"stored", "finished", "torn"}

\* The handler is with no connection, or with one that httpd still posts for;
\* valid is that connection, and only after it has stored credentials.
SessionInv ==
    /\ h.current # NoConn => h.current \in Posting
    /\ h.valid # NoConn => h.valid = h.current /\ h.valid \in stored

\* Main goes by a flag that was set since it reset it.
FlagInv ==
    /\ pc \in {"ap", "settle", "copy"} /\ h.config_changed => "finished" \in phase
    /\ pc = "settle" => "finished" \in phase

\* Once a form came, wifi_ssid and wifi_password are one that was typed.  Main
\* copies the ssid first, and the password is still that of the copy as long as
\* no form came in between.
PairInv ==
    /\ pc \in {"ap", "settle"} /\ "stored" \in phase
          => h.wifi_ssid \in Ssid /\ h.wifi_password = typed[h.wifi_ssid]
    /\ pc = "copy" /\ "stored" \in phase /\ "torn" \notin phase
          => temp \in Ssid /\ h.wifi_password = typed[temp]

\* The inductive invariant.
Inv ==
    /\ TypeOK
    /\ SessionInv /\ AlwaysAccepted /\ ConfigChangedEarned
    /\ FlagInv /\ PairInv /\ StoredAsTyped

-----------------------------------------------------------------------------
(* The handler and httpd *)

\* A form that is being posted is not the absence of one.
LEMMA PostIsOne ==
    ASSUME NEW p \in [form : Forms, begun : BOOLEAN]
    PROVE  p # NoPost
<1>1. DOMAIN p = {"form", "begun"}
  OBVIOUS
<1>2. DOMAIN NoPost = {"kind"}
  BY DEF NoPost
<1> QED
  BY <1>1, <1>2

\* What httpd holds for a connection that is posting.
LEMMA PostingForm ==
    ASSUME TypeOK, NEW c \in Posting
    PROVE  /\ c \in Conn /\ c # NoConn
           /\ http[c] \in [form : Forms, begun : BOOLEAN]
           /\ http[c].form \in Forms
           /\ http[c].form.kind = "wifi" => http[c].form.ssid \in Ssid /\ http[c].form.pass \in Password
<1>1. c \in Conn /\ c # NoConn /\ http[c] \in [form : Forms, begun : BOOLEAN]
  BY FormAssumption DEF TypeOK, Posting
<1>2. http[c].form \in Forms
  BY <1>1
<1>3. http[c].form.kind = "wifi" => http[c].form \in [kind : {"wifi"}, ssid : Ssid, pass : Password]
  <2>1. http[c].form \in Form
    BY <1>2, FormAssumption
  <2>2. http[c].form \in [kind : {"config"}] => http[c].form.kind = "config"
    OBVIOUS
  <2> QED
    BY <2>1, <2>2 DEF Form
<1> QED
  BY <1>1, <1>2, <1>3

\* Beginning a POST: the handler takes the connection over, whoever had it.
LEMMA BeginStep ==
    ASSUME Inv, NEW c \in Conn, NEW f \in Forms, PostBegin(c, f)
    PROVE  /\ h' = [h EXCEPT !.current = c, !.valid = NoConn]
           /\ http' = [http EXCEPT ![c] = [form |-> f, begun |-> FALSE]]
           /\ stored' = stored \ {c}
           /\ UNCHANGED <<flash, typed, earned, refused>>
<1>1. h.current # c
  BY FormAssumption DEF Inv, SessionInv, PostBegin, Posting
<1> QED
  BY <1>1 DEF PostBegin, httpd_post_begin

\* Ending a POST keeps the session and what config_changed was earned by, and
\* sets config_changed only for credentials that were stored.
LEMMA EndStep ==
    ASSUME TypeOK, NEW g, NEW s \in SUBSET Conn, NEW c \in Posting, EndPost(g, c, s),
           g \in Globals,
           g.current # NoConn => g.current \in Posting,
           g.valid # NoConn => g.valid = g.current /\ g.valid \in s,
           earned
    PROVE  /\ h' \in Globals
           /\ h'.wifi_ssid = g.wifi_ssid /\ h'.wifi_password = g.wifi_password
           /\ http' \in [Conn -> {NoPost} \cup [form : Forms, begun : BOOLEAN]]
           /\ stored' \subseteq Conn
           /\ SessionInv' /\ earned'
<1>1. c \in Conn /\ c # NoConn
  BY PostingForm
<1>2. CASE g.current # c
  <2>1. h' = g
    BY <1>2 DEF EndPost, httpd_post_finished
  <2> QED
    BY <1>1, <1>2, <2>1 DEF EndPost, SessionInv, TypeOK, Globals, Posting
<1>3. CASE g.current = c
  <2>1. h' = [g EXCEPT !.config_changed = @ \/ g.valid = c,
                       !.current = NoConn, !.valid = NoConn]
    BY <1>3 DEF EndPost, httpd_post_finished
  <2>2. /\ h' \in Globals
        /\ h'.wifi_ssid = g.wifi_ssid /\ h'.wifi_password = g.wifi_password
        /\ h'.current = NoConn /\ h'.valid = NoConn
        /\ h'.config_changed = (g.config_changed \/ g.valid = c)
    BY <2>1 DEF Globals
  <2>3. earned'
    BY <1>1, <2>2 DEF EndPost
  <2> QED
    BY <1>1, <2>2, <2>3 DEF EndPost, SessionInv, TypeOK, Globals
<1> QED
  BY <1>2, <1>3

-----------------------------------------------------------------------------
(* Callbacks *)

\* What Note records is what main's flag needs.
LEMMA NoteStep ==
    ASSUME TypeOK, FlagInv, pc' = pc, NEW S, S \subseteq {"stored", "torn"}, Note(S)
    PROVE  /\ FlagInv'
           /\ phase' \subseteq {"stored", "finished", "torn"}
           /\ pc \in {"ap", "settle", "copy"}
                 => \A x \in {"stored", "torn"} : x \in phase' <=> x \in phase \cup S
<1>1. CASE pc \in {"ap", "settle", "copy"}
  <2>1. phase' = phase \cup S \cup (IF h'.config_changed THEN {"finished"} ELSE {})
    BY <1>1 DEF Note
  <2> QED
    BY <1>1, <2>1 DEF FlagInv, TypeOK
<1>2. CASE pc \notin {"ap", "settle", "copy"}
  <2>1. phase' = phase
    BY <1>2 DEF Note
  <2> QED
    BY <1>2, <2>1 DEF FlagInv, TypeOK
<1> QED
  BY <1>1, <1>2

\* A callback that leaves the credentials alone.
LEMMA QuietNote ==
    ASSUME Inv, Note({}), UNCHANGED <<pc, temp, typed>>,
           h'.wifi_ssid = h.wifi_ssid, h'.wifi_password = h.wifi_password
    PROVE  PairInv'
<1>1. pc \in {"ap", "settle", "copy"}
         => \A x \in {"stored", "torn"} : x \in phase' <=> x \in phase
  BY NoteStep DEF Inv
<1> QED
  BY <1>1 DEF Inv, PairInv

\* The variables of main that no callback touches.
MainStays == UNCHANGED <<pc, inner, list, found, count, temp>>

\* A POST begins.
LEMMA PostBeginInv ==
    ASSUME Inv, MainStays, NEW c \in Conn, NEW f \in Forms, PostBegin(c, f), Note({})
    PROVE  Inv'
<1>1. /\ h' = [h EXCEPT !.current = c, !.valid = NoConn]
      /\ http' = [http EXCEPT ![c] = [form |-> f, begun |-> FALSE]]
      /\ stored' = stored \ {c}
      /\ UNCHANGED <<flash, typed, earned, refused>>
  BY BeginStep
<1>2. FlagInv' /\ phase' \subseteq {"stored", "finished", "torn"}
  BY NoteStep DEF Inv, MainStays
<1>3. h' \in Globals /\ h'.current = c /\ h'.valid = NoConn
      /\ h'.wifi_ssid = h.wifi_ssid /\ h'.wifi_password = h.wifi_password
  BY <1>1 DEF Inv, TypeOK, Globals
<1>4. PairInv'
  BY <1>1, <1>3, QuietNote DEF MainStays
<1>5. TypeOK'
  BY <1>1, <1>2, <1>3 DEF Inv, TypeOK, MainStays
<1>6. SessionInv'
  <2>1. http'[c] \in [form : Forms, begun : BOOLEAN]
    BY <1>1 DEF Inv, TypeOK
  <2> QED
    BY <2>1, <1>3, PostIsOne DEF SessionInv, Posting
<1> QED
  BY <1>1, <1>2, <1>4, <1>5, <1>6
     DEF Inv, AlwaysAccepted, ConfigChangedEarned, StoredAsTyped

\* A connection is lost in the middle of a POST.
LEMMA PostLostInv ==
    ASSUME Inv, MainStays, NEW c \in Conn, PostLost(c), Note({})
    PROVE  Inv'
<1>1. c \in Posting /\ EndPost(h, c, stored) /\ UNCHANGED <<flash, typed, refused>>
  BY DEF PostLost
<1>2. /\ h' \in Globals
      /\ h'.wifi_ssid = h.wifi_ssid /\ h'.wifi_password = h.wifi_password
      /\ http' \in [Conn -> {NoPost} \cup [form : Forms, begun : BOOLEAN]]
      /\ stored' \subseteq Conn
      /\ SessionInv' /\ earned'
  BY <1>1, EndStep DEF Inv, TypeOK, SessionInv, ConfigChangedEarned
<1>3. FlagInv' /\ phase' \subseteq {"stored", "finished", "torn"}
  BY NoteStep DEF Inv, MainStays
<1>4. PairInv'
  BY <1>1, <1>2, QuietNote DEF MainStays
<1>5. TypeOK'
  BY <1>1, <1>2, <1>3 DEF Inv, TypeOK, MainStays
<1> QED
  BY <1>1, <1>2, <1>3, <1>4, <1>5
     DEF Inv, AlwaysAccepted, ConfigChangedEarned, StoredAsTyped

\* The page that erases flash: it loses passwords and mixes none.
LEMMA ResflashInv ==
    ASSUME Inv, MainStays, cgi_handler_resflash, Note({})
    PROVE  Inv'
<1>1. FlagInv' /\ phase' \subseteq {"stored", "finished", "torn"}
  BY NoteStep DEF Inv, MainStays
<1>2. PairInv'
  BY QuietNote DEF MainStays, cgi_handler_resflash
<1>3. TypeOK'
  BY <1>1 DEF Inv, TypeOK, MainStays, cgi_handler_resflash
<1>4. SessionInv' /\ StoredAsTyped'
  BY DEF Inv, SessionInv, Posting, StoredAsTyped, cgi_handler_resflash
<1> QED
  BY <1>1, <1>2, <1>3, <1>4
     DEF Inv, AlwaysAccepted, ConfigChangedEarned, cgi_handler_resflash

\* A pbuf of a form arrives, and may be the last one.
LEMMA PostDataInv ==
    ASSUME Inv, MainStays, NEW c \in Conn, NEW whole \in BOOLEAN, NEW last \in BOOLEAN,
           PostData(c, whole, last),
           Note(IF ~Stores(c, whole) THEN {}
                ELSE IF pc = "copy" THEN {"stored", "torn"} ELSE {"stored"})
    PROVE  Inv'
<1> DEFINE f == http[c].form
           g == httpd_post_receive_data(c, f, whole)
           s == IF Stores(c, whole) THEN stored \cup {c} ELSE stored
<1>1. c \in Posting
  BY DEF PostData
<1>2. f \in Forms /\ c \in Conn /\ c # NoConn
      /\ (f.kind = "wifi" => f.ssid \in Ssid /\ f.pass \in Password)
  BY <1>1, PostingForm DEF Inv
<1>3. IF Stores(c, whole)
      THEN /\ g = [h EXCEPT !.wifi_ssid = f.ssid, !.wifi_password = f.pass, !.valid = c]
           /\ h.current = c /\ f.kind = "wifi"
      ELSE g = h
  BY DEF Stores, httpd_post_receive_data
<1>4. /\ g \in Globals /\ g.current = h.current
      /\ IF Stores(c, whole)
         THEN g.wifi_ssid = f.ssid /\ g.wifi_password = f.pass /\ g.valid = c
         ELSE g.wifi_ssid = h.wifi_ssid /\ g.wifi_password = h.wifi_password /\ g.valid = h.valid
  <2> HIDE DEF f, g
  <2>1. h \in Globals
    BY DEF Inv, TypeOK
  <2>2. CASE Stores(c, whole)
    <3>1. /\ g = [h EXCEPT !.wifi_ssid = f.ssid, !.wifi_password = f.pass, !.valid = c]
          /\ f.ssid \in Ssid /\ f.pass \in Password /\ c \in Conn
      BY <2>2, <1>2, <1>3
    <3>2. g \in Globals
      BY ONLY <2>1, <3>1 DEF Globals
    <3>3. g.current = h.current /\ g.wifi_ssid = f.ssid /\ g.wifi_password = f.pass /\ g.valid = c
      BY ONLY <2>1, <3>1 DEF Globals
    <3> QED
      BY <2>2, <3>2, <3>3
  <2>3. CASE ~Stores(c, whole)
    BY <2>1, <2>3, <1>3
  <2> QED
    BY <2>2, <2>3
<1>5. /\ s \in SUBSET Conn
      /\ g.current # NoConn => g.current \in Posting
      /\ g.valid # NoConn => g.valid = g.current /\ g.valid \in s
  <2>1. CASE Stores(c, whole)
    BY <2>1, <1>1, <1>2, <1>3, <1>4 DEF Inv, TypeOK
  <2>2. CASE ~Stores(c, whole)
    BY <2>2, <1>3 DEF Inv, TypeOK, SessionInv
  <2> QED
    BY <2>1, <2>2
<1>6. /\ refused' = refused
      /\ IF Stores(c, whole)
         THEN /\ flash' = [flash EXCEPT ![f.ssid] = f.pass]
              /\ typed' = [typed EXCEPT ![f.ssid] = f.pass]
         ELSE UNCHANGED <<flash, typed>>
  BY DEF PostData
<1>7. \/ EndPost(g, c, s)
      \/ /\ h' = g /\ http' = [http EXCEPT ![c].begun = TRUE]
         /\ stored' = s /\ UNCHANGED earned
  BY DEF PostData
<1> HIDE DEF g, s, f
<1>8. /\ h' \in Globals
      /\ h'.wifi_ssid = g.wifi_ssid /\ h'.wifi_password = g.wifi_password
      /\ http' \in [Conn -> {NoPost} \cup [form : Forms, begun : BOOLEAN]]
      /\ stored' \subseteq Conn
      /\ SessionInv' /\ earned'
  <2>1. CASE EndPost(g, c, s)
    BY <2>1, <1>1, <1>4, <1>5, EndStep DEF Inv, ConfigChangedEarned
  <2>2. CASE /\ h' = g /\ http' = [http EXCEPT ![c].begun = TRUE]
             /\ stored' = s /\ UNCHANGED earned
    <3>1. http[c] \in [form : Forms, begun : BOOLEAN]
      BY <1>1, PostingForm DEF Inv
    <3>2. /\ http'[c] \in [form : Forms, begun : BOOLEAN]
          /\ \A d \in Conn : d # c => http'[d] = http[d]
          /\ http' \in [Conn -> {http[d] : d \in Conn} \cup {http'[c]}]
      <4>1. [http[c] EXCEPT !.begun = TRUE] \in [form : Forms, begun : BOOLEAN]
        BY <3>1
      <4>2. http' = [http EXCEPT ![c] = [http[c] EXCEPT !.begun = TRUE]]
        BY <2>2
      <4> DEFINE r == [http[c] EXCEPT !.begun = TRUE]
      <4> HIDE DEF r
      <4>3. http' = [http EXCEPT ![c] = r]
        BY <4>2, Zenon DEF r
      <4>4. /\ http'[c] = r /\ \A d \in Conn : d # c => http'[d] = http[d]
            /\ http' \in [Conn -> {http[d] : d \in Conn} \cup {http'[c]}]
        BY <4>3, <1>2 DEF Inv, TypeOK
      <4> QED
        BY <4>1, <4>4 DEF r
    <3>3. http' \in [Conn -> {NoPost} \cup [form : Forms, begun : BOOLEAN]]
      BY <3>2 DEF Inv, TypeOK
    <3>4. \A d \in Posting : http'[d] # NoPost
      BY <3>2, PostIsOne DEF Posting
    <3> QED
      BY <2>2, <3>3, <3>4, <1>4, <1>5 DEF Inv, ConfigChangedEarned, SessionInv, Posting
  <2> QED
    BY <1>7, <2>1, <2>2
<1>9. /\ flash' \in [Ssid -> Password \cup {NoPassword, Empty}]
      /\ typed' \in [Ssid -> Password \cup {NoPassword, Mixed}]
      /\ StoredAsTyped'
  <2>1. /\ flash \in [Ssid -> Password \cup {NoPassword, Empty}]
        /\ typed \in [Ssid -> Password \cup {NoPassword, Mixed}]
        /\ StoredAsTyped
    BY DEF Inv, TypeOK
  <2>2. CASE Stores(c, whole)
    <3>1. f.ssid \in Ssid /\ f.pass \in Password
      BY <2>2, <1>2, <1>3
    <3>2. flash' = [flash EXCEPT ![f.ssid] = f.pass] /\ typed' = [typed EXCEPT ![f.ssid] = f.pass]
      BY <2>2, <1>6
    <3> QED
      BY ONLY <2>1, <3>1, <3>2 DEF StoredAsTyped
  <2>3. CASE ~Stores(c, whole)
    BY <2>1, <2>3, <1>6 DEF StoredAsTyped
  <2> QED
    BY <2>2, <2>3
<1> DEFINE S == IF ~Stores(c, whole) THEN {}
                ELSE IF pc = "copy" THEN {"stored", "torn"} ELSE {"stored"}
<1>10. S \subseteq {"stored", "torn"}
  OBVIOUS
<1>11. /\ FlagInv' /\ phase' \subseteq {"stored", "finished", "torn"}
       /\ pc \in {"ap", "settle", "copy"}
             => \A x \in {"stored", "torn"} : x \in phase' <=> x \in phase \cup S
  <2> HIDE DEF S
  <2>1. Note(S)
    BY DEF S
  <2> QED
    BY <1>10, <2>1, NoteStep DEF Inv, MainStays
<1>12. PairInv'
  <2>1. CASE Stores(c, whole)
    <3>1. typed'[f.ssid] = f.pass /\ h'.wifi_ssid = f.ssid /\ h'.wifi_password = f.pass /\ f.ssid \in Ssid
      BY <2>1, <1>2, <1>3, <1>4, <1>6, <1>8 DEF Inv, TypeOK
    <3>2. pc = "copy" => "torn" \in phase'
      BY <2>1, <1>11
    <3> QED
      BY <3>1, <3>2 DEF PairInv, MainStays
  <2>2. CASE ~Stores(c, whole)
    BY <2>2, <1>4, <1>6, <1>8, QuietNote DEF MainStays
  <2> QED
    BY <2>1, <2>2
<1>13. TypeOK'
  BY <1>6, <1>8, <1>9, <1>11 DEF Inv, TypeOK, MainStays
<1> QED
  BY <1>6, <1>8, <1>9, <1>11, <1>12, <1>13
     DEF Inv, AlwaysAccepted, ConfigChangedEarned

-----------------------------------------------------------------------------
(* Main *)

\* removelist leaves no node.
LEMMA EmptyList == DOMAIN <<>> = {}
<1>1. <<>> \in Seq({}) /\ Len(<<>>) = 0
  OBVIOUS
<1> QED
  BY <1>1

\* Main's steps outside the access point: nothing it owes the user is at stake,
\* and the scan list holds access points that are on the air.
LEMMA StationInv ==
    ASSUME Inv, Scan \/ Best \/ ConnectSucceeds \/ ConnectFails
    PROVE  Inv'
<1>1. CASE Scan
  <2>1. \A i \in DOMAIN list' : i \in Nat /\ list'[i] \in Air
    BY <1>1 DEF Scan, SetToSeqs
  <2>2. TypeOK'
    BY <1>1, <2>1 DEF Inv, TypeOK, Scan, postVars
  <2> QED
    BY <1>1, <2>2 DEF Inv, SessionInv, FlagInv, PairInv, StoredAsTyped, AlwaysAccepted,
        ConfigChangedEarned, Posting, Scan, postVars
<1>2. CASE Best
  <2>1. h' \in Globals /\ h'.current = h.current /\ h'.valid = h.valid
    <3>0. h \in Globals
      BY DEF Inv, TypeOK
    <3>1. CASE Candidates # {}
      <4>1. Candidates \subseteq Nat /\ Candidates \subseteq DOMAIN list
        BY DEF Candidates, Inv, TypeOK
      <4>2. Min(Candidates) \in Candidates
        <5>1. \E x \in Candidates : \A y \in Candidates : x <= y
          BY <3>1, <4>1, LeastElement
        <5> QED
          BY <5>1 DEF Min
      <4>3. list[Min(Candidates)] \in Ssid
        BY <4>1, <4>2, AirAssumption DEF Inv, TypeOK
      <4>4. flash[list[Min(Candidates)]] \in Password \cup {NoPassword, Empty}
        BY <4>3 DEF Inv, TypeOK
      <4>5. h' = [h EXCEPT !.wifi_ssid = list[Min(Candidates)],
                           !.wifi_password = flash[list[Min(Candidates)]]]
        BY <1>2, <3>1 DEF Best
      <4> QED
        BY ONLY <3>0, <4>3, <4>4, <4>5 DEF Globals
    <3>2. CASE Candidates = {}
      BY <3>0, <1>2, <3>2 DEF Best, Globals
    <3> QED
      BY <3>1, <3>2
  <2>2. /\ pc' \in {"connect", "be_ap"}
        /\ UNCHANGED <<http, flash, typed, stored, earned, refused, list, temp, phase>>
    BY <1>2 DEF Best
  <2>3. TypeOK'
    BY <2>1, <2>2 DEF Inv, TypeOK
  <2> QED
    BY <2>1, <2>2, <2>3 DEF Inv, SessionInv, FlagInv, PairInv, StoredAsTyped, AlwaysAccepted,
        ConfigChangedEarned, Posting
<1>3. CASE ConnectSucceeds \/ ConnectFails
  <2>1. pc' \in {"run", "connect", "be_ap"} /\ UNCHANGED <<postVars, list, found, temp, phase>>
    BY <1>3 DEF ConnectSucceeds, ConnectFails
  <2> QED
    BY <2>1 DEF Inv, TypeOK, SessionInv, FlagInv, PairInv, StoredAsTyped, AlwaysAccepted,
        ConfigChangedEarned, Posting, postVars
<1> QED
  BY <1>1, <1>2, <1>3

\* Main's steps in the access point up to the first copy.
LEMMA AccessPointInv ==
    ASSUME Inv, be_access_point \/ ApTurn \/ CopySsid \/ LeaveAp
    PROVE  Inv'
<1>1. CASE be_access_point
  <2>1. h \in Globals
    BY DEF Inv, TypeOK
  <2>2. h' \in Globals /\ h'.current = h.current /\ h'.valid = h.valid /\ ~h'.config_changed
    BY <1>1, <2>1 DEF be_access_point, Fresh, Globals
  <2>3. TypeOK'
    BY <1>1, <2>2 DEF Inv, TypeOK, be_access_point
  <2> QED
    BY <1>1, <2>2, <2>3 DEF Inv, SessionInv, FlagInv, PairInv, StoredAsTyped, AlwaysAccepted,
        ConfigChangedEarned, Posting, be_access_point
<1>2. CASE ApTurn
  <2>1. /\ pc = "ap" /\ pc' \in {"ap", "settle", "leave"}
        /\ pc' = "settle" => h.config_changed
    BY <1>2 DEF ApTurn
  <2> QED
    BY <1>2, <2>1 DEF Inv, TypeOK, SessionInv, FlagInv, PairInv, StoredAsTyped, AlwaysAccepted,
        ConfigChangedEarned, Posting, ApTurn, postVars
<1>3. CASE CopySsid
  <2>1. h.wifi_ssid \in Ssid \cup {""}
    BY DEF Inv, TypeOK, Globals
  <2> QED
    BY <1>3, <2>1 DEF Inv, TypeOK, SessionInv, FlagInv, PairInv, StoredAsTyped, AlwaysAccepted,
        ConfigChangedEarned, Posting, CopySsid, postVars
<1>4. CASE LeaveAp
  <2>1. \A i \in DOMAIN list' : i \in Nat /\ list'[i] \in Air
    BY <1>4, EmptyList DEF LeaveAp, Inv, TypeOK
  <2>2. pc' \in {"best", "scan"} /\ UNCHANGED <<postVars, temp>> /\ phase' = {}
    BY <1>4 DEF LeaveAp
  <2> QED
    BY <2>1, <2>2 DEF Inv, TypeOK, SessionInv, FlagInv, PairInv, StoredAsTyped, AlwaysAccepted,
        ConfigChangedEarned, Posting, postVars
<1> QED
  BY <1>1, <1>2, <1>3, <1>4

\* The second copy and the write to flash.
LEMMA WriteSsidInv ==
    ASSUME Inv, WriteSsid
    PROVE  Inv'
<1>1. h.wifi_password \in Password \cup {NoPassword, Empty}
  BY DEF Inv, TypeOK, Globals
<1>2. TypeOK'
  BY <1>1 DEF Inv, TypeOK, WriteSsid
<1>3. StoredAsTyped'
  <2> SUFFICES ASSUME NEW s \in Ssid
               PROVE  flash'[s] \in {NoPassword, typed'[s]} \/ typed'[s] = Mixed
    BY DEF StoredAsTyped
  <2>1. CASE s # temp
    BY <2>1 DEF WriteSsid, Inv, TypeOK, StoredAsTyped
  <2>2. CASE s = temp /\ ("torn" \in phase \/ "stored" \notin phase)
    BY <2>2 DEF WriteSsid, Inv, TypeOK
  <2>3. CASE s = temp /\ "torn" \notin phase /\ "stored" \in phase
    <3>1. h.wifi_password = typed[temp]
      BY <2>3 DEF WriteSsid, Inv, PairInv
    <3> QED
      BY <2>3, <3>1 DEF WriteSsid, Inv, TypeOK
  <2> QED
    BY <2>1, <2>2, <2>3
<1> QED
  BY <1>2, <1>3 DEF Inv, SessionInv, FlagInv, PairInv, AlwaysAccepted,
      ConfigChangedEarned, Posting, WriteSsid

-----------------------------------------------------------------------------
(* The theorems *)

\* The invariant holds of every state, whatever main and the callbacks do.
LEMMA InvInductive == Spec => []Inv
<1>1. Init => Inv
  <2> SUFFICES ASSUME Init
               PROVE  Inv
    OBVIOUS
  <2>1. h \in Globals /\ h.current = NoConn /\ h.valid = NoConn /\ ~h.config_changed
    BY DEF Init, PostInit, Globals
  <2>2. TypeOK
    BY <2>1, EmptyList DEF Init, PostInit, TypeOK
  <2> QED
    BY <2>1, <2>2 DEF Init, PostInit, Inv, SessionInv, FlagInv, PairInv, StoredAsTyped,
        AlwaysAccepted, ConfigChangedEarned
<1>2. Inv /\ [Next]_vars => Inv'
  <2> SUFFICES ASSUME Inv, [Next]_vars
               PROVE  Inv'
    OBVIOUS
  <2>1. CASE Main
    BY <2>1, StationInv, AccessPointInv, WriteSsidInv DEF Main
  <2>2. CASE Callback
    <3>1. MainStays
      BY <2>2 DEF Callback, MainStays
    <3>2. CASE \E c \in Conn, f \in Forms : PostBegin(c, f) /\ Note({})
      BY <3>1, <3>2, PostBeginInv
    <3>3. CASE \E c \in Conn, whole, last \in BOOLEAN :
                  /\ PostData(c, whole, last)
                  /\ Note(IF ~Stores(c, whole) THEN {}
                          ELSE IF pc = "copy" THEN {"stored", "torn"} ELSE {"stored"})
      BY <3>1, <3>3, PostDataInv
    <3>4. CASE cgi_handler_resflash /\ Note({})
      BY <3>1, <3>4, ResflashInv
    <3>5. CASE \E c \in Conn : PostLost(c) /\ Note({})
      BY <3>1, <3>5, PostLostInv
    <3> QED
      BY <2>2, <3>2, <3>3, <3>4, <3>5 DEF Callback
  <2>3. CASE UNCHANGED vars
    BY <2>3 DEF Inv, TypeOK, SessionInv, FlagInv, PairInv, StoredAsTyped, AlwaysAccepted,
        ConfigChangedEarned, Posting, vars, postVars, mainVars
  <2> QED
    BY <2>1, <2>2, <2>3 DEF Next
<1> QED
  BY <1>1, <1>2, PTL DEF Spec

(***************************************************************************)
(* Of any number of connections that post at once, are lost and have their *)
(* address used again, none is ever refused: httpd_post_begin finds        *)
(* current_connection equal only to a connection that httpd still posts    *)
(* for.                                                                    *)
(***************************************************************************)
THEOREM PostsAccepted == Spec => []AlwaysAccepted
<1>1. Inv => AlwaysAccepted
  BY DEF Inv
<1> QED
  BY <1>1, InvInductive, PTL

(***************************************************************************)
(* config_changed is raised only by a POST that stored credentials itself. *)
(***************************************************************************)
THEOREM ChangeIsEarned == Spec => []ConfigChangedEarned
<1>1. Inv => ConfigChangedEarned
  BY DEF Inv
<1> QED
  BY <1>1, InvInductive, PTL

(***************************************************************************)
(* The wait of be_access_point ends early only for a form finished in it.  *)
(***************************************************************************)
THEOREM NoStaleExit == Spec => []EarlyExitHasForm
<1>1. Inv => EarlyExitHasForm
  BY DEF Inv, FlagInv, EarlyExitHasForm
<1> QED
  BY <1>1, InvInductive, PTL

(***************************************************************************)
(* Flash holds for an ssid the password typed last for it or none, unless  *)
(* main wrote credentials that nobody typed in this phase or that changed  *)
(* between its two copies.                                                 *)
(***************************************************************************)
THEOREM NoMixedCredentials == Spec => []StoredAsTyped
<1>1. Inv => StoredAsTyped
  BY DEF Inv
<1> QED
  BY <1>1, InvInductive, PTL
=============================================================================
