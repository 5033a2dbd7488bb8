----------------------------- MODULE PostHandler -----------------------------
(***************************************************************************)
(* post_handler.c: the forms that browsers post to the device.  lwIP's     *)
(* httpd calls httpd_post_begin for a POST, httpd_post_receive_data for    *)
(* each pbuf of its body, and httpd_post_finished when the body is         *)
(* complete, after a call that failed, or when the connection is lost.     *)
(* Several connections may post at once; the handler has one set of        *)
(* variables for all.  Its functions are operators on these, so that the   *)
(* calls httpd makes from one callback make one step.                      *)
(*                                                                         *)
(* A connection is named by the address that httpd uses for it, and that   *)
(* address is used again for a later connection.  The host name, and which *)
(* page answers the POST (valid_json, valid_config), are left out.         *)
(***************************************************************************)
EXTENDS Naturals, FiniteSets

CONSTANTS
    Conn,                   \* addresses of connections
    Ssid, Password,
    Forms                   \* what the users type: a subset of Form

NoConn == "none"
NoPassword == "nopw"        \* flash has no record
Empty == ""                 \* an empty password
Mixed == "mixed"            \* of typed: not typed by anyone
Form == [kind : {"wifi"}, ssid : Ssid, pass : Password] \cup [kind : {"config"}]

ASSUME FormAssumption == Forms \subseteq Form /\ NoConn \notin Conn /\ NoPassword \notin Password

VARIABLES
    h,          \* the globals of post_handler.c
    http,       \* httpd, per connection: the form it posts, and whether the
                \* body has not begun yet; NoPost without one
    flash,      \* the password that flash_io holds for each ssid
    typed,      \* history: the password typed last for each ssid
    stored,     \* history: connections whose current POST stored credentials
    earned,     \* history: config_changed was set for a POST that stored some
    refused     \* history: httpd_post_begin refused a POST

postVars == <<h, http, flash, typed, stored, earned, refused>>

NoPost == [kind |-> "none"]
Posting == {c \in Conn : http[c] # NoPost}

-----------------------------------------------------------------------------
\* Mutant of httpd_post_begin: the session of another connection is kept.
httpd_post_begin_KeepValid(c) ==
    IF h.current # c THEN [h EXCEPT !.current = c] ELSE h

\* A form action with a known name.  A POST takes over from the one before.
httpd_post_begin(c) ==
    IF h.current # c THEN [h EXCEPT !.current = c, !.valid = NoConn] ELSE h

\* Mutant of httpd_post_receive_data: the password is forgotten.
httpd_post_receive_data_NoPass(c, f, whole) ==
    IF h.current = c /\ whole /\ f.kind = "wifi"
    THEN [h EXCEPT !.wifi_ssid = f.ssid, !.valid = c] ELSE h

\* One pbuf of the body.  whole: all fields of the form start in this pbuf, with
\* at least one byte of each value (the last one may be cut off by its end).  A
\* config form only sets the host name.
httpd_post_receive_data(c, f, whole) ==
    IF h.current = c /\ whole /\ f.kind = "wifi"
    THEN [h EXCEPT !.wifi_ssid = f.ssid, !.wifi_password = f.pass, !.valid = c] ELSE h

\* Mutant of httpd_post_finished: the handler stays with the connection.
httpd_post_finished_Stay(g, c) ==
    IF g.current # c THEN g
    ELSE [g EXCEPT !.config_changed = @ \/ g.valid = c, !.valid = NoConn]

httpd_post_finished(g, c) ==
    IF g.current # c THEN g
    ELSE [g EXCEPT !.config_changed = @ \/ g.valid = c,
                   !.current = NoConn, !.valid = NoConn]

-----------------------------------------------------------------------------
(* httpd *)

\* A browser posts form f on a connection that is not posting.
PostBegin(c, f) ==
    /\ http[c] = NoPost
    /\ h' = httpd_post_begin(c)
    /\ IF h.current # c
       THEN /\ http' = [http EXCEPT ![c] = [form |-> f, begun |-> FALSE]]
            /\ stored' = stored \ {c}
            /\ UNCHANGED refused
       ELSE refused' = TRUE /\ UNCHANGED <<http, stored>>
    /\ UNCHANGED <<flash, typed, earned>>

\* The globals are g and these POSTs have stored credentials when one ends.
EndPost(g, c, s) ==
    /\ h' = httpd_post_finished(g, c)
    /\ http' = [http EXCEPT ![c] = NoPost]
    /\ stored' = s \ {c}
    /\ earned' = (earned /\ (h'.config_changed => g.config_changed \/ c \in s))

\* The pbuf makes the handler store credentials.
Stores(c, whole) == h.current = c /\ whole /\ http[c].form.kind = "wifi"

\* A pbuf arrives.  The handler stores the credentials in flash itself.  A call
\* that fails, and the last pbuf, end the POST in the same callback.
PostData(c, whole, last) ==
    LET f == http[c].form
        g == httpd_post_receive_data(c, f, whole)
        s == IF Stores(c, whole) THEN stored \cup {c} ELSE stored
    IN  /\ c \in Posting
        /\ whole => ~http[c].begun
        /\ IF Stores(c, whole)
           THEN /\ flash' = [flash EXCEPT ![f.ssid] = f.pass]
                /\ typed' = [typed EXCEPT ![f.ssid] = f.pass]
           ELSE UNCHANGED <<flash, typed>>
        /\ IF last \/ h.current # c
           THEN EndPost(g, c, s)
           ELSE /\ h' = g
                /\ http' = [http EXCEPT ![c].begun = TRUE]
                /\ stored' = s
                /\ UNCHANGED earned
        /\ UNCHANGED refused

\* The connection is lost, or closed, in the middle of a POST.
PostLost(c) ==
    /\ c \in Posting
    /\ EndPost(h, c, stored)
    /\ UNCHANGED <<flash, typed, refused>>

\* The page that erases all ssids and host names.
cgi_handler_resflash ==
    /\ flash' = [s \in Ssid |-> NoPassword]
    /\ UNCHANGED <<h, http, typed, stored, earned, refused>>

PostInit ==
    /\ h = [wifi_ssid |-> "", wifi_password |-> Empty, config_changed |-> FALSE,
            current |-> NoConn, valid |-> NoConn]
    /\ http = [c \in Conn |-> NoPost]
    /\ stored = {} /\ earned = TRUE /\ refused = FALSE

-----------------------------------------------------------------------------
\* The handler is never stuck with a connection that is gone: a POST on a new
\* connection is accepted, although lwIP uses the addresses of connections again.
AlwaysAccepted == ~refused

\* config_changed is set only by a POST that stored credentials itself, and not
\* by one whose connection has the address of an earlier one that did.
ConfigChangedEarned == earned
=============================================================================
