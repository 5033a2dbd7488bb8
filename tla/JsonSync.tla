------------------------------- MODULE JsonSync -------------------------------
(***************************************************************************)
(* Devices that keep their json (the mirror) the same: json_handler.c and  *)
(* tcp_json.c, the loop at the end of main, and the two server-side        *)
(* includes of ssi.c that count an update and show the json.  The tcp      *)
(* server and client below them are those of TcpTest, with one slot.       *)
(*                                                                         *)
(* A device has one json_buffer for its server, all its clients and its    *)
(* web page.  The buffer is a sequence of cells: the header, the pieces of *)
(* the text, and what is left to MAX_JSON_BUF_SIZE.  A text is known by    *)
(* the update count in it and the device whose contents it has.            *)
(***************************************************************************)
EXTENDS Integers, Sequences, FiniteSets, FiniteSetsExt, SequencesExt

CONSTANTS
    Device,
    Buddy,              \* buddy_ip of the default mirror
    Conn,               \* bound: names for connections
    TextLen,            \* pieces of a text
    MAX_JSON_BUF_SIZE,  \* in cells
    ChunkLen,           \* iInsertLen - 1 of httpd, in cells
    Events              \* bound: updates by the user, pages shown, connections lost
                        \* and writes without memory, together

ASSUME JsonAssumption ==
    /\ Buddy \subseteq Device
    /\ TextLen \in Nat \ {0} /\ ChunkLen \in Nat \ {0}
    /\ MAX_JSON_BUF_SIZE \in Nat /\ MAX_JSON_BUF_SIZE > TextLen
    /\ Events \in Nat

VARIABLES
    mirror,             \* parsed json, or NoDoc for NULL
    json_buffer,
    main,               \* where main is, last_update_count, buddies still to open
    server,             \* the server's only per_client
    conn,               \* connections with their TCP_CLIENT_T
    page,               \* the request that shows the json
    events,             \* what is left of Events
    faulty,             \* history: a connection was lost or a write had no memory
    cutPage,            \* history: a page did not show one whole text
    refused,            \* history: a server had no slot for a client
    overlap             \* history: two uses of one json_buffer have overlapped, or
                        \* a client has sent it twice

vars == <<mirror, json_buffer, main, server, conn, page, events, faulty, cutPage,
          refused, overlap>>

NoDoc == [ver |-> 0, owner |-> "none"]
NoConn == "none"
DeadConn == "dead"
\* The other users of a json_buffer have names of their own.
ASSUME ConnAssumption == Conn \cap {NoConn, DeadConn, "main", "page", "server"} = {}
HdrLen == 1
DEFAULT_UPDATE_COUNT == 1

Pos == 0 .. MAX_JSON_BUF_SIZE - 1
\* What a size is when other bytes lie where the header should be.
Garbage == MAX_JSON_BUF_SIZE + 1
Junk == [part |-> MAX_JSON_BUF_SIZE, doc |-> NoDoc, size |-> Garbage]
Header(size, ver) == [part |-> 0, doc |-> [NoDoc EXCEPT !.ver = ver], size |-> size]
Piece(doc, i) == [part |-> i, doc |-> doc, size |-> Garbage]

NoClient == [st |-> "free", from |-> NoConn, to |-> NoConn, recv_len |-> 0, sent_len |-> 0,
             mem |-> FALSE, c2s |-> <<>>, s2c |-> <<>>, acks |-> 0, sOpen |-> FALSE,
             wrote |-> FALSE, quiet |-> FALSE]
NoServer == [conn |-> NoConn, recv_len |-> 0, recv_size |-> 0, recv_flag |-> FALSE,
             send_size |-> 0, mem |-> FALSE]

-----------------------------------------------------------------------------
(* json_handler.c *)

get_mirror(d) ==
    IF mirror[d] = NoDoc THEN [ver |-> DEFAULT_UPDATE_COUNT, owner |-> d] ELSE mirror[d]
get_mirror_update_count(d) == get_mirror(d).ver

\* cJSON_PrintPreallocated after the header, and the header.
Printed(buf, doc) == [i \in Pos |-> IF i \in 1 .. TextLen THEN Piece(doc, i) ELSE buf[i]]
WithHeader(buf, ver) == [buf EXCEPT ![0] = Header(HdrLen + TextLen, ver)]
json_prep_get_counter_value(d) ==
    WithHeader(Printed(json_buffer[d], get_mirror(d)), get_mirror_update_count(d))

\* cJSON_Parse of what follows the header: a text in one piece is what was printed;
\* pieces of two texts in their places may still parse, and anything else fails.
Parsed(buf) ==
    LET inPlace == \A i \in 1 .. TextLen : buf[i].part = i
        docs == {buf[i].doc : i \in 1 .. TextLen}
    IN  CASE inPlace /\ Cardinality(docs) = 1 -> docs
          [] inPlace /\ Cardinality(docs) > 1 -> docs \cup {NoDoc}
          [] OTHER -> {NoDoc}

\* Mutant of Fresher: everything that comes is taken.
Fresher_Any(his, mine) == TRUE

\* The test of tcp_client_json_handle_reply and of tcp_server_json_check_freshness.
Fresher(his, mine) == mine <= his

\* What the mirror may be after a reply of size cells.
handle_reply(d, size, buf) ==
    IF size > HdrLen /\ Fresher(buf[0].doc.ver, get_mirror_update_count(d))
    THEN Parsed(buf) ELSE {mirror[d]}

-----------------------------------------------------------------------------
(* Uses of json_buffer, to tell whether two overlap *)

Uses(d) ==
    (IF main[d].pc = "sleep" THEN {} ELSE {"main"})
    \cup (IF page[d].part = 0 THEN {} ELSE {"page"})
    \cup (IF server[d].recv_len > 0 /\ (server[d].send_size = 0 \/ server[d].mem)
          THEN {"server"} ELSE {})
    \cup {c \in Conn : conn[c].from = d /\ conn[c].st \in {"syn", "open"}}

Touch(d, use) == overlap' = (overlap \/ Uses(d) \ {use} # {})

Fault == events > 0 /\ events' = events - 1 /\ faulty' = TRUE

\* tcp_write: it copies, or there is no memory for it.
Write(q, buf, size) == q \o [i \in 1 .. size |-> buf[i - 1]]
WriteResult(size, mem) ==
    /\ size > MAX_JSON_BUF_SIZE => mem
    /\ IF mem /\ size <= MAX_JSON_BUF_SIZE THEN Fault ELSE UNCHANGED <<events, faulty>>

\* pbuf_copy_partial of cells to offset len.
Copied(buf, len, cells) ==
    [i \in Pos |-> IF i \in len .. len + Len(cells) - 1 THEN cells[i - len + 1] ELSE buf[i]]

-----------------------------------------------------------------------------
(* The loop of main *)

Counted(doc) == [doc EXCEPT !.ver = @ + 1]

\* The user's browser asks for the page with the update count in it.
Edit(d) ==
    /\ events > 0 /\ events' = events - 1
    /\ mirror' = [mirror EXCEPT ![d] = IF @ = NoDoc THEN get_mirror(d) ELSE Counted(@)]
    /\ conn' = [c \in Conn |-> IF d \in {conn[c].from, conn[c].to}
                               THEN [conn[c] EXCEPT !.quiet = FALSE] ELSE conn[c]]
    /\ UNCHANGED <<json_buffer, main, server, page, cutPage, faulty, overlap, refused>>

\* Mutant of Changed: only a new mirror is told to the buddies.
Changed_Default(last, count) == last = 0 /\ count > 0

Changed(last, count) == last # count

\* The count has changed: the text is printed...
MainPrint(d) ==
    /\ main[d].pc = "sleep" /\ Changed(main[d].last, get_mirror_update_count(d))
    /\ mirror' = [mirror EXCEPT ![d] = get_mirror(d)]
    /\ main' = [main EXCEPT ![d].pc = "header", ![d].last = get_mirror_update_count(d)]
    /\ json_buffer' = [json_buffer EXCEPT ![d] = Printed(@, get_mirror(d))]
    /\ Touch(d, "main")
    /\ UNCHANGED <<server, conn, page, cutPage, events, faulty, refused>>

\* ... then the header is filled in, with the count that the mirror has now ...
MainHeader(d) ==
    /\ main[d].pc = "header"
    /\ mirror' = [mirror EXCEPT ![d] = get_mirror(d)]
    /\ main' = [main EXCEPT ![d].pc = "open", ![d].todo = Buddy \ {d}]
    /\ json_buffer' = [json_buffer EXCEPT ![d] = WithHeader(@, get_mirror_update_count(d))]
    /\ overlap' = (\/ overlap \/ Uses(d) # {"main"}
                   \/ get_mirror(d) # json_buffer[d][1].doc)
    /\ UNCHANGED <<server, conn, page, cutPage, events, faulty, refused>>

\* ... and a client is opened for each buddy.  A new TCP_CLIENT_T each time: it is
\* never busy.  The result is printed and forgotten.
tcp_client_json_init_open(d, b) ==
    /\ main[d].pc = "open" /\ b \in main[d].todo
    /\ \E c \in Conn : conn[c].st = "free"
    /\ \/ /\ conn' = [conn EXCEPT ![CHOOSE c \in Conn : conn[c].st = "free"] =
                        [NoClient EXCEPT !.st = "syn", !.from = d, !.to = b,
                                                         !.sOpen = TRUE,
                                               !.quiet = json_buffer[d][1].doc = mirror[d]]]
          /\ UNCHANGED <<events, faulty>>
       \/ /\ Fault
          /\ UNCHANGED conn
    /\ main' = [main EXCEPT ![d].todo = @ \ {b},
                            ![d].pc = IF main[d].todo = {b} THEN "sleep" ELSE @]
    /\ UNCHANGED <<mirror, json_buffer, server, page, cutPage, overlap, refused>>

\* A device without buddies is done.
MainAlone(d) ==
    /\ main[d].pc = "open" /\ main[d].todo = {}
    /\ main' = [main EXCEPT ![d].pc = "sleep"]
    /\ UNCHANGED <<mirror, json_buffer, server, conn, page, cutPage, events, faulty, overlap, refused>>

-----------------------------------------------------------------------------
(* The client of tcp_json.c *)

\* tcp_client_json_sending: the whole buffer, as long as its header says now.
Sending(c, mem) ==
    LET buf == json_buffer[conn[c].from]
        size == buf[0].size
        k == IF mem THEN [conn[c] EXCEPT !.st = "open", !.mem = TRUE]
             ELSE [conn[c] EXCEPT !.st = "open", !.c2s = Write(@, buf, size), !.wrote = TRUE]
    IN  IF conn[c].sent_len <= size
        THEN /\ WriteResult(size, mem)
             /\ conn' = [conn EXCEPT ![c] = k]
        ELSE /\ ~mem /\ UNCHANGED <<conn, events, faulty>>

json_client_connected(c, mem) ==
    /\ conn[c].st = "syn"
    /\ Sending(c, mem)
    /\ Touch(conn[c].from, c)
    /\ UNCHANGED <<mirror, json_buffer, main, server, page, cutPage, refused>>

\* Every poll sends again once there was no memory.  lwIP holds two buffers at most.
tcp_json_poll(c, mem) ==
    /\ conn[c].st = "open" /\ conn[c].mem
    /\ Len(conn[c].c2s) + conn[c].acks <= MAX_JSON_BUF_SIZE
    /\ Sending(c, mem)
    /\ overlap' = (overlap \/ Uses(conn[c].from) # {c} \/ conn[c].wrote)
    /\ UNCHANGED <<mirror, json_buffer, main, server, page, cutPage, refused>>

\* tcp_client_result: the connection is closed, and the client freed.
Finished(c) == [conn[c] EXCEPT !.st = "closed", !.s2c = <<>>, !.mem = FALSE]

\* An acknowledgement: what it does to the client and to the buffer.
Acked(k, buf) ==
    IF k.acks > 0 /\ k.sent_len + k.acks >= buf[0].size
    THEN [client |-> [k EXCEPT !.acks = 0, !.recv_len = 0, !.sent_len = 0],
          buffer |-> [buf EXCEPT ![0].size = MAX_JSON_BUF_SIZE]]
    ELSE [client |-> [k EXCEPT !.acks = 0, !.sent_len = @ + k.acks], buffer |-> buf]

tcp_client_json_sent(c) ==
    LET d == conn[c].from
        a == Acked(conn[c], json_buffer[d])
    IN  /\ conn[c].st = "open" /\ conn[c].acks > 0
        /\ conn' = [conn EXCEPT ![c] = a.client]
        /\ json_buffer' = [json_buffer EXCEPT ![d] = a.buffer]
        /\ Touch(d, c)
        /\ UNCHANGED <<mirror, main, server, page, cutPage, events, faulty, refused>>

\* Mutant of ReplyWhole: a reply is whole when its header is there.
ReplyWhole_Header(len, size) == len >= HdrLen

ReplyWhole(len, size) == len >= size

\* n cells from the server, and with them what it acknowledged.  The room left is
\* computed in 16 bits: without limit when more has come than the header says.
tcp_client_json_recv(c, n) ==
    LET d == conn[c].from
        a == Acked(conn[c], json_buffer[d])
        k == a.client
        left == a.buffer[0].size - k.recv_len
        this == IF left < 0 THEN n ELSE Min({left, n})
        buf == Copied(a.buffer, k.recv_len, SubSeq(k.s2c, 1, this))
        len == k.recv_len + this
        more == [k EXCEPT !.recv_len = len, !.s2c = SubSeq(@, n + 1, Len(@))]
    IN  /\ conn[c].st = "open" /\ n <= Len(conn[c].s2c)
        /\ json_buffer' = [json_buffer EXCEPT ![d] = buf]
        /\ IF ReplyWhole(len, buf[0].size)
           THEN /\ \E doc \in handle_reply(d, buf[0].size, buf) :
                        mirror' = [mirror EXCEPT ![d] = doc]
                /\ conn' = [conn EXCEPT ![c] = Finished(c)]
           ELSE /\ conn' = [conn EXCEPT ![c] = more]
                /\ UNCHANGED mirror
        /\ Touch(d, c)
        /\ UNCHANGED <<main, server, page, cutPage, events, faulty, refused>>

\* The server closed its end.
ClientFin(c) ==
    /\ conn[c].st = "open" /\ ~conn[c].sOpen /\ conn[c].s2c = <<>>
    /\ conn' = [conn EXCEPT ![c] = Finished(c)]
    /\ UNCHANGED <<mirror, json_buffer, main, server, page, cutPage, events, faulty, overlap, refused>>

-----------------------------------------------------------------------------
(* The server of tcp_json.c *)

Free(c) == [conn EXCEPT ![c] = NoClient]

\* tcp_server_accept and tcp_server_json_accept.  Without a slot the connection is
\* closed.  The status of the slot is that of its last connection.
tcp_server_json_accept(c) ==
    LET d == conn[c].to
    IN  /\ conn[c].st = "open" /\ conn[c].sOpen /\ server[d].conn # c
        /\ IF server[d].conn = NoConn
           THEN /\ server' = [server EXCEPT ![d] =
                        [NoServer EXCEPT !.conn = c, !.recv_size = MAX_JSON_BUF_SIZE,
                                         !.mem = server[d].mem]]
                /\ UNCHANGED <<conn, refused>>
           ELSE /\ conn' = [conn EXCEPT ![c].sOpen = FALSE, ![c].c2s = <<>>]
                /\ refused' = TRUE
                /\ UNCHANGED server
        /\ UNCHANGED <<mirror, json_buffer, main, page, cutPage, events, faulty, overlap>>

\* user_send: send_size cells of the buffer buf.
Send(d, s, buf, k, mem) ==
    LET sent == IF mem THEN k ELSE [k EXCEPT !.s2c = Write(@, buf, s.send_size)]
        status == [s EXCEPT !.mem = @ \/ mem]
    IN  /\ WriteResult(s.send_size, mem)
        /\ server' = [server EXCEPT ![d] = status]
        /\ conn' = [conn EXCEPT ![s.conn] = sent]

\* Mutant of HeaderHere: the header is looked for when it is not all there.
HeaderHere_Early(len) == len < HdrLen

HeaderHere(len) == len > HdrLen

\* n cells from the client.  The header is looked at once, when more than it has
\* come; when all has come, the fresher of the two texts is kept, and the answer is
\* a header or this device's text.
tcp_server_json_recv(c, n, mem) ==
    LET d == conn[c].to
        s == server[d]
        this == Min({n, MAX_JSON_BUF_SIZE - s.recv_len})
        buf == Copied(json_buffer[d], s.recv_len, SubSeq(conn[c].c2s, 1, this))
        len == s.recv_len + this
        seen == ~s.recv_flag /\ HeaderHere(len)
        size == IF seen THEN buf[0].size ELSE s.recv_size
        got == [s EXCEPT !.recv_len = len, !.recv_flag = @ \/ seen, !.recv_size = size]
        k == [conn[c] EXCEPT !.c2s = SubSeq(@, n + 1, Len(@)), !.acks = @ + n]
        his == buf[0].doc.ver
        mine == get_mirror_update_count(d)
        taken == [buf EXCEPT ![0].size = HdrLen]
        own == WithHeader(Printed(buf, get_mirror(d)), mine)
    IN  /\ conn[c].st # "free" /\ s.conn = c /\ n <= Len(conn[c].c2s)
        /\ \/ /\ len < size /\ ~mem
              /\ server' = [server EXCEPT ![d] = got]
              /\ conn' = [conn EXCEPT ![c] = k]
              /\ json_buffer' = [json_buffer EXCEPT ![d] = buf]
              /\ UNCHANGED <<mirror, events, faulty>>
           \/ /\ len >= size /\ Fresher(his, mine)
              /\ \E doc \in Parsed(buf) : mirror' = [mirror EXCEPT ![d] = doc]
              /\ Send(d, [got EXCEPT !.send_size = HdrLen], taken, k, mem)
              /\ json_buffer' = [json_buffer EXCEPT ![d] = taken]
           \/ /\ len >= size /\ ~Fresher(his, mine)
              /\ mirror' = [mirror EXCEPT ![d] = get_mirror(d)]
              /\ Send(d, [got EXCEPT !.send_size = HdrLen + TextLen], own, k, mem)
              /\ json_buffer' = [json_buffer EXCEPT ![d] = own]
        /\ Touch(d, "server")
        /\ UNCHANGED <<main, page, cutPage, refused>>

\* tcp_server_poll sends again once there was no memory.
tcp_server_poll(c, mem) ==
    LET d == conn[c].to
        s == server[d]
    IN  /\ conn[c].st # "free" /\ s.conn = c /\ s.mem
        /\ Len(conn[c].s2c) <= MAX_JSON_BUF_SIZE
        /\ Send(d, s, json_buffer[d], conn[c], mem)
        /\ Touch(d, "server")
        /\ UNCHANGED <<mirror, json_buffer, main, page, cutPage, refused>>

\* tcp_server_result, tcp_close_client.  What the next accept sets is forgotten here.
Closed(s) == [NoServer EXCEPT !.mem = s.mem]

\* The client closed its end, and all it sent has been received.
ServerFin(c) ==
    LET d == conn[c].to
    IN  /\ conn[c].st = "closed"
        /\ server[d].conn = c => conn[c].c2s = <<>>
        /\ server' = [server EXCEPT ![d] = IF @.conn = c THEN Closed(@) ELSE @]
        /\ conn' = Free(c)
        /\ UNCHANGED <<mirror, json_buffer, main, page, cutPage, events, faulty, overlap, refused>>

\* The connection is lost.  Each end forgets it, or with ERR_ABRT keeps what it had:
\* the client's memory, the server's slot.
Lose(c) ==
    LET d == conn[c].to
    IN  /\ conn[c].st \in {"syn", "open"}
        /\ Fault
        /\ conn' = Free(c)
        /\ IF server[d].conn = c
           THEN \E s \in {Closed(server[d]), [server[d] EXCEPT !.conn = DeadConn]} :
                    server' = [server EXCEPT ![d] = s]
           ELSE UNCHANGED server
        /\ UNCHANGED <<mirror, json_buffer, main, page, cutPage, overlap, refused>>

-----------------------------------------------------------------------------
(* The json on the web page: ssi.c's multipart insert *)

\* Mutant of MoreParts: a full chunk ends the page.
MoreParts_Longer(chunk) == chunk > ChunkLen

MoreParts(chunk) == chunk >= ChunkLen

NoPage == [part |-> 0, shown |-> <<>>]
WholeText(shown) ==
    Len(shown) = TextLen /\ \A i \in 1 .. TextLen : shown[i] = Piece(shown[1].doc, i)

\* One part of the insert.  The first one prints the mirror to json_buffer; the
\* others go on in whatever json_buffer holds.  httpd asks for them as it can send.
ssi_json(d) ==
    LET first == page[d].part = 0
        buf == IF first THEN json_prep_get_counter_value(d) ELSE json_buffer[d]
        remlen == buf[0].size - HdrLen - page[d].part * ChunkLen
        chunk == Min({remlen, ChunkLen})
        sofar == buf[0].size - HdrLen - remlen
        cells == [i \in 1 .. Max({chunk, 0}) |->
                    IF HdrLen + sofar + i - 1 \in Pos THEN buf[HdrLen + sofar + i - 1] ELSE Junk]
        shown == page[d].shown \o cells
        last == ~MoreParts(chunk)
    IN  /\ first => events > 0
        /\ events' = IF first THEN events - 1 ELSE events
        /\ mirror' = IF first THEN [mirror EXCEPT ![d] = get_mirror(d)] ELSE mirror
        /\ json_buffer' = [json_buffer EXCEPT ![d] = buf]
        /\ page' = [page EXCEPT ![d] = IF last THEN NoPage
                                       ELSE [part |-> @.part + 1, shown |-> shown]]
        /\ Touch(d, "page")
        /\ cutPage' = (cutPage \/ (last /\ ~overlap' /\ ~WholeText(shown)))
        /\ UNCHANGED <<main, server, conn, faulty, refused>>

-----------------------------------------------------------------------------
Init ==
    /\ mirror = [d \in Device |-> [ver |-> DEFAULT_UPDATE_COUNT, owner |-> d]]
    /\ json_buffer = [d \in Device |-> [i \in Pos |-> Junk]]
    /\ main = [d \in Device |-> [pc |-> "sleep", last |-> 0, todo |-> {}]]
    /\ server = [d \in Device |-> NoServer]
    /\ conn = [c \in Conn |-> NoClient]
    /\ page = [d \in Device |-> NoPage]
    /\ events = Events
    /\ faulty = FALSE /\ cutPage = FALSE /\ refused = FALSE /\ overlap = FALSE

\* A bound: behaviours are followed to the first overlap.  What a buffer holds
\* after it is any mixture, and the properties promise nothing of it.
Running == ~overlap

MainLoop(d) ==
    /\ Running
    /\ \/ MainPrint(d) \/ MainHeader(d) \/ MainAlone(d)
       \/ \E b \in Buddy : tcp_client_json_init_open(d, b)
User(d) == Running /\ (Edit(d) \/ ssi_json(d))
\* A bound: a segment carries one message at most.
Segment == 1 .. HdrLen + TextLen
Deliver(c) ==
    /\ Running
    /\ \/ \E mem \in BOOLEAN : json_client_connected(c, mem)
       \/ tcp_server_json_accept(c)
       \/ \E n \in Segment, mem \in BOOLEAN : tcp_server_json_recv(c, n, mem)
       \/ \E n \in Segment : tcp_client_json_recv(c, n)
       \/ ClientFin(c) \/ ServerFin(c)
Poll(c) ==
    /\ Running
    /\ \E mem \in BOOLEAN : tcp_json_poll(c, mem) \/ tcp_server_poll(c, mem)
Network(c) == Running /\ (tcp_client_json_sent(c) \/ Lose(c))

Next ==
    \/ \E d \in Device : MainLoop(d) \/ User(d)
    \/ \E c \in Conn : Deliver(c) \/ Poll(c) \/ Network(c)

Spec == Init /\ [][Next]_vars

\* main's loop goes on, lwIP delivers what was sent, and polls.
FairSpec ==
    /\ Spec
    /\ \A d \in Device : WF_vars(MainLoop(d))
    /\ \A c \in Conn : WF_vars(Deliver(c)) /\ WF_vars(Poll(c))

-----------------------------------------------------------------------------
\* A device never goes back to an older json, and never loses it to a text that
\* does not parse, as long as no two uses of a json_buffer overlap: what a header
\* promises is the text behind it.
NoRollback == [][overlap' \/ \A d \in Device : mirror'[d].ver >= mirror[d].ver]_vars

\* When a client has its whole reply, and the user has updated neither end since
\* it was opened, both ends have the same json (tcp_json.h: "At this point both
\* Client and server will have identical json data with identical versions").
ExchangeAgrees ==
    [][\A c \in Conn :
         /\ conn[c].st = "open" /\ conn'[c].st = "closed" /\ conn[c].s2c # <<>>
         /\ conn[c].quiet /\ ~overlap'
         => mirror'[conn[c].from] = mirror'[conn[c].to]]_vars

\* A page that was served shows one text, whole, however it is cut into parts.
PageWhole == ~cutPage

Same == \A d, e \in Buddy : mirror[d] = mirror[e]

\* Updates reach the buddies: all devices come to have the same json, if no
\* connection was lost or refused and no uses of a buffer overlapped.
Converges == <>[]Same \/ <>(overlap \/ refused \/ faulty)

\* Every connection is over some time, at both ends, also when writes ran out of
\* memory, so that the only slot of the server is free again: nobody waits for ever.
ConnectionsEnd ==
    \A c \in Conn : []<>(conn[c].st = "free" \/ overlap)
=============================================================================
