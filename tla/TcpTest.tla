------------------------------- MODULE TcpTest -------------------------------
(***************************************************************************)
(* picow_tcp_server.c, picow_tcp_client.c and the protocol of tcp_test1.c  *)
(* on top of them: the server sends a buffer, the client sends it back,    *)
(* the server compares, and so on for a number of rounds.  Every ten       *)
(* seconds main opens a client, whether or not the last one is done.       *)
(*                                                                         *)
(* lwIP's side (external): segments arrive in order and carry the          *)
(* acknowledgement of all data received when they were written; tcp_input  *)
(* calls the sent callback before the recv callback of one segment.        *)
(* Acknowledgements also travel alone.  tcp_write runs out of memory,      *)
(* connections are reset, and lwIP gives up on one with ERR_ABRT.  A       *)
(* connection has the name of the client object that opened it.            *)
(***************************************************************************)
EXTENDS Integers, Sequences, FiniteSets, FiniteSetsExt, SequencesExt

CONSTANTS
    Slots,              \* MAX_TCPTEST1_CONNECTIONS of the server
    Client,             \* client objects
    TEST1_BUF_SIZE,     \* here in pieces that segments consist of
    TEST_ITERATIONS,
    Scenarios           \* bounds of a behaviour, a set of Scenario

ASSUME SizeAssumption == TEST1_BUF_SIZE \in Nat \ {0} /\ TEST_ITERATIONS \in Nat \ {0}

\* Slots are positions in an array.
ASSUME SlotAssumption == Slots \subseteq Nat

\* The client objects in use, the times that tcp_write is out of memory, the
\* connections lost, and the slots that ERR_ABRT has cost before.
Scenario == [clients : SUBSET Client, mem : Nat, loss : Nat, dead : SUBSET Slots]
ASSUME ScenarioAssumption == Scenarios \subseteq Scenario

NoPcb == "none"
DeadPcb == "dead"       \* a pcb that lwIP has freed
ASSUME ClientAssumption == {NoPcb, DeadPcb} \cap Client = {}

VARIABLES
    slot,               \* the server's per_client records
    r_buffer,           \* buffer_recv
    client,             \* the TCP_CLIENT_T of each client object
    test1_buffer,       \* the buffer of all clients
    link,               \* the connections: data on its way, how much each end
                        \* is still to be told the other received, which ends
                        \* are open
    budget,             \* the Scenario: what is left of it
    disturbed,          \* history: connections that were short of memory, or
                        \* not alone
    verified,           \* history: rounds the server found right, per connection
    wrong               \* history: undisturbed connections that failed

vars == <<slot, r_buffer, client, test1_buffer, link, budget,
          disturbed, verified, wrong>>

Pos == 1 .. TEST1_BUF_SIZE
NoLink == [s2c |-> <<>>, c2s |-> <<>>, toServer |-> 0, toClient |-> 0,
           sOpen |-> FALSE, cOpen |-> FALSE, lost |-> FALSE]
NoClient == [st |-> "free", status |-> "ok", count |-> 0, recv_len |-> 0, sent_len |-> 0]

InUse == {k \in Client : \E i \in Slots : slot[i].client_pcb = k}
SlotOf(k) == CHOOSE i \in Slots : slot[i].client_pcb = k

\* The server fills buffer_sent with new random bytes for every send.  A piece of
\* data is its position if it comes from the last fill, and Old otherwise: the
\* server only ever compares with the last fill.
Old == 0
Aged(q) == [i \in DOMAIN q |-> [q[i] EXCEPT !.piece = Old]]
AllAged == [k \in Client |-> [link[k] EXCEPT !.s2c = Aged(@), !.c2s = Aged(@)]]
AllOld == [i \in Pos |-> Old]

\* tcp_write of a whole buffer, with the acknowledgement it will carry.  lwIP has
\* room for two that are not acknowledged.
Room(q, unacked) == Len(q) + unacked <= TEST1_BUF_SIZE
Written(q, pieces, ack) == q \o [i \in Pos |-> [piece |-> pieces[i], ack |-> ack]]

\* What the server sends is what it just filled in.
Filled(q, ack) == Written(q, [i \in Pos |-> i], ack)

\* The status of an end after a send with this result.
Noted(p, w) == IF w = "mem" THEN "mem" ELSE p.status

\* What is left on its way when n pieces have arrived, which told of m received.
Rest(q, n, m) ==
    [i \in 1 .. Len(q) - n |-> [q[i + n] EXCEPT !.ack = Max({0, @ - m})]]

\* A link after n pieces have arrived at the server, or at the client, together
\* with word of m pieces that the other end received.
FromClient(L, n, m) ==
    [L EXCEPT !.c2s = Rest(L.c2s, n, m), !.toClient = L.toClient + n, !.toServer = L.toServer - m]
FromServer(L, n, m) ==
    [L EXCEPT !.s2c = Rest(L.s2c, n, m), !.toServer = L.toServer + n, !.toClient = L.toClient - m]

\* pbuf_copy_partial to a buffer that holds len pieces: what fits is copied.
Received(buffer, len, pieces) ==
    [i \in Pos |-> IF i \in len + 1 .. len + Len(pieces) THEN pieces[i - len] ELSE buffer[i]]

NewLen(len, pieces) == Min({TEST1_BUF_SIZE, len + Len(pieces)})

\* tcp_write, with or without room: out of memory without, or when the heap is,
\* which takes from the budget.  It disturbs the connection.
WriteResult(k, room, w) ==
    /\ w = "ok" => room
    /\ w = "mem" => ~room \/ budget.mem > 0
    /\ budget' = IF w = "mem" /\ room THEN [budget EXCEPT !.mem = @ - 1] ELSE budget
    /\ disturbed' = IF w = "mem" THEN disturbed \cup {k} ELSE disturbed
NoWrite == UNCHANGED <<budget, disturbed>>

-----------------------------------------------------------------------------
(* The server: tcp_server_result, then tcp_close_client *)

\* A slot that its connection has left; the fields that the next accept sets are
\* forgotten here.
Closed(p, pcb) == [p EXCEPT !.client_pcb = pcb, !.count = 0, !.sent_len = 0]

\* What a handler leads to for slot i, after it left the slot as p, the link as
\* L and the buffer as r: it waits, ends the connection, or sends (user_send) with
\* result w of tcp_write.
ServerDo(i, p, L, r, do, w) ==
    LET k == slot[i].client_pcb
    IN  CASE do = "wait" ->
               /\ slot' = [slot EXCEPT ![i] = p]
               /\ link' = [link EXCEPT ![k] = L]
               /\ r_buffer' = r
               /\ NoWrite /\ UNCHANGED test1_buffer
          [] do = "result" ->
               /\ slot' = [slot EXCEPT ![i] = Closed(p, NoPcb)]
               /\ link' = [link EXCEPT ![k] = [L EXCEPT !.sOpen = FALSE]]
               /\ r_buffer' = r
               /\ NoWrite /\ UNCHANGED test1_buffer
          [] do = "send" ->
               /\ slot' = [slot EXCEPT ![i] = [p EXCEPT !.sent_len = 0, !.status = Noted(p, w)]]
               /\ link' = [AllAged EXCEPT ![k] =
                     [L EXCEPT !.s2c = IF w = "mem" THEN Aged(L.s2c) ELSE Filled(Aged(L.s2c), L.toClient),
                               !.c2s = Aged(L.c2s)]]
               /\ r_buffer' = AllOld /\ test1_buffer' = AllOld
               /\ WriteResult(k, Room(L.s2c, L.toServer), w)

\* Mutant of tcp_server_sent: the receive count is not reset.
tcp_server_sent_NoReset(p, len) == [p EXCEPT !.sent_len = @ + len]

tcp_server_sent(p, len) ==
    [p EXCEPT !.sent_len = p.sent_len + len,
              !.recv_len = IF p.sent_len + len >= TEST1_BUF_SIZE THEN 0 ELSE p.recv_len]

\* Data from the client, after the acknowledgement that came with it.
tcp_server_recv(k, n, w) ==
    LET i == SlotOf(k)
        m == link[k].c2s[n].ack
        pieces == [j \in 1 .. n |-> link[k].c2s[j].piece]
        L == FromClient(link[k], n, m)
        p == IF m > 0 THEN tcp_server_sent(slot[i], m) ELSE slot[i]
        r == Received(r_buffer, p.recv_len, pieces)
        q == [p EXCEPT !.recv_len = NewLen(p.recv_len, pieces)]
        whole == q.recv_len = TEST1_BUF_SIZE
        match == \A j \in Pos : r[j] = j
        last == q.count + 1 >= TEST_ITERATIONS
        do == CASE ~whole -> "wait"
                [] whole /\ match /\ ~last -> "send"
                [] OTHER -> "result"
    IN  /\ k \in InUse /\ n <= Len(link[k].c2s)
        /\ do = "send" \/ w = "ok"
        /\ ServerDo(i, [q EXCEPT !.count = IF whole /\ match THEN q.count + 1 ELSE q.count],
                    L, r, do, w)
        /\ verified' = IF whole /\ match THEN [verified EXCEPT ![k] = @ + 1] ELSE verified
        /\ wrong' = IF whole /\ ~match /\ k \notin disturbed THEN wrong \cup {k} ELSE wrong
        /\ UNCHANGED client

\* An acknowledgement alone.
ServerAck(k) ==
    LET i == SlotOf(k)
        m == link[k].toServer
    IN  /\ k \in InUse /\ m > 0
        /\ ServerDo(i, tcp_server_sent(slot[i], m), FromClient(link[k], 0, m), r_buffer, "wait", "ok")
        /\ UNCHANGED <<client, verified, wrong>>

\* The client closed its end and all its data has arrived: recv without a pbuf.
ServerFin(k) ==
    /\ k \in InUse /\ ~link[k].cOpen /\ ~link[k].lost
    /\ link[k].c2s = <<>> /\ link[k].toServer = 0
    /\ ServerDo(SlotOf(k), slot[SlotOf(k)], link[k], r_buffer, "result", "ok")
    /\ UNCHANGED <<client, verified, wrong>>

\* The connection was reset, or lwIP gave up on it.  tcp_server_err ignores
\* ERR_ABRT, and the slot keeps a pcb that is gone; otherwise the slot is freed.
tcp_server_err(k) ==
    /\ k \in InUse /\ link[k].lost
    /\ \E pcb \in {NoPcb, DeadPcb} : slot' = [slot EXCEPT ![SlotOf(k)] = Closed(@, pcb)]
    /\ UNCHANGED <<r_buffer, client, test1_buffer, link, budget, disturbed, verified, wrong>>

\* Mutant of RetriesSend: no retry.
RetriesSend_Never(i) == FALSE

\* tcp_server_poll retries a send that was short of memory; the status stays.
RetriesSend(i) == slot[i].status = "mem"

tcp_server_poll(k, w) ==
    /\ k \in InUse /\ RetriesSend(SlotOf(k))
    /\ ServerDo(SlotOf(k), slot[SlotOf(k)], link[k], r_buffer, "send", w)
    /\ UNCHANGED <<client, verified, wrong>>

\* A connection arrives.  status, recv_len and sent_len of the slot are those of
\* its last connection.  Without a free slot it is closed.
tcp_server_accept(k, w) ==
    LET free == {i \in Slots : slot[i].client_pcb = NoPcb}
        i == Min(free)
    IN  /\ client[k].st = "syn"
        /\ client' = [client EXCEPT ![k].st = "open"]
        /\ IF free = {}
           THEN /\ w = "ok"
                /\ link' = [link EXCEPT ![k].sOpen = FALSE]
                /\ disturbed' = disturbed \cup {k}
                /\ UNCHANGED <<slot, r_buffer, test1_buffer, budget, verified>>
           ELSE /\ slot' = [slot EXCEPT ![i] =
                        [slot[i] EXCEPT !.client_pcb = k, !.count = 0, !.sent_len = 0,
                                        !.status = Noted(slot[i], w)]]
                /\ link' = IF w = "mem" THEN AllAged
                           ELSE [AllAged EXCEPT ![k].s2c = Filled(@, 0)]
                /\ r_buffer' = AllOld /\ test1_buffer' = AllOld
                /\ w = "mem" => budget.mem > 0
                /\ budget' = IF w = "mem" THEN [budget EXCEPT !.mem = @ - 1] ELSE budget
                /\ disturbed' = IF w = "mem" \/ slot[i].status = "mem" THEN disturbed \cup {k}
                                ELSE disturbed
                /\ verified' = [verified EXCEPT ![k] = 0]
        /\ UNCHANGED wrong

-----------------------------------------------------------------------------
(* The client *)

\* tcp_client_result closes the connection; the complete callback frees the state.
ClientDo(k, c, L, do, w) ==
    CASE do = "wait" ->
           /\ client' = [client EXCEPT ![k] = c]
           /\ link' = [link EXCEPT ![k] = L]
           /\ NoWrite
      [] do = "result" ->
           /\ client' = [client EXCEPT ![k] = NoClient]
           /\ link' = [link EXCEPT ![k] = [L EXCEPT !.cOpen = FALSE, !.s2c = <<>>]]
           /\ NoWrite
      [] do = "send" ->
           /\ client' = [client EXCEPT ![k] = [c EXCEPT !.status = Noted(c, w)]]
           /\ link' = [link EXCEPT ![k] =
                        IF w = "mem" THEN L
                        ELSE [L EXCEPT !.c2s = Written(L.c2s, test1_buffer', L.toServer)]]
           /\ WriteResult(k, Room(L.c2s, L.toClient), w)

tcp_client_sent(c, len) ==
    IF c.sent_len + len >= TEST1_BUF_SIZE
    THEN [c EXCEPT !.sent_len = 0, !.recv_len = 0, !.count = c.count + 1]
    ELSE [c EXCEPT !.sent_len = c.sent_len + len]

Completed(c) == c.count >= TEST_ITERATIONS

\* The test counts as a success for the client.
Success(k) ==
    wrong' = IF k \notin disturbed /\ verified[k] < TEST_ITERATIONS THEN wrong \cup {k} ELSE wrong

\* Data from the server; the client sends when its buffer is full.
tcp_client_recv(k, n, w) ==
    LET m == link[k].s2c[n].ack
        pieces == [j \in 1 .. n |-> link[k].s2c[j].piece]
        L == FromServer(link[k], n, m)
        c == IF m > 0 THEN tcp_client_sent(client[k], m) ELSE client[k]
        d == [c EXCEPT !.recv_len = NewLen(c.recv_len, pieces)]
        do == CASE Completed(c) -> "result"
                [] ~Completed(c) /\ d.recv_len = TEST1_BUF_SIZE -> "send"
                [] OTHER -> "wait"
    IN  /\ client[k].st = "open" /\ n <= Len(link[k].s2c)
        /\ do = "send" \/ w = "ok"
        /\ test1_buffer' = IF Completed(c) THEN test1_buffer
                           ELSE Received(test1_buffer, c.recv_len, pieces)
        /\ ClientDo(k, d, L, do, w)
        /\ IF Completed(c) THEN Success(k) ELSE UNCHANGED wrong
        /\ UNCHANGED <<slot, r_buffer, verified>>

ClientAck(k) ==
    LET m == link[k].toClient
        c == tcp_client_sent(client[k], m)
    IN  /\ client[k].st = "open" /\ m > 0
        /\ ClientDo(k, c, FromServer(link[k], 0, m), IF Completed(c) THEN "result" ELSE "wait", "ok")
        /\ IF Completed(c) THEN Success(k) ELSE UNCHANGED wrong
        /\ UNCHANGED <<slot, r_buffer, test1_buffer, verified>>

\* The server closed its end: recv without a pbuf.
ClientFin(k) ==
    /\ client[k].st = "open" /\ ~link[k].sOpen /\ ~link[k].lost
    /\ link[k].s2c = <<>> /\ link[k].toClient = 0
    /\ ClientDo(k, client[k], link[k], "result", "ok")
    /\ wrong' = IF k \notin disturbed THEN wrong \cup {k} ELSE wrong
    /\ UNCHANGED <<slot, r_buffer, test1_buffer, verified>>

\* tcp_client_err: ERR_ABRT is ignored, and the client object stays busy.
tcp_client_err(k) ==
    /\ client[k].st = "open" /\ link[k].lost
    /\ \E st \in {"free", "stuck"} : client' = [client EXCEPT ![k] = [NoClient EXCEPT !.st = st]]
    /\ UNCHANGED <<slot, r_buffer, test1_buffer, link, budget, disturbed, verified, wrong>>

\* tcp_client_poll retries a send that was short of memory.
tcp_client_poll(k, w) ==
    /\ client[k].st = "open" /\ client[k].status = "mem"
    /\ client[k].recv_len = TEST1_BUF_SIZE
    /\ UNCHANGED test1_buffer
    /\ ClientDo(k, client[k], link[k], "send", w)
    /\ UNCHANGED <<slot, r_buffer, verified, wrong>>

\* main opens a client: tcp_client_init, tcp_client_open.  dns answers at once,
\* later, or not; without a pcb, or when tcp_connect fails, nobody is told.
tcp_client_sendtest_init_open(k) ==
    /\ k \in budget.clients
    /\ client[k].st = "free" /\ k \notin InUse
    /\ \E st \in {"dns", "syn", "stuck"} :
        /\ client' = [client EXCEPT ![k] = [NoClient EXCEPT !.st = st]]
        /\ link' = [link EXCEPT ![k] = [NoLink EXCEPT !.sOpen = TRUE, !.cOpen = TRUE]]
    /\ disturbed' = (disturbed \ {k}) \cup
                    LET others == {j \in Client \ {k} : client[j].st # "free"} \cup InUse
                    IN  IF others = {} THEN {} ELSE others \cup {k}
    /\ UNCHANGED <<slot, r_buffer, test1_buffer, budget, verified, wrong>>

dns_found(k) ==
    /\ client[k].st = "dns"
    /\ \E st \in {"syn", "stuck", "free"} : client' = [client EXCEPT ![k].st = st]
    /\ UNCHANGED <<slot, r_buffer, test1_buffer, link, budget, disturbed, verified, wrong>>

-----------------------------------------------------------------------------
\* The connection is lost, and what is on its way with it.
Lose(k) ==
    /\ budget.loss > 0 /\ client[k].st = "open" /\ k \in InUse
    /\ budget' = [budget EXCEPT !.loss = @ - 1]
    /\ disturbed' = disturbed \cup {k}
    /\ link' = [link EXCEPT ![k] = [NoLink EXCEPT !.lost = TRUE]]
    /\ UNCHANGED <<slot, r_buffer, client, test1_buffer, verified, wrong>>

Init ==
    /\ budget \in Scenarios
    /\ slot = [i \in Slots |-> [client_pcb |-> IF i \in budget.dead THEN DeadPcb ELSE NoPcb,
                                status |-> "ok", count |-> 0, recv_len |-> 0, sent_len |-> 0]]
    /\ r_buffer = AllOld
    /\ client = [k \in Client |-> NoClient]
    /\ test1_buffer = AllOld
    /\ link = [k \in Client |-> NoLink]
    /\ disturbed = {} /\ wrong = {}
    /\ verified = [k \in Client |-> 0]

Result == {"ok", "mem"}
ServerData(k) == \E w \in Result, n \in Pos : tcp_server_recv(k, n, w)
ClientData(k) == \E w \in Result, n \in Pos : tcp_client_recv(k, n, w)
ServerSignal(k) == ServerAck(k) \/ ServerFin(k) \/ tcp_server_err(k)
ClientSignal(k) == ClientAck(k) \/ ClientFin(k) \/ tcp_client_err(k)
Arrival(k) == dns_found(k) \/ \E w \in Result : tcp_server_accept(k, w)
ServerPoll(k) == \E w \in Result : tcp_server_poll(k, w)
ClientPoll(k) == \E w \in Result : tcp_client_poll(k, w)

Next ==
    \E k \in Client :
        \/ ServerData(k) \/ ClientData(k) \/ ServerSignal(k) \/ ClientSignal(k)
        \/ Arrival(k) \/ ServerPoll(k) \/ ClientPoll(k)
        \/ tcp_client_sendtest_init_open(k) \/ Lose(k)

Spec == Init /\ [][Next]_vars

\* lwIP delivers what was sent, and polls.
FairSpec ==
    /\ Spec
    /\ \A k \in Client : /\ WF_vars(ServerData(k)) /\ WF_vars(ClientData(k))
                         /\ WF_vars(ServerSignal(k)) /\ WF_vars(ClientSignal(k))
                         /\ WF_vars(ServerPoll(k)) /\ WF_vars(ClientPoll(k))

-----------------------------------------------------------------------------
\* A test that is alone and never short of memory succeeds at both ends, however
\* its buffers are cut into segments and its acknowledgements delayed: each round
\* compares the buffer of that round, and the client ends with success after the
\* server has found every round right.
AloneSucceeds == wrong = {}

\* Every connection the server accepted is over some time, so that its slot is
\* free again (or lost to ERR_ABRT), and every client that connected is done: no
\* exchange, with repeated sends and shared buffers, ends with both sides waiting
\* for the other.
ConnectionsEnd ==
    \A k \in Client : /\ \A i \in Slots : []<>(slot[i].client_pcb # k)
                      /\ []<>(client[k].st # "open")
=============================================================================
