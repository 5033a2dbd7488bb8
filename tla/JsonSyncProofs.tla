--------------------------- MODULE JsonSyncProofs ---------------------------
(***************************************************************************)
(* Versions and pages of JsonSync, for any number of devices, connections  *)
(* and events, any length of a text and any size of the parts of a page.   *)
(***************************************************************************)
EXTENDS JsonSync, FiniteSetTheorems, SequenceTheorems, TLAPS

MsgLen == HdrLen + TextLen
Doc == [ver : Nat, owner : Device \cup {"none"}]
Cell == [part : Nat, doc : Doc, size : Nat]

\* The j-th cell of the message with this text.
MsgCell(doc, j) == IF j = 1 THEN Header(MsgLen, doc.ver) ELSE Piece(doc, j - 1)

\* A buffer holds the first r cells of that message; all of some message.
Holds(buf, doc, r) == \A i \in 0 .. r - 1 : buf[i] = MsgCell(doc, i + 1)
Whole(buf) == \E doc \in Doc : Holds(buf, doc, MsgLen)

\* Types, as long as no uses of a buffer have overlapped.
Client ==
    [st : {"free", "syn", "open", "closed"}, from : Device \cup {NoConn},
     to : Device \cup {NoConn}, recv_len : Nat, sent_len : Nat, mem : BOOLEAN,
     c2s : Seq(Cell), s2c : Seq(Cell), acks : Nat, sOpen : BOOLEAN,
     wrote : BOOLEAN, quiet : BOOLEAN]
Slot ==
    [conn : Conn \cup {NoConn, DeadConn}, recv_len : Nat, recv_size : Nat,
     recv_flag : BOOLEAN, send_size : Nat, mem : BOOLEAN]
TypeOK ==
    /\ mirror \in [Device -> Doc]
    /\ json_buffer \in [Device -> [Pos -> Cell]]
    /\ main \in [Device -> [pc : {"sleep", "header", "open"}, last : Nat, todo : SUBSET Device]]
    /\ server \in [Device -> Slot]
    /\ conn \in [Conn -> Client]
    /\ page \in [Device -> [part : Nat, shown : Seq(Cell)]]
    /\ \A c \in Conn : conn[c].st # "free" => conn[c].from \in Device /\ conn[c].to \in Device

\* What main has made of the buffer buf, when it is m.
MainInv(m, buf) ==
    /\ m.pc = "header" => \A i \in 1 .. TextLen : buf[i] = Piece(buf[1].doc, i)
    /\ m.pc = "open" => Whole(buf)

\* A page has shown the first part chunks of the text in the buffer.
PageInv(p, buf) ==
    /\ Len(p.shown) = p.part * ChunkLen
    /\ p.part > 0 =>
          /\ Whole(buf)
          /\ p.part * ChunkLen <= TextLen
          /\ \A i \in 1 .. Len(p.shown) : p.shown[i] = buf[i]

\* A slot is that of a connection to this device.
SlotInv ==
    \A e \in Device : server[e].conn \in Conn =>
        conn[server[e].conn].to = e /\ conn[server[e].conn].st \in {"open", "closed"}

\* Nothing has been sent or received.
Untouched(k) ==
    k.c2s = <<>> /\ k.s2c = <<>> /\ k.acks = 0 /\ k.sent_len = 0 /\ k.recv_len = 0

\* Slot s of a buffer b is receiving the message of client k, a its buffer.
Receiving(k, s, a, b) ==
    /\ k.s2c = <<>> /\ k.recv_len = 0 /\ Whole(a)
    /\ k.sent_len + k.acks = s.recv_len /\ s.recv_len < MsgLen
    /\ (s.recv_flag <=> s.recv_len > HdrLen)
    /\ s.recv_size = IF s.recv_flag THEN MsgLen ELSE MAX_JSON_BUF_SIZE
    /\ \E doc \in Doc :
          /\ Holds(b, doc, s.recv_len)
          /\ Len(k.c2s) = MsgLen - s.recv_len
          /\ \A j \in 1 .. Len(k.c2s) : k.c2s[j] = MsgCell(doc, s.recv_len + j)

\* The slot has received all of it and answers.
Replying(k, s, a, b) ==
    /\ k.c2s = <<>> /\ s.recv_len = MsgLen
    /\ \/ k.recv_len = 0 /\ k.sent_len + k.acks = MsgLen /\ k.acks > 0 /\ Whole(a)
       \/ k.acks = 0 /\ k.sent_len = 0 /\ (k.recv_len = 0 => a[0].size = MAX_JSON_BUF_SIZE)
    /\ s.send_size \in {HdrLen, MsgLen}
    /\ s.mem => IF s.send_size = HdrLen THEN b[0].size = HdrLen ELSE Whole(b)
    /\ \/ k.recv_len = 0 /\ k.s2c = <<>> /\ s.mem
       \/ k.recv_len < s.send_size /\ k.recv_len + Len(k.s2c) >= s.send_size
    /\ s.send_size = HdrLen /\ k.s2c # <<>> => k.s2c[1].size = HdrLen
    /\ s.send_size = MsgLen =>
          \E doc \in Doc :
             /\ Holds(a, doc, k.recv_len)
             /\ \A j \in 1 .. Len(k.s2c) :
                   k.recv_len + j <= MsgLen => k.s2c[j] = MsgCell(doc, k.recv_len + j)

\* A connection c that is k, with slot s at the other end.
OpenInv(c, k, s, a, b) ==
    CASE ~k.wrote ->
           /\ Untouched(k) /\ Whole(a)
           /\ s.conn = c => s.recv_len = 0 /\ s.send_size = 0 /\ ~s.recv_flag
                            /\ s.recv_size = MAX_JSON_BUF_SIZE
      [] k.wrote /\ s.conn # c ->
           /\ k.s2c = <<>> /\ k.acks = 0 /\ k.sent_len = 0 /\ k.recv_len = 0 /\ Whole(a)
           /\ k.sOpen => \E doc \in Doc :
                            /\ Len(k.c2s) = MsgLen
                            /\ \A j \in 1 .. MsgLen : k.c2s[j] = MsgCell(doc, j)
      [] k.wrote /\ s.conn = c /\ s.send_size = 0 -> Receiving(k, s, a, b)
      [] k.wrote /\ s.conn = c /\ s.send_size # 0 -> Replying(k, s, a, b)
ConnInv(c, k, s, a, b) ==
    /\ k.st = "syn" => Untouched(k) /\ ~k.wrote /\ Whole(a) /\ s.conn # c
    /\ k.st = "open" => OpenInv(c, k, s, a, b) /\ (s.conn = c => k.sOpen)
    /\ k.st = "closed" /\ s.conn = c => k.c2s = <<>>

ConnOk(c) ==
    conn[c].st # "free" =>
        ConnInv(c, conn[c], server[conn[c].to], json_buffer[conn[c].from], json_buffer[conn[c].to])

\* The inductive invariant, up to the first overlap.
Core ==
    /\ TypeOK /\ SlotInv
    /\ \A d \in Device : MainInv(main[d], json_buffer[d])
    /\ \A d \in Device : PageInv(page[d], json_buffer[d])
    /\ \A c \in Conn : ConnOk(c)
Inv == ~cutPage /\ (overlap \/ Core)

-----------------------------------------------------------------------------
(* Messages and buffers *)

\* The sizes.
LEMMA Sizes ==
    /\ TextLen \in Nat /\ TextLen >= 1 /\ MsgLen = TextLen + 1 /\ HdrLen = 1
    /\ MsgLen \in Nat /\ MAX_JSON_BUF_SIZE \in Nat /\ MsgLen <= MAX_JSON_BUF_SIZE
    /\ ChunkLen \in Nat /\ ChunkLen >= 1
    /\ Pos = 0 .. MAX_JSON_BUF_SIZE - 1
  BY JsonAssumption DEF MsgLen, HdrLen, Pos

\* What a cell of a message says.
LEMMA CellFacts ==
    ASSUME NEW doc \in Doc
    PROVE  /\ \A j \in 1 .. MsgLen : MsgCell(doc, j) \in Cell
           /\ MsgCell(doc, 1).size = MsgLen /\ MsgCell(doc, 1).doc.ver = doc.ver
           /\ MsgCell(doc, 1) = Header(MsgLen, doc.ver)
           /\ \A i \in 1 .. TextLen : MsgCell(doc, i + 1) = Piece(doc, i)
           /\ \A i \in 1 .. TextLen : Piece(doc, i).part = i /\ Piece(doc, i).doc = doc
<1>1. NoDoc \in Doc /\ doc.ver \in Nat
  BY DEF Doc, NoDoc
<1>2. [NoDoc EXCEPT !.ver = doc.ver] \in Doc /\ [NoDoc EXCEPT !.ver = doc.ver].ver = doc.ver
  BY <1>1 DEF Doc, NoDoc
<1>3. /\ Header(MsgLen, doc.ver) \in Cell /\ Header(MsgLen, doc.ver).size = MsgLen
      /\ Header(MsgLen, doc.ver).doc.ver = doc.ver
  BY <1>2, Sizes DEF Header, Cell
<1>4. \A i \in Nat : Piece(doc, i) \in Cell /\ Piece(doc, i).part = i /\ Piece(doc, i).doc = doc
  BY Sizes DEF Piece, Cell, Garbage
<1>5. \A j \in 1 .. MsgLen : MsgCell(doc, j) \in Cell
  BY <1>3, <1>4, Sizes DEF MsgCell
<1>6. \A i \in 1 .. TextLen : i + 1 # 1 /\ i + 1 - 1 = i /\ i \in Nat
  BY Sizes
<1> QED
  BY <1>3, <1>4, <1>5, <1>6 DEF MsgCell

\* The text of a whole message parses to what was printed.
LEMMA ParsedWhole ==
    ASSUME NEW buf, NEW doc \in Doc, Holds(buf, doc, MsgLen)
    PROVE  Parsed(buf) = {doc} /\ buf[0].doc.ver = doc.ver /\ buf[0].size = MsgLen
<1>1. \A i \in 1 .. TextLen : buf[i] = Piece(doc, i)
  <2> SUFFICES ASSUME NEW i \in 1 .. TextLen
               PROVE  buf[i] = Piece(doc, i)
    OBVIOUS
  <2>1. i \in 0 .. MsgLen - 1
    BY Sizes
  <2>2. buf[i] = MsgCell(doc, i + 1)
    BY <2>1 DEF Holds
  <2> QED
    BY <2>2, CellFacts
<1>2. \A i \in 1 .. TextLen : buf[i].part = i /\ buf[i].doc = doc
  BY <1>1, CellFacts
<1>3. {buf[i].doc : i \in 1 .. TextLen} = {doc}
  <2>1. 1 \in 1 .. TextLen
    BY Sizes
  <2> QED
    BY <1>2, <2>1
<1>4. Cardinality({doc}) = 1
  BY FS_Singleton
<1>5. Parsed(buf) = {doc}
  <2> DEFINE inPlace == \A i \in 1 .. TextLen : buf[i].part = i
             docs == {buf[i].doc : i \in 1 .. TextLen}
  <2>1. Parsed(buf) = CASE inPlace /\ Cardinality(docs) = 1 -> docs
                        [] inPlace /\ Cardinality(docs) > 1 -> docs \cup {NoDoc}
                        [] OTHER -> {NoDoc}
    BY DEF Parsed
  <2>2. inPlace /\ docs = {doc}
    BY <1>2, <1>3
  <2> HIDE DEF inPlace, docs
  <2>3. Cardinality(docs) = 1
    BY <2>2, <1>4
  <2> QED
    BY <2>1, <2>2, <2>3
<1>6. buf[0] = MsgCell(doc, 0 + 1)
  <2>1. 0 \in 0 .. MsgLen - 1
    BY Sizes
  <2> QED
    BY <2>1 DEF Holds
<1> QED
  BY <1>5, <1>6, CellFacts

\* A text with its header before it is a whole message.
LEMMA HeaderWhole ==
    ASSUME NEW p \in [Pos -> Cell], NEW doc \in Doc, \A i \in 1 .. TextLen : p[i] = Piece(doc, i)
    PROVE  /\ WithHeader(p, doc.ver) \in [Pos -> Cell]
           /\ Holds(WithHeader(p, doc.ver), doc, MsgLen)
<1> DEFINE w == WithHeader(p, doc.ver)
<1>1. HdrLen + TextLen = MsgLen /\ Header(MsgLen, doc.ver) \in Cell /\ 0 \in Pos
  <2>1. 1 \in 1 .. MsgLen /\ 0 \in Pos
    BY Sizes
  <2> QED
    BY <2>1, CellFacts DEF MsgLen
<1>2. w \in [Pos -> Cell] /\ w[0] = Header(MsgLen, doc.ver) /\ \A i \in Pos : i # 0 => w[i] = p[i]
  <2>1. w = [p EXCEPT ![0] = Header(MsgLen, doc.ver)]
    BY <1>1 DEF WithHeader
  <2> QED
    BY <2>1, <1>1
<1> HIDE DEF w
<1>3. Holds(w, doc, MsgLen)
  <2> SUFFICES ASSUME NEW i \in 0 .. MsgLen - 1
               PROVE  w[i] = MsgCell(doc, i + 1)
    BY DEF Holds
  <2>1. CASE i = 0
    BY <2>1, <1>2, CellFacts
  <2>2. CASE i # 0
    <3>1. i \in 1 .. TextLen /\ i \in Pos
      BY <2>2, Sizes
    <3>2. w[i] = Piece(doc, i)
      BY <2>2, <3>1, <1>2
    <3> QED
      BY <3>1, <3>2, CellFacts
  <2> QED
    BY <2>1, <2>2
<1> QED
  BY <1>2, <1>3 DEF w

\* What is printed, and given its header, is a whole message.
LEMMA PrintedWhole ==
    ASSUME NEW buf \in [Pos -> Cell], NEW doc \in Doc
    PROVE  /\ Printed(buf, doc) \in [Pos -> Cell]
           /\ \A i \in 1 .. TextLen : Printed(buf, doc)[i] = Piece(doc, i)
           /\ WithHeader(Printed(buf, doc), doc.ver) \in [Pos -> Cell]
           /\ Holds(WithHeader(Printed(buf, doc), doc.ver), doc, MsgLen)
<1>1. \A i \in 1 .. TextLen : i \in Pos /\ Piece(doc, i) \in Cell
  <2>1. \A i \in 1 .. TextLen : i \in Pos /\ i + 1 \in 1 .. MsgLen
    BY Sizes
  <2> QED
    BY <2>1, CellFacts
<1>2. Printed(buf, doc) \in [Pos -> Cell]
  BY <1>1 DEF Printed
<1>3. \A i \in 1 .. TextLen : Printed(buf, doc)[i] = Piece(doc, i)
  BY <1>1 DEF Printed
<1> QED
  BY <1>2, <1>3, HeaderWhole

\* get_mirror gives a document that is no older than the mirror.
LEMMA MirrorNoOlder ==
    ASSUME mirror \in [Device -> Doc], NEW d \in Device
    PROVE  /\ get_mirror(d) \in Doc /\ get_mirror(d).ver >= mirror[d].ver
           /\ get_mirror_update_count(d) = get_mirror(d).ver
           /\ mirror[d].ver \in Nat /\ get_mirror(d).ver \in Nat
  BY DEF get_mirror, get_mirror_update_count, Doc, NoDoc, DEFAULT_UPDATE_COUNT

\* The cells of a segment land behind what came before.
LEMMA CopiedCells ==
    ASSUME NEW buf \in [Pos -> Cell], NEW len \in Nat, NEW q \in Seq(Cell),
           NEW n \in Nat, n <= Len(q), len + n <= MAX_JSON_BUF_SIZE
    PROVE  /\ Copied(buf, len, SubSeq(q, 1, n)) \in [Pos -> Cell]
           /\ \A i \in Pos : Copied(buf, len, SubSeq(q, 1, n))[i] =
                   IF i >= len /\ i < len + n THEN q[i - len + 1] ELSE buf[i]
<1> DEFINE cells == SubSeq(q, 1, n)
<1>1. cells \in Seq(Cell) /\ Len(cells) = n /\ \A j \in 1 .. n : cells[j] = q[j] /\ q[j] \in Cell
  OBVIOUS
<1> HIDE DEF cells
<1>2. \A i \in Pos : i \in len .. len + Len(cells) - 1 <=> i >= len /\ i < len + n
  BY <1>1, Sizes
<1>3. \A i \in Pos : i >= len /\ i < len + n => i - len + 1 \in 1 .. n
  BY Sizes
<1> QED
  BY <1>1, <1>2, <1>3 DEF Copied, cells

\* They continue the message they belong to.
LEMMA HoldsMore ==
    ASSUME NEW buf, NEW buf2, NEW doc \in Doc, NEW r \in Nat, NEW n \in Nat, r + n <= MsgLen,
           Holds(buf, doc, r), NEW q,
           \A j \in 1 .. n : q[j] = MsgCell(doc, r + j),
           \A i \in Pos : buf2[i] = IF i >= r /\ i < r + n THEN q[i - r + 1] ELSE buf[i]
    PROVE  Holds(buf2, doc, r + n)
<1> SUFFICES ASSUME NEW i \in 0 .. (r + n) - 1
             PROVE  buf2[i] = MsgCell(doc, i + 1)
  BY DEF Holds
<1>1. i \in Pos
  BY Sizes
<1>2. CASE i < r
  BY <1>1, <1>2 DEF Holds
<1>3. CASE i >= r
  <2>1. i - r + 1 \in 1 .. n /\ r + (i - r + 1) = i + 1 /\ i < r + n
    BY <1>3
  <2>2. q[i - r + 1] = MsgCell(doc, r + (i - r + 1))
    BY <2>1
  <2> QED
    BY <1>1, <1>3, <2>1, <2>2
<1> QED
  BY <1>2, <1>3

-----------------------------------------------------------------------------
(* What a step leaves alone *)

\* A slot that uses the buffer of its device.
Busy(s) == s.recv_len > 0 /\ (s.send_size = 0 \/ s.mem)

\* No version goes back.
NoOlder == \A d \in Device : mirror'[d].ver >= mirror[d].ver

\* Who else may not be there when a use touches the buffer without overlap.
LEMMA SoleUse ==
    ASSUME NEW d \in Device, NEW u, Uses(d) \ {u} = {}
    PROVE  /\ u # "main" => main[d].pc = "sleep"
           /\ u # "page" => page[d].part = 0
           /\ u # "server" => ~Busy(server[d])
           /\ \A c \in Conn : c # u /\ conn[c].from = d => conn[c].st \notin {"syn", "open"}
<1>1. /\ "main" \in Uses(d) <=> main[d].pc # "sleep" \/ "main" \in {c \in Conn : conn[c].from = d /\ conn[c].st \in {"syn", "open"}}
      /\ page[d].part # 0 => "page" \in Uses(d)
      /\ Busy(server[d]) => "server" \in Uses(d)
      /\ \A c \in Conn : conn[c].from = d /\ conn[c].st \in {"syn", "open"} => c \in Uses(d)
  BY DEF Uses, Busy
<1> QED
  BY <1>1

\* A connection whose own ends, and the buffers it depends on, are left alone.
LEMMA ConnFrame ==
    ASSUME NEW c, NEW k, NEW s \in Slot, NEW s2, NEW a, NEW b, NEW a2, NEW b2,
           ConnInv(c, k, s, a, b),
           k.st \in {"syn", "open"} => a2 = a,
           s.conn # c => s2.conn # c,
           s.conn = c => s2 = s /\ (Busy(s) => b2 = b)
    PROVE  ConnInv(c, k, s2, a2, b2)
<1>1. CASE k.st = "syn"
  BY <1>1 DEF ConnInv
<1>2. CASE k.st = "closed"
  BY <1>2 DEF ConnInv
<1>3. CASE k.st = "open"
  <2>1. a2 = a /\ OpenInv(c, k, s, a, b) /\ (s2.conn = c => s.conn = c)
    BY <1>3 DEF ConnInv
  <2>2. s2.conn = c => k.sOpen
    BY <1>3, <2>1 DEF ConnInv
  <2>3. OpenInv(c, k, s2, a, b2)
    <3>1. CASE s.conn # c
      BY <2>1, <3>1 DEF OpenInv
    <3>2. CASE s.conn = c /\ ~k.wrote
      BY <2>1, <3>2 DEF OpenInv
    <3>3. CASE s.conn = c /\ k.wrote /\ s.send_size = 0
      <4>1. Receiving(k, s, a, b) /\ s2 = s
        BY <2>1, <3>3 DEF OpenInv
      <4>2. s.recv_len > 0 => b2 = b
        BY <3>3 DEF Busy
      <4>3. \A doc \in Doc : Holds(b, doc, s.recv_len) => Holds(b2, doc, s.recv_len)
        <5>1. s.recv_len \in Nat
          BY DEF Slot
        <5> QED
          BY <4>2, <5>1 DEF Holds
      <4>4. Receiving(k, s, a, b2)
        BY <4>1, <4>3 DEF Receiving
      <4> QED
        BY <4>1, <4>4, <3>3 DEF OpenInv
    <3>4. CASE s.conn = c /\ k.wrote /\ s.send_size # 0
      <4>1. Replying(k, s, a, b) /\ s2 = s
        BY <2>1, <3>4 DEF OpenInv
      <4>2. s.mem => b2 = b
        BY <3>4, <4>1, Sizes DEF Busy, Replying
      <4>3. Replying(k, s, a, b2)
        BY <4>1, <4>2 DEF Replying
      <4> QED
        BY <4>1, <4>3, <3>4 DEF OpenInv
    <3> QED
      BY <3>1, <3>2, <3>3, <3>4
  <2> QED
    BY <1>3, <2>1, <2>2, <2>3 DEF ConnInv
<1> QED
  BY <1>1, <1>2, <1>3 DEF ConnInv

\* The same when one buffer is touched, by a use that is alone there.
LEMMA ConnKept ==
    ASSUME Core, NEW d \in Device, NEW u, Uses(d) \ {u} = {},
           NEW buf, json_buffer' = [json_buffer EXCEPT ![d] = buf],
           NEW c \in Conn, c # u, conn'[c] = conn[c], conn[c].st # "free",
           server[conn[c].to].conn # c => server'[conn[c].to].conn # c,
           server[conn[c].to].conn = c => server'[conn[c].to] = server[conn[c].to],
           conn[c].to = d /\ server[d].conn = c => u # "server"
    PROVE  ConnOk(c)'
<1> DEFINE k == conn[c]
           s == server[k.to]
<1>1. /\ k.from \in Device /\ k.to \in Device /\ s \in Slot
      /\ ConnInv(c, k, s, json_buffer[k.from], json_buffer[k.to])
  BY DEF Core, TypeOK, ConnOk
<1>2. \A e \in Device : e # d => json_buffer'[e] = json_buffer[e]
  BY DEF Core, TypeOK
<1>3. k.st \in {"syn", "open"} => k.from # d
  BY SoleUse
<1>4. s.conn = c /\ Busy(s) => k.to # d
  BY SoleUse
<1>5. ConnInv(c, k, server'[k.to], json_buffer'[k.from], json_buffer'[k.to])
  <2> HIDE DEF k
  <2>1. k.st \in {"syn", "open"} => json_buffer'[k.from] = json_buffer[k.from]
    BY <1>1, <1>2, <1>3
  <2>2. s.conn = c => server'[k.to] = s /\ (Busy(s) => json_buffer'[k.to] = json_buffer[k.to])
    BY <1>1, <1>2, <1>4 DEF k
  <2>3. s.conn # c => server'[k.to].conn # c
    BY DEF k
  <2> HIDE DEF s
  <2> QED
    BY <1>1, <2>1, <2>2, <2>3, ConnFrame
<1> QED
  BY <1>5 DEF ConnOk

\* The same when no buffer is touched.
LEMMA ConnSame ==
    ASSUME Core, json_buffer' = json_buffer,
           NEW c \in Conn, conn'[c] = conn[c], conn[c].st # "free",
           server[conn[c].to].conn # c => server'[conn[c].to].conn # c,
           server[conn[c].to].conn = c => server'[conn[c].to] = server[conn[c].to]
    PROVE  ConnOk(c)'
<1> DEFINE k == conn[c]
           s == server[k.to]
<1>1. /\ k.from \in Device /\ k.to \in Device /\ s \in Slot
      /\ ConnInv(c, k, s, json_buffer[k.from], json_buffer[k.to])
  BY DEF Core, TypeOK, ConnOk
<1>2. ConnInv(c, k, server'[k.to], json_buffer[k.from], json_buffer[k.to])
  <2>1. s.conn # c => server'[k.to].conn # c
    OBVIOUS
  <2>2. s.conn = c => server'[k.to] = s
    OBVIOUS
  <2> HIDE DEF k, s
  <2> QED
    BY <1>1, <2>1, <2>2, ConnFrame
<1> QED
  BY <1>2 DEF ConnOk

\* main and the pages, when a use that is alone touches one buffer.
LEMMA MainPageKept ==
    ASSUME Core, NEW d \in Device, NEW u, Uses(d) \ {u} = {},
           NEW buf, json_buffer' = [json_buffer EXCEPT ![d] = buf], NEW e \in Device
    PROVE  /\ (e # d \/ u # "main") /\ main'[e] = main[e] => MainInv(main'[e], json_buffer'[e])
           /\ (e # d \/ u # "page") /\ page'[e] = page[e] => PageInv(page'[e], json_buffer'[e])
<1>1. e # d => json_buffer'[e] = json_buffer[e]
  BY DEF Core, TypeOK
<1>2. MainInv(main[e], json_buffer[e]) /\ PageInv(page[e], json_buffer[e])
  BY DEF Core
<1>3. e = d /\ u # "main" => main[e].pc = "sleep"
  BY SoleUse
<1>4. e = d /\ u # "page" => page[e].part = 0
  BY SoleUse
<1>5. ASSUME e # d \/ u # "main", main'[e] = main[e]
      PROVE  MainInv(main'[e], json_buffer'[e])
  BY <1>1, <1>2, <1>3, <1>5 DEF MainInv
<1>6. ASSUME e # d \/ u # "page", page'[e] = page[e]
      PROVE  PageInv(page'[e], json_buffer'[e])
  <2>1. CASE e # d
    BY <1>1, <1>2, <1>6, <2>1
  <2>2. CASE e = d
    <3>1. ~(page'[e].part > 0)
      BY <1>4, <1>6, <2>2
    <3>2. Len(page'[e].shown) = page'[e].part * ChunkLen
      BY <1>2, <1>6 DEF PageInv
    <3> QED
      BY <3>1, <3>2 DEF PageInv
  <2> QED
    BY <2>1, <2>2
<1> QED
  BY <1>5, <1>6

-----------------------------------------------------------------------------
(* The user, the page and the loop of main *)

\* The user's update: a higher count, and no buffer is touched.
LEMMA EditStep ==
    ASSUME Core, NEW d \in Device, Edit(d)
    PROVE  Core' /\ NoOlder
<1>1. /\ mirror \in [Device -> Doc] /\ get_mirror(d) \in Doc /\ mirror[d].ver \in Nat
      /\ get_mirror(d).ver >= mirror[d].ver
  BY MirrorNoOlder DEF Core, TypeOK
<1>2. Counted(mirror[d]) \in Doc /\ Counted(mirror[d]).ver = mirror[d].ver + 1
  BY <1>1 DEF Doc, Counted
<1> DEFINE doc == IF mirror[d] = NoDoc THEN get_mirror(d) ELSE Counted(mirror[d])
<1>3. doc \in Doc /\ doc.ver >= mirror[d].ver
  BY <1>1, <1>2
<1>4. mirror' = [mirror EXCEPT ![d] = doc]
  BY DEF Edit
<1> HIDE DEF doc
<1>5. mirror' \in [Device -> Doc] /\ NoOlder
  <2>1. \A e \in Device : mirror[e].ver \in Nat
    BY <1>1 DEF Doc
  <2> QED
    BY <1>1, <1>3, <1>4, <2>1 DEF NoOlder
<1>6. ASSUME NEW c \in Conn
      PROVE  /\ conn'[c] \in Client /\ conn'[c].st = conn[c].st
             /\ conn'[c].from = conn[c].from /\ conn'[c].to = conn[c].to
             /\ \A s, a, b : ConnInv(c, conn[c], s, a, b) => ConnInv(c, conn'[c], s, a, b)
  <2> DEFINE k == conn[c]
             k2 == conn'[c]
  <2>1. k \in Client
    BY DEF Core, TypeOK
  <2>2. k2 = [k EXCEPT !.quiet = FALSE] \/ k2 = k
    BY DEF Edit
  <2> HIDE DEF k, k2
  <2>3. k2 \in Client
    BY <2>1, <2>2 DEF Client
  <2>4. /\ k2.st = k.st /\ k2.from = k.from /\ k2.to = k.to /\ k2.recv_len = k.recv_len
        /\ k2.sent_len = k.sent_len /\ k2.mem = k.mem /\ k2.c2s = k.c2s /\ k2.s2c = k.s2c
        /\ k2.acks = k.acks /\ k2.sOpen = k.sOpen /\ k2.wrote = k.wrote
    BY <2>1, <2>2 DEF Client
  <2>5. \A s, a, b : Receiving(k, s, a, b) => Receiving(k2, s, a, b)
    BY <2>4 DEF Receiving
  <2>6. \A s, a, b : Replying(k, s, a, b) => Replying(k2, s, a, b)
    BY <2>4 DEF Replying
  <2>7. ASSUME NEW s, NEW a, NEW b, OpenInv(c, k, s, a, b)
        PROVE  OpenInv(c, k2, s, a, b)
    <3>1. CASE ~k.wrote
      BY <2>4, <2>7, <3>1 DEF OpenInv, Untouched
    <3>2. CASE k.wrote /\ s.conn # c
      BY <2>4, <2>7, <3>2 DEF OpenInv
    <3>3. CASE k.wrote /\ s.conn = c /\ s.send_size = 0
      BY <2>4, <2>5, <2>7, <3>3 DEF OpenInv
    <3>4. CASE k.wrote /\ s.conn = c /\ s.send_size # 0
      BY <2>4, <2>6, <2>7, <3>4 DEF OpenInv
    <3> QED
      BY <3>1, <3>2, <3>3, <3>4
  <2>8. \A s, a, b : ConnInv(c, k, s, a, b) => ConnInv(c, k2, s, a, b)
    BY <2>4, <2>7 DEF ConnInv, Untouched
  <2> QED
    BY <2>3, <2>4, <2>8 DEF k, k2
<1>7. UNCHANGED <<json_buffer, main, server, page>> /\ DOMAIN conn' = Conn /\ conn' = [c \in Conn |-> conn'[c]]
  BY DEF Edit
<1>8. conn' \in [Conn -> Client]
  BY <1>6, <1>7
<1>9. TypeOK' /\ SlotInv'
  <2>1. TypeOK'
    <3>1. \A c \in Conn : conn'[c].st # "free" => conn'[c].from \in Device /\ conn'[c].to \in Device
      BY <1>6 DEF Core, TypeOK
    <3>2. TypeOK
      BY DEF Core
    <3> QED
      BY ONLY <1>5, <1>7, <1>8, <3>1, <3>2 DEF TypeOK
  <2>2. SlotInv
    BY DEF Core
  <2>3. SlotInv'
    BY ONLY <1>6, <1>7, <2>2 DEF SlotInv
  <2> QED
    BY <2>1, <2>3
<1>10. \A c \in Conn : ConnOk(c)'
  BY <1>6, <1>7 DEF Core, ConnOk
<1> QED
  BY <1>5, <1>7, <1>9, <1>10 DEF Core

\* main prints the text: the pieces are those of the mirror.
LEMMA MainPrintStep ==
    ASSUME Core, ~overlap, NEW d \in Device, MainPrint(d), ~overlap'
    PROVE  Core' /\ NoOlder
<1> DEFINE g == get_mirror(d)
           buf == Printed(json_buffer[d], g)
<1>1. /\ mirror \in [Device -> Doc] /\ g \in Doc /\ g.ver >= mirror[d].ver
      /\ get_mirror_update_count(d) = g.ver /\ g.ver \in Nat /\ json_buffer[d] \in [Pos -> Cell]
  BY MirrorNoOlder DEF Core, TypeOK
<1>2. buf \in [Pos -> Cell] /\ \A i \in 1 .. TextLen : buf[i] = Piece(g, i)
  BY <1>1, PrintedWhole
<1>3. json_buffer' = [json_buffer EXCEPT ![d] = buf] /\ Uses(d) \ {"main"} = {}
  BY DEF MainPrint, Touch
<1> HIDE DEF g, buf
<1>4. mirror' = [mirror EXCEPT ![d] = g] /\ mirror' \in [Device -> Doc] /\ NoOlder
  <2>1. mirror' = [mirror EXCEPT ![d] = g]
    BY DEF MainPrint, g
  <2>2. \A e \in Device : mirror[e].ver \in Nat
    BY <1>1 DEF Doc
  <2> QED
    BY <1>1, <2>1, <2>2 DEF NoOlder
<1>5. /\ main' \in [Device -> [pc : {"sleep", "header", "open"}, last : Nat, todo : SUBSET Device]]
      /\ main'[d].pc = "header" /\ \A e \in Device : e # d => main'[e] = main[e]
  <2> DEFINE R == [pc : {"sleep", "header", "open"}, last : Nat, todo : SUBSET Device]
             r == [main[d] EXCEPT !.pc = "header", !.last = get_mirror_update_count(d)]
  <2>1. main \in [Device -> R] /\ main[d] \in R
    BY DEF Core, TypeOK
  <2>2. main' = [main EXCEPT ![d] = r]
    BY DEF MainPrint
  <2>3. r \in R /\ r.pc = "header"
    BY <2>1, <1>1
  <2> HIDE DEF r
  <2> QED
    BY <2>1, <2>2, <2>3
<1>6. UNCHANGED <<server, conn, page>>
  BY DEF MainPrint
<1>7. json_buffer' \in [Device -> [Pos -> Cell]] /\ json_buffer'[d] = buf
  BY <1>2, <1>3 DEF Core, TypeOK
<1>8. TypeOK' /\ SlotInv'
  BY <1>4, <1>5, <1>6, <1>7 DEF Core, TypeOK, SlotInv
<1>9. MainInv(main'[d], json_buffer'[d])
  <2>1. 1 \in 1 .. TextLen
    BY Sizes
  <2>2. \A i \in 1 .. TextLen : Piece(g, i).doc = g
    BY <1>1, CellFacts
  <2>3. \A i \in 1 .. TextLen : buf[i] = Piece(buf[1].doc, i)
    BY <1>2, <2>1, <2>2
  <2> QED
    BY <1>5, <1>7, <2>3 DEF MainInv
<1>10. \A e \in Device : MainInv(main'[e], json_buffer'[e]) /\ PageInv(page'[e], json_buffer'[e])
  BY <1>3, <1>5, <1>6, <1>9, MainPageKept
<1>11. ASSUME NEW c \in Conn
       PROVE  ConnOk(c)'
  <2>1. CASE conn[c].st = "free"
    BY <1>6, <2>1 DEF ConnOk
  <2>2. CASE conn[c].st # "free"
    <3>1. c # "main"
      BY ConnAssumption
    <3> QED
      BY <1>3, <1>6, <2>2, <3>1, ConnKept
  <2> QED
    BY <2>1, <2>2
<1> QED
  BY <1>4, <1>8, <1>10, <1>11 DEF Core

\* main fills in the header: without overlap it is that of the printed text.
LEMMA MainHeaderStep ==
    ASSUME Core, ~overlap, NEW d \in Device, MainHeader(d), ~overlap'
    PROVE  Core' /\ NoOlder
<1> DEFINE g == get_mirror(d)
           buf == WithHeader(json_buffer[d], g.ver)
<1>1. /\ mirror \in [Device -> Doc] /\ g \in Doc /\ g.ver >= mirror[d].ver
      /\ get_mirror_update_count(d) = g.ver /\ g.ver \in Nat /\ json_buffer[d] \in [Pos -> Cell]
  BY MirrorNoOlder DEF Core, TypeOK
<1>2. /\ json_buffer' = [json_buffer EXCEPT ![d] = buf] /\ Uses(d) \ {"main"} = {}
      /\ g = json_buffer[d][1].doc
  BY <1>1 DEF MainHeader
<1>3. buf \in [Pos -> Cell] /\ Holds(buf, g, MsgLen)
  <2>1. MainInv(main[d], json_buffer[d]) /\ main[d].pc = "header"
    BY DEF Core, MainHeader
  <2>2. \A i \in 1 .. TextLen : json_buffer[d][i] = Piece(g, i)
    BY <1>2, <2>1 DEF MainInv
  <2> QED
    BY <1>1, <2>2, HeaderWhole
<1> HIDE DEF g, buf
<1>4. mirror' \in [Device -> Doc] /\ NoOlder
  <2>1. mirror' = [mirror EXCEPT ![d] = g]
    BY DEF MainHeader, g
  <2>2. \A e \in Device : mirror[e].ver \in Nat
    BY <1>1 DEF Doc
  <2> QED
    BY <1>1, <2>1, <2>2 DEF NoOlder
<1>5. /\ main' \in [Device -> [pc : {"sleep", "header", "open"}, last : Nat, todo : SUBSET Device]]
      /\ main'[d].pc = "open" /\ \A e \in Device : e # d => main'[e] = main[e]
  <2> DEFINE R == [pc : {"sleep", "header", "open"}, last : Nat, todo : SUBSET Device]
             r == [main[d] EXCEPT !.pc = "open", !.todo = Buddy \ {d}]
  <2>1. main \in [Device -> R] /\ main[d] \in R
    BY DEF Core, TypeOK
  <2>2. main' = [main EXCEPT ![d] = r]
    BY DEF MainHeader
  <2>3. r \in R /\ r.pc = "open"
    BY <2>1, JsonAssumption
  <2> HIDE DEF r
  <2> QED
    BY <2>1, <2>2, <2>3
<1>6. UNCHANGED <<server, conn, page>>
  BY DEF MainHeader
<1>7. json_buffer' \in [Device -> [Pos -> Cell]] /\ json_buffer'[d] = buf
  BY <1>2, <1>3 DEF Core, TypeOK
<1>8. TypeOK' /\ SlotInv'
  BY <1>4, <1>5, <1>6, <1>7 DEF Core, TypeOK, SlotInv
<1>9. MainInv(main'[d], json_buffer'[d])
  <2>1. Whole(buf)
    BY <1>1, <1>3 DEF Whole
  <2> QED
    BY <1>5, <1>7, <2>1 DEF MainInv
<1>10. \A e \in Device : MainInv(main'[e], json_buffer'[e]) /\ PageInv(page'[e], json_buffer'[e])
  BY <1>2, <1>5, <1>6, <1>9, MainPageKept
<1>11. ASSUME NEW c \in Conn
       PROVE  ConnOk(c)'
  <2>1. CASE conn[c].st = "free"
    BY <1>6, <2>1 DEF ConnOk
  <2>2. CASE conn[c].st # "free"
    <3>1. c # "main"
      BY ConnAssumption
    <3> QED
      BY <1>2, <1>6, <2>2, <3>1, ConnKept
  <2> QED
    BY <2>1, <2>2
<1> QED
  BY <1>4, <1>8, <1>10, <1>11 DEF Core

\* Steps that touch neither a buffer nor a mirror: what is left to show.
LEMMA QuietStep ==
    ASSUME Core, json_buffer' = json_buffer, mirror' = mirror, page' = page,
           TypeOK', SlotInv', \A d \in Device : main'[d] = main[d] \/ main'[d].pc = "sleep"
                                           \/ (main[d].pc = "open" /\ main'[d].pc = "open"),
           \A c \in Conn : ConnOk(c)'
    PROVE  Core' /\ NoOlder
<1>1. NoOlder
  <2>1. \A e \in Device : mirror[e].ver \in Nat
    BY DEF Core, TypeOK, Doc
  <2> QED
    BY <2>1 DEF NoOlder
<1>2. \A e \in Device : MainInv(main'[e], json_buffer'[e])
  BY DEF Core, MainInv
<1> QED
  BY <1>1, <1>2 DEF Core

\* main has no buddies.
LEMMA MainAloneStep ==
    ASSUME Core, NEW d \in Device, MainAlone(d)
    PROVE  Core' /\ NoOlder
<1>1. /\ main' \in [Device -> [pc : {"sleep", "header", "open"}, last : Nat, todo : SUBSET Device]]
      /\ \A e \in Device : main'[e] = main[e] \/ main'[e].pc = "sleep"
  <2>1. main[d] \in [pc : {"sleep", "header", "open"}, last : Nat, todo : SUBSET Device]
    BY DEF Core, TypeOK
  <2> DEFINE r == [main[d] EXCEPT !.pc = "sleep"]
  <2>2. r \in [pc : {"sleep", "header", "open"}, last : Nat, todo : SUBSET Device] /\ r.pc = "sleep"
    BY <2>1
  <2>3. main' = [main EXCEPT ![d] = r]
    BY DEF MainAlone
  <2> HIDE DEF r
  <2> QED
    BY <2>2, <2>3 DEF Core, TypeOK
<1>2. UNCHANGED <<mirror, json_buffer, server, conn, page>>
  BY DEF MainAlone
<1>3. TypeOK' /\ SlotInv'
  BY <1>1, <1>2 DEF Core, TypeOK, SlotInv
<1>4. \A c \in Conn : ConnOk(c)'
  BY <1>2 DEF Core, ConnOk
<1> QED
  BY <1>1, <1>2, <1>3, <1>4, QuietStep

\* A client is opened for a buddy, on a connection no slot has.
LEMMA OpenStep ==
    ASSUME Core, NEW d \in Device, NEW b \in Buddy, tcp_client_json_init_open(d, b)
    PROVE  Core' /\ NoOlder
<1>1. /\ main' \in [Device -> [pc : {"sleep", "header", "open"}, last : Nat, todo : SUBSET Device]]
      /\ \A e \in Device : \/ main'[e] = main[e] \/ main'[e].pc = "sleep"
                            \/ (main[e].pc = "open" /\ main'[e].pc = "open")
  <2>1. main[d] \in [pc : {"sleep", "header", "open"}, last : Nat, todo : SUBSET Device]
    BY DEF Core, TypeOK
  <2> DEFINE r == [main[d] EXCEPT !.todo = @ \ {b}, !.pc = IF main[d].todo = {b} THEN "sleep" ELSE @]
  <2>2. /\ r \in [pc : {"sleep", "header", "open"}, last : Nat, todo : SUBSET Device]
        /\ r.pc = "sleep" \/ r.pc = main[d].pc
    BY <2>1
  <2>3. main' = [main EXCEPT ![d] = r] /\ main[d].pc = "open"
    BY DEF tcp_client_json_init_open
  <2> HIDE DEF r
  <2> QED
    BY <2>2, <2>3 DEF Core, TypeOK
<1>2. UNCHANGED <<mirror, json_buffer, server, page>>
  BY DEF tcp_client_json_init_open
<1>3. CASE conn' = conn
  <2>1. TypeOK' /\ SlotInv'
    BY <1>1, <1>2, <1>3 DEF Core, TypeOK, SlotInv
  <2>2. \A c \in Conn : ConnOk(c)'
    BY <1>2, <1>3 DEF Core, ConnOk
  <2> QED
    BY <1>1, <1>2, <2>1, <2>2, QuietStep
<1>4. CASE conn' # conn
  <2> DEFINE f == CHOOSE c \in Conn : conn[c].st = "free"
             k == [NoClient EXCEPT !.st = "syn", !.from = d, !.to = b, !.sOpen = TRUE,
                                   !.quiet = json_buffer[d][1].doc = mirror[d]]
  <2>1. f \in Conn /\ conn[f].st = "free"
    BY DEF tcp_client_json_init_open
  <2>2. conn' = [conn EXCEPT ![f] = k]
    BY <1>4 DEF tcp_client_json_init_open
  <2>3. b \in Device /\ Whole(json_buffer[d])
    BY JsonAssumption DEF tcp_client_json_init_open, Core, MainInv
  <2>4. k \in Client
    <3>1. NoClient \in Client
      BY DEF NoClient, Client
    <3>2. (json_buffer[d][1].doc = mirror[d]) \in BOOLEAN
      OBVIOUS
    <3> QED
      BY <2>3, <3>1, <3>2 DEF Client
  <2>5. k.st = "syn" /\ k.from = d /\ k.to = b /\ Untouched(k) /\ k.wrote = FALSE
    BY DEF NoClient, Untouched
  <2> HIDE DEF f, k
  <2>6. conn' \in [Conn -> Client] /\ conn'[f] = k /\ \A c \in Conn : c # f => conn'[c] = conn[c]
    BY <2>1, <2>2, <2>4 DEF Core, TypeOK
  <2>7. \A e \in Device : server[e].conn # f
    BY <2>1 DEF Core, SlotInv
  <2>8. TypeOK'
    BY <1>1, <1>2, <2>3, <2>5, <2>6 DEF Core, TypeOK
  <2>9. SlotInv'
    BY <1>2, <2>6, <2>7 DEF Core, SlotInv
  <2>10. ASSUME NEW c \in Conn
         PROVE  ConnOk(c)'
    <3>1. CASE c = f
      <4>1. ConnInv(f, k, server[b], json_buffer[d], json_buffer[b])
        BY <2>3, <2>5, <2>7 DEF ConnInv
      <4> QED
        BY <3>1, <4>1, <1>2, <2>5, <2>6 DEF ConnOk
    <3>2. CASE c # f
      BY <3>2, <1>2, <2>6 DEF Core, ConnOk
    <3> QED
      BY <3>1, <3>2
  <2> QED
    BY <1>1, <1>2, <2>8, <2>9, <2>10, QuietStep
<1> QED
  BY <1>3, <1>4

\* Two pieces of a buffer, one after the other.
LEMMA Continued ==
    ASSUME NEW s \in Seq(Cell), NEW q \in Seq(Cell), NEW buf,
           \A i \in 1 .. Len(s) : s[i] = buf[i], \A i \in 1 .. Len(q) : q[i] = buf[Len(s) + i]
    PROVE  /\ s \o q \in Seq(Cell) /\ Len(s \o q) = Len(s) + Len(q)
           /\ \A i \in 1 .. Len(s) + Len(q) : (s \o q)[i] = buf[i]
<1>1. s \o q \in Seq(Cell) /\ Len(s \o q) = Len(s) + Len(q)
  BY ConcatProperties
<1>2. ASSUME NEW i \in 1 .. Len(s) + Len(q)
      PROVE  (s \o q)[i] = buf[i]
  <2>1. (s \o q)[i] = IF i <= Len(s) THEN s[i] ELSE q[i - Len(s)]
    BY ConcatProperties
  <2>2. i > Len(s) => i - Len(s) \in 1 .. Len(q) /\ Len(s) + (i - Len(s)) = i
    OBVIOUS
  <2> QED
    BY <2>1, <2>2
<1> QED
  BY <1>1, <1>2

\* The last chunk of a page makes it whole.
LEMMA ChunkShown ==
    ASSUME NEW buf, NEW doc \in Doc, Holds(buf, doc, MsgLen),
           NEW s \in Seq(Cell), NEW q \in Seq(Cell), Len(s) + Len(q) = TextLen,
           \A i \in 1 .. Len(s) : s[i] = buf[i], \A i \in 1 .. Len(q) : q[i] = buf[Len(s) + i]
    PROVE  WholeText(s \o q)
<1> DEFINE w == s \o q
<1>1. Len(w) = TextLen /\ \A i \in 1 .. TextLen : w[i] = buf[i]
  <2>1. /\ Len(w) = Len(s) + Len(q)
        /\ \A i \in 1 .. Len(s) + Len(q) : w[i] = buf[i]
    BY Continued
  <2> QED
    BY <2>1
<1> HIDE DEF w
<1>2. ASSUME NEW i \in 1 .. TextLen
      PROVE  buf[i] = Piece(doc, i)
  <2>1. i \in 0 .. MsgLen - 1
    BY Sizes
  <2>2. buf[i] = MsgCell(doc, i + 1)
    BY <2>1 DEF Holds
  <2> QED
    BY <2>2, CellFacts
<1>3. 1 \in 1 .. TextLen
  BY Sizes
<1>4. w[1].doc = doc
  <2>1. w[1] = Piece(doc, 1)
    BY ONLY <1>1, <1>2, <1>3
  <2> QED
    BY <2>1, <1>3, CellFacts
<1> QED
  BY <1>1, <1>2, <1>4 DEF WholeText, w

\* The lesser and the greater of two numbers.
LEMMA MinMaxTwo ==
    ASSUME NEW x \in Int, NEW y \in Int
    PROVE  /\ Min({x, y}) = IF x <= y THEN x ELSE y
           /\ Max({x, y}) = IF x >= y THEN x ELSE y
  BY DEF Min, Max

\* A part of the page: the text goes on where the last part ended.
LEMMA PageStep ==
    ASSUME Core, ~overlap, NEW d \in Device, ssi_json(d), ~overlap'
    PROVE  Core' /\ NoOlder /\ (~cutPage => ~cutPage')
<1> DEFINE p == page[d]
           first == p.part = 0
           g == get_mirror(d)
           buf == IF first THEN json_prep_get_counter_value(d) ELSE json_buffer[d]
           P == p.part * ChunkLen
           remlen == buf[0].size - HdrLen - p.part * ChunkLen
           chunk == Min({remlen, ChunkLen})
           sofar == buf[0].size - HdrLen - remlen
           cells == [i \in 1 .. Max({chunk, 0}) |->
                       IF HdrLen + sofar + i - 1 \in Pos THEN buf[HdrLen + sofar + i - 1] ELSE Junk]
           shown == p.shown \o cells
           last == ~MoreParts(chunk)
           p2 == IF last THEN NoPage ELSE [part |-> p.part + 1, shown |-> shown]
<1>1. /\ mirror \in [Device -> Doc] /\ g \in Doc /\ g.ver >= mirror[d].ver
      /\ get_mirror_update_count(d) = g.ver /\ g.ver \in Nat /\ json_buffer[d] \in [Pos -> Cell]
      /\ p \in [part : Nat, shown : Seq(Cell)] /\ PageInv(p, json_buffer[d])
  BY MirrorNoOlder DEF Core, TypeOK
<1>2. /\ json_buffer' = [json_buffer EXCEPT ![d] = buf] /\ Uses(d) \ {"page"} = {}
      /\ mirror' = IF first THEN [mirror EXCEPT ![d] = g] ELSE mirror
      /\ UNCHANGED <<main, server, conn>>
  BY DEF ssi_json, Touch
<1>3. page' = [page EXCEPT ![d] = p2] /\ cutPage' = (cutPage \/ (last /\ ~overlap' /\ ~WholeText(shown)))
  BY DEF ssi_json
<1>4. buf \in [Pos -> Cell] /\ \E doc \in Doc : Holds(buf, doc, MsgLen)
  <2>1. CASE first
    BY <1>1, <2>1, PrintedWhole DEF json_prep_get_counter_value
  <2>2. CASE ~first
    <3>1. p.part > 0
      BY <1>1, <2>2
    <3> QED
      BY <1>1, <2>2, <3>1 DEF PageInv, Whole
  <2> QED
    BY <2>1, <2>2
<1>5. PICK doc \in Doc : Holds(buf, doc, MsgLen)
  BY <1>4
<1>6. P \in Nat /\ P <= TextLen /\ Len(p.shown) = P /\ \A i \in 1 .. P : p.shown[i] = buf[i]
  <2>1. p.part \in Nat /\ ChunkLen \in Nat /\ Len(p.shown) = P
    BY <1>1, Sizes DEF PageInv
  <2>2. CASE first
    <3>1. P = 0
      BY <2>1, <2>2
    <3> QED
      BY <2>1, <3>1, Sizes
  <2>3. CASE ~first
    <3>1. p.part > 0 /\ P \in Nat
      BY <2>1, <2>3
    <3>2. P <= TextLen /\ \A i \in 1 .. Len(p.shown) : p.shown[i] = json_buffer[d][i]
      BY <1>1, <3>1 DEF PageInv
    <3> QED
      BY <2>1, <2>3, <3>1, <3>2
  <2> QED
    BY <2>2, <2>3
<1>7. buf[0].size = MsgLen
  BY <1>5, ParsedWhole
<1>8. remlen = TextLen - P /\ remlen \in Nat /\ sofar = P
  <2> HIDE DEF buf, P
  <2>1. remlen = buf[0].size - HdrLen - P
    BY DEF P
  <2> HIDE DEF remlen
  <2> QED
    BY <1>6, <1>7, <2>1, Sizes
<1> HIDE DEF buf, remlen, sofar, P, p
<1>9. /\ chunk \in Nat /\ P + chunk <= TextLen /\ Max({chunk, 0}) = chunk /\ chunk <= ChunkLen
      /\ chunk < ChunkLen => P + chunk = TextLen
  <2>1. chunk = IF remlen <= ChunkLen THEN remlen ELSE ChunkLen
    BY <1>8, Sizes, MinMaxTwo
  <2> HIDE DEF chunk
  <2>2. /\ chunk \in Nat /\ P + chunk <= TextLen /\ chunk <= ChunkLen
        /\ chunk < ChunkLen => P + chunk = TextLen
    BY <1>6, <1>8, <2>1, Sizes
  <2>3. Max({chunk, 0}) = chunk
    BY <2>2, MinMaxTwo
  <2> QED
    BY <2>2, <2>3
<1> HIDE DEF chunk
<1>10. cells \in Seq(Cell) /\ Len(cells) = chunk /\ \A i \in 1 .. chunk : cells[i] = buf[P + i]
  <2>1. \A i \in 1 .. chunk : P + i \in Pos /\ HdrLen + sofar + i - 1 = P + i
    BY <1>6, <1>8, <1>9, Sizes
  <2>2. cells = [i \in 1 .. chunk |-> buf[P + i]]
    BY <1>9, <2>1
  <2> HIDE DEF cells
  <2> QED
    BY ONLY <1>4, <1>9, <2>1, <2>2
<1> HIDE DEF cells
<1>11. /\ shown \in Seq(Cell) /\ Len(shown) = P + chunk
       /\ \A i \in 1 .. P + chunk : shown[i] = buf[i]
       /\ P + chunk = TextLen => WholeText(shown)
  <2>1. p.shown \in Seq(Cell) /\ doc \in Doc
    BY <1>1
  <2>2. /\ \A i \in 1 .. Len(p.shown) : p.shown[i] = buf[i]
        /\ \A i \in 1 .. Len(cells) : cells[i] = buf[Len(p.shown) + i]
    BY ONLY <1>6, <1>10
  <2>3. cells \in Seq(Cell) /\ Holds(buf, doc, MsgLen)
    BY <1>5, <1>10
  <2>4. /\ shown \in Seq(Cell) /\ Len(shown) = Len(p.shown) + Len(cells)
        /\ \A i \in 1 .. Len(p.shown) + Len(cells) : shown[i] = buf[i]
    <3>1. /\ p.shown \o cells \in Seq(Cell) /\ Len(p.shown \o cells) = Len(p.shown) + Len(cells)
          /\ \A i \in 1 .. Len(p.shown) + Len(cells) : (p.shown \o cells)[i] = buf[i]
      BY ONLY <2>1, <2>2, <2>3, Continued, SMTT(30)
    <3> QED
      BY ONLY <3>1
  <2>5. Len(p.shown) + Len(cells) = TextLen => WholeText(shown)
    BY ONLY <2>1, <2>2, <2>3, ChunkShown
  <2> HIDE DEF shown
  <2> QED
    BY ONLY <1>6, <1>10, <2>4, <2>5
<1> HIDE DEF shown
<1>12. last <=> chunk < ChunkLen
  BY <1>9, Sizes DEF MoreParts
<1>13. ~cutPage => ~cutPage'
  BY <1>3, <1>9, <1>11, <1>12
<1>14. p2 \in [part : Nat, shown : Seq(Cell)] /\ PageInv(p2, buf)
  <2>1. CASE last
    <3>1. p2 = NoPage /\ 0 * ChunkLen = 0
      BY <2>1, Sizes
    <3>2. NoPage.part = 0 /\ NoPage.shown = <<>> /\ NoPage \in [part : Nat, shown : Seq(Cell)]
      BY DEF NoPage
    <3>3. NoPage.part * ChunkLen = 0 /\ Len(NoPage.shown) = 0
      BY <3>1, <3>2
    <3> QED
      BY <3>1, <3>2, <3>3 DEF PageInv
  <2>2. CASE ~last
    <3>1. chunk = ChunkLen /\ p.part \in Nat
      BY <1>1, <1>9, <1>12, <2>2, Sizes
    <3>2. (p.part + 1) * ChunkLen = P + chunk
      BY <3>1, Sizes DEF P
    <3>3. p2.part = p.part + 1 /\ p2.shown = shown /\ p2 \in [part : Nat, shown : Seq(Cell)]
      BY <1>11, <2>2, <3>1
    <3>4. Whole(buf)
      BY <1>5 DEF Whole
    <3>5. Len(p2.shown) = p2.part * ChunkLen /\ p2.part * ChunkLen <= TextLen
      BY <1>9, <1>11, <3>2, <3>3
    <3> QED
      BY <1>11, <3>3, <3>4, <3>5 DEF PageInv
  <2> QED
    BY <2>1, <2>2
<1> HIDE DEF p2, last, first, g
<1>15. mirror' \in [Device -> Doc] /\ NoOlder
  <2>1. \A e \in Device : mirror[e].ver \in Nat
    BY <1>1 DEF Doc
  <2>2. CASE first
    BY <1>1, <1>2, <2>1, <2>2 DEF NoOlder
  <2>3. CASE ~first
    BY <1>1, <1>2, <2>1, <2>3 DEF NoOlder
  <2> QED
    BY <2>2, <2>3
<1>16. /\ json_buffer' \in [Device -> [Pos -> Cell]] /\ json_buffer'[d] = buf
       /\ page' \in [Device -> [part : Nat, shown : Seq(Cell)]] /\ page'[d] = p2
       /\ \A e \in Device : e # d => page'[e] = page[e]
  BY <1>2, <1>3, <1>4, <1>14 DEF Core, TypeOK
<1>17. TypeOK' /\ SlotInv'
  BY <1>2, <1>15, <1>16 DEF Core, TypeOK, SlotInv
<1>18. \A e \in Device : MainInv(main'[e], json_buffer'[e]) /\ PageInv(page'[e], json_buffer'[e])
  BY <1>2, <1>14, <1>16, MainPageKept
<1>19. ASSUME NEW c \in Conn
       PROVE  ConnOk(c)'
  <2>1. CASE conn[c].st = "free"
    BY <1>2, <2>1 DEF ConnOk
  <2>2. CASE conn[c].st # "free"
    <3>1. c # "page"
      BY ConnAssumption
    <3> QED
      BY <1>2, <2>2, <3>1, ConnKept
  <2> QED
    BY <2>1, <2>2
<1> QED
  BY <1>13, <1>15, <1>17, <1>18, <1>19 DEF Core

-----------------------------------------------------------------------------
(* Connections *)

\* What tcp_write puts behind a queue.
LEMMA WriteCells ==
    ASSUME NEW q \in Seq(Cell), NEW buf \in [Pos -> Cell], NEW size \in Nat, size <= MAX_JSON_BUF_SIZE
    PROVE  /\ Write(q, buf, size) \in Seq(Cell) /\ Len(Write(q, buf, size)) = Len(q) + size
           /\ \A j \in 1 .. Len(q) : Write(q, buf, size)[j] = q[j]
           /\ \A j \in 1 .. size : Write(q, buf, size)[Len(q) + j] = buf[j - 1]
<1> DEFINE x == [i \in 1 .. size |-> buf[i - 1]]
<1>1. \A i \in 1 .. size : i - 1 \in Pos
  BY Sizes
<1>2. x \in Seq(Cell) /\ Len(x) = size /\ \A i \in 1 .. size : x[i] = buf[i - 1]
  BY <1>1
<1>3. Write(q, buf, size) = q \o x
  BY DEF Write
<1> HIDE DEF x
<1>4. /\ q \o x \in Seq(Cell) /\ Len(q \o x) = Len(q) + size
      /\ \A i \in 1 .. Len(q) + size : (q \o x)[i] = IF i <= Len(q) THEN q[i] ELSE x[i - Len(q)]
  <2>1. q \in Seq(Cell)
    OBVIOUS
  <2> QED
    BY ONLY <1>2, <2>1, ConcatProperties
<1>5. Len(q) \in Nat
  OBVIOUS
<1>6. \A j \in 1 .. Len(q) : (q \o x)[j] = q[j]
  BY <1>4, <1>5
<1>7. ASSUME NEW j \in 1 .. size
      PROVE  (q \o x)[Len(q) + j] = buf[j - 1]
  <2>1. Len(q) + j \in 1 .. Len(q) + size /\ ~(Len(q) + j <= Len(q)) /\ Len(q) + j - Len(q) = j
    BY <1>5
  <2> QED
    BY <1>2, <1>4, <2>1
<1> QED
  BY <1>3, <1>4, <1>6, <1>7

\* A message written to an empty queue.
LEMMA WriteMessage ==
    ASSUME NEW buf \in [Pos -> Cell], NEW doc \in Doc, Holds(buf, doc, MsgLen)
    PROVE  /\ Write(<<>>, buf, MsgLen) \in Seq(Cell) /\ Len(Write(<<>>, buf, MsgLen)) = MsgLen
           /\ \A j \in 1 .. MsgLen : Write(<<>>, buf, MsgLen)[j] = MsgCell(doc, j)
<1> DEFINE w == Write(<<>>, buf, MsgLen)
<1>1. <<>> \in Seq(Cell) /\ Len(<<>>) = 0
  OBVIOUS
<1>2. /\ w \in Seq(Cell) /\ Len(w) = 0 + MsgLen
      /\ \A j \in 1 .. MsgLen : w[0 + j] = buf[j - 1]
  BY <1>1, Sizes, WriteCells
<1> HIDE DEF w
<1>3. ASSUME NEW j \in 1 .. MsgLen
      PROVE  w[j] = MsgCell(doc, j)
  <2>1. j - 1 \in 0 .. MsgLen - 1 /\ (j - 1) + 1 = j /\ 0 + j = j
    BY Sizes
  <2>2. buf[j - 1] = MsgCell(doc, (j - 1) + 1)
    BY <2>1 DEF Holds
  <2> QED
    BY <1>2, <2>1, <2>2
<1> QED
  BY <1>2, <1>3, Sizes DEF w

\* A step that changes one connection, and at most the slot of that connection.
LEMMA OneConn ==
    ASSUME Core, UNCHANGED <<mirror, json_buffer, main, page>>, NEW c \in Conn, conn[c].st # "free",
           NEW k2 \in Client, conn' = [conn EXCEPT ![c] = k2],
           k2.st # "free" => k2.from = conn[c].from /\ k2.to = conn[c].to,
           NEW s2 \in Slot, server' = [server EXCEPT ![conn[c].to] = s2],
           \/ s2 = server[conn[c].to] \/ server[conn[c].to].conn \notin Conn \ {c},
           s2.conn \notin Conn \ {c} \/ s2 = server[conn[c].to],
           s2.conn = c => k2.st \in {"open", "closed"},
           k2.st # "free" => ConnInv(c, k2, s2, json_buffer[conn[c].from], json_buffer[conn[c].to])
    PROVE  Core' /\ NoOlder
<1> DEFINE d == conn[c].to
<1>1. d \in Device /\ conn[c].from \in Device
  BY DEF Core, TypeOK
<1>2. conn' \in [Conn -> Client] /\ conn'[c] = k2 /\ \A x \in Conn : x # c => conn'[x] = conn[x]
  BY DEF Core, TypeOK
<1>3. server' \in [Device -> Slot] /\ server'[d] = s2 /\ \A e \in Device : e # d => server'[e] = server[e]
  BY <1>1 DEF Core, TypeOK
<1> HIDE DEF d
<1>4. TypeOK'
  BY <1>1, <1>2, <1>3 DEF Core, TypeOK, d
<1>5. SlotInv'
  <2> SUFFICES ASSUME NEW e \in Device, server'[e].conn \in Conn
               PROVE  /\ conn'[server'[e].conn].to = e
                      /\ conn'[server'[e].conn].st \in {"open", "closed"}
    BY DEF SlotInv
  <2> DEFINE x == server'[e].conn
  <2>1. CASE x = c
    <3>1. e = d
      BY <2>1, <1>3 DEF Core, SlotInv, d
    <3> QED
      BY <2>1, <3>1, <1>2, <1>3 DEF d
  <2>2. CASE x # c
    <3>1. server'[e] = server[e]
      BY <2>2, <1>3 DEF d
    <3> QED
      BY <2>2, <3>1, <1>2 DEF Core, SlotInv
  <2> QED
    BY <2>1, <2>2
<1>6. ASSUME NEW x \in Conn
      PROVE  ConnOk(x)'
  <2>1. CASE x = c
    BY <2>1, <1>2, <1>3 DEF ConnOk, d
  <2>2. CASE x # c /\ conn[x].st = "free"
    BY <2>2, <1>2 DEF ConnOk
  <2>3. CASE x # c /\ conn[x].st # "free"
    <3>1. conn[x].to \in Device
      BY <2>3 DEF Core, TypeOK
    <3>2. server[conn[x].to].conn # x => server'[conn[x].to].conn # x
      BY <2>3, <3>1, <1>3 DEF d
    <3>3. server[conn[x].to].conn = x => server'[conn[x].to] = server[conn[x].to]
      BY <2>3, <3>1, <1>3 DEF d
    <3> QED
      BY <2>3, <3>2, <3>3, <1>2, ConnSame
  <2> QED
    BY <2>1, <2>2, <2>3
<1> QED
  BY <1>4, <1>5, <1>6, QuietStep

\* A client that has sent nothing yet sends its buffer, or has no memory for it.
LEMMA SendingStep ==
    ASSUME Core, NEW c \in Conn, NEW mem \in BOOLEAN, Sending(c, mem),
           conn[c].st \in {"syn", "open"}, ~conn[c].wrote,
           UNCHANGED <<mirror, json_buffer, main, server, page>>
    PROVE  Core' /\ NoOlder
<1> DEFINE k == conn[c]
           a == json_buffer[k.from]
           b == json_buffer[k.to]
           s == server[k.to]
           k2 == IF mem THEN [k EXCEPT !.st = "open", !.mem = TRUE]
                 ELSE [k EXCEPT !.st = "open", !.c2s = Write(@, a, a[0].size), !.wrote = TRUE]
<1>1. /\ k \in Client /\ k.from \in Device /\ k.to \in Device /\ s \in Slot
      /\ a \in [Pos -> Cell] /\ ConnInv(c, k, s, a, b)
  BY DEF Core, TypeOK, ConnOk
<1>2. /\ Untouched(k) /\ Whole(a)
      /\ s.conn = c => /\ k.sOpen /\ s.recv_len = 0 /\ s.send_size = 0 /\ ~s.recv_flag
                       /\ s.recv_size = MAX_JSON_BUF_SIZE
  BY <1>1 DEF ConnInv, OpenInv
<1>3. PICK doc \in Doc : Holds(a, doc, MsgLen)
  BY <1>2 DEF Whole
<1>4. a[0].size = MsgLen
  BY <1>3, ParsedWhole
<1>5. conn' = [conn EXCEPT ![c] = k2]
  <2>1. k.sent_len <= a[0].size
    BY <1>2, <1>4, Sizes DEF Untouched
  <2> QED
    BY <2>1 DEF Sending
<1> DEFINE w == Write(<<>>, a, MsgLen)
<1>6. w \in Seq(Cell) /\ Len(w) = MsgLen /\ \A j \in 1 .. MsgLen : w[j] = MsgCell(doc, j)
  BY <1>1, <1>3, WriteMessage
<1>7. k2 = IF mem THEN [k EXCEPT !.st = "open", !.mem = TRUE]
           ELSE [k EXCEPT !.st = "open", !.c2s = w, !.wrote = TRUE]
  BY <1>2, <1>4 DEF Untouched
<1> HIDE DEF k, a, b, s, w, k2
<1>8. /\ k2 \in Client /\ k2.st = "open" /\ k2.from = k.from /\ k2.to = k.to /\ k2.sOpen = k.sOpen
      /\ k2.s2c = k.s2c /\ k2.recv_len = k.recv_len /\ k2.sent_len = k.sent_len /\ k2.acks = k.acks
      /\ IF mem THEN k2.c2s = k.c2s /\ k2.wrote = k.wrote ELSE k2.c2s = w /\ k2.wrote = TRUE
  <2>1. CASE mem
    BY <1>1, <1>7, <2>1 DEF Client
  <2>2. CASE ~mem
    BY <1>1, <1>6, <1>7, <2>2 DEF Client
  <2> QED
    BY <2>1, <2>2
<1>9. ~k.wrote
  BY DEF k
<1>10. OpenInv(c, k2, s, a, b)
  <2>1. CASE mem
    BY <1>2, <1>8, <1>9, <2>1 DEF OpenInv, Untouched
  <2>2. CASE ~mem /\ s.conn # c
    BY <1>2, <1>6, <1>8, <2>2 DEF OpenInv, Untouched
  <2>3. CASE ~mem /\ s.conn = c
    <3>1. k2.s2c = <<>> /\ k2.recv_len = 0 /\ k2.sent_len = 0 /\ k2.acks = 0 /\ k2.c2s = w
      BY <1>2, <1>8, <2>3 DEF Untouched
    <3>2. Holds(b, doc, s.recv_len)
      BY <1>2, <2>3 DEF Holds
    <3>3. s.recv_len = 0 /\ s.send_size = 0 /\ s.recv_flag = FALSE /\ s.recv_size = MAX_JSON_BUF_SIZE
      BY <1>1, <1>2, <2>3 DEF Slot
    <3>4. \A j \in 1 .. Len(w) : w[j] = MsgCell(doc, s.recv_len + j)
      BY <1>6, <3>3, Sizes
    <3>5. /\ k2.sent_len + k2.acks = s.recv_len /\ s.recv_len < MsgLen /\ ~(s.recv_len > HdrLen)
          /\ Len(w) = MsgLen - s.recv_len
      BY <1>6, <3>1, <3>3, Sizes
    <3>6. (s.recv_flag <=> s.recv_len > HdrLen)
      BY <3>3, Sizes
    <3>7. \E x \in Doc :
             /\ Holds(b, x, s.recv_len)
             /\ Len(k2.c2s) = MsgLen - s.recv_len
             /\ \A j \in 1 .. Len(k2.c2s) : k2.c2s[j] = MsgCell(x, s.recv_len + j)
      BY <3>1, <3>2, <3>4, <3>5
    <3>8. Receiving(k2, s, a, b)
      BY <1>2, <3>1, <3>3, <3>5, <3>6, <3>7 DEF Receiving
    <3> QED
      BY <1>8, <2>3, <3>3, <3>8 DEF OpenInv
  <2> QED
    BY <2>1, <2>2, <2>3
<1>11. ConnInv(c, k2, s, a, b)
  BY <1>2, <1>8, <1>10 DEF ConnInv
<1>12. server' = [server EXCEPT ![k.to] = s]
  BY <1>1 DEF Core, TypeOK, s
<1>13. /\ conn[c].st # "free" /\ k2.from = conn[c].from /\ k2.to = conn[c].to
       /\ s = server[conn[c].to] /\ server' = [server EXCEPT ![conn[c].to] = s]
       /\ conn' = [conn EXCEPT ![c] = k2]
       /\ ConnInv(c, k2, s, json_buffer[conn[c].from], json_buffer[conn[c].to])
  BY <1>5, <1>8, <1>11, <1>12 DEF k, a, b, s
<1>14. Core /\ UNCHANGED <<mirror, json_buffer, main, page>> /\ c \in Conn /\ k2 \in Client /\ s \in Slot
       /\ k2.st = "open"
  BY <1>1, <1>8
<1> QED
  BY ONLY <1>13, <1>14, OneConn

\* The connection is made and the client sends.
LEMMA ConnectedStep ==
    ASSUME Core, NEW c \in Conn, NEW mem \in BOOLEAN, json_client_connected(c, mem)
    PROVE  Core' /\ NoOlder
<1>1. ~conn[c].wrote /\ conn[c].st = "syn"
  BY DEF Core, ConnOk, ConnInv, json_client_connected
<1> QED
  BY <1>1, SendingStep DEF json_client_connected

\* The client sends again, having sent nothing before.
LEMMA ClientPollStep ==
    ASSUME Core, ~overlap', NEW c \in Conn, NEW mem \in BOOLEAN, tcp_json_poll(c, mem)
    PROVE  Core' /\ NoOlder
<1>1. ~conn[c].wrote /\ conn[c].st = "open"
  BY DEF tcp_json_poll
<1> QED
  BY <1>1, SendingStep DEF tcp_json_poll

\* What is left of a client that has its answer.
LEMMA FinishedClient ==
    ASSUME Core, NEW c \in Conn
    PROVE  /\ Finished(c) \in Client /\ Finished(c).st = "closed" /\ Finished(c).c2s = conn[c].c2s
           /\ Finished(c).from = conn[c].from /\ Finished(c).to = conn[c].to
<1>1. conn[c] \in Client /\ <<>> \in Seq(Cell)
  BY DEF Core, TypeOK
<1>2. Finished(c) \in Client
  BY <1>1 DEF Finished, Client
<1> QED
  BY <1>1, <1>2 DEF Finished, Client

\* The server closed its end before it had the connection in its slot.
LEMMA ClientFinStep ==
    ASSUME Core, NEW c \in Conn, ClientFin(c)
    PROVE  Core' /\ NoOlder
<1> DEFINE s == server[conn[c].to]
<1>1. conn[c].st = "open" /\ ~conn[c].sOpen /\ conn' = [conn EXCEPT ![c] = Finished(c)]
  BY DEF ClientFin
<1>2. s.conn # c /\ s \in Slot
  BY <1>1 DEF Core, ConnOk, ConnInv, TypeOK
<1>3. server' = [server EXCEPT ![conn[c].to] = s] /\ UNCHANGED <<mirror, json_buffer, main, page>>
  BY DEF ClientFin, Core, TypeOK
<1> HIDE DEF s
<1>4. ConnInv(c, Finished(c), s, json_buffer[conn[c].from], json_buffer[conn[c].to])
  BY <1>2, FinishedClient DEF ConnInv
<1> QED
  BY <1>1, <1>2, <1>3, <1>4, FinishedClient, OneConn DEF s

\* A freed connection, and its slot, if it has one, closed or dead.
LEMMA FreeStep ==
    ASSUME Core, NEW c \in Conn, conn[c].st # "free", conn' = Free(c), NEW s2,
           server' = [server EXCEPT ![conn[c].to] = s2],
           IF server[conn[c].to].conn = c
           THEN s2 \in {Closed(server[conn[c].to]), [server[conn[c].to] EXCEPT !.conn = DeadConn]}
           ELSE s2 = server[conn[c].to],
           UNCHANGED <<mirror, json_buffer, main, page>>
    PROVE  Core' /\ NoOlder
<1> DEFINE s == server[conn[c].to]
<1>1. s \in Slot
  BY DEF Core, TypeOK
<1>2. NoClient \in Client /\ NoClient.st = "free" /\ conn' = [conn EXCEPT ![c] = NoClient]
  BY DEF NoClient, Client, Free
<1>3. /\ Closed(s) \in Slot /\ Closed(s).conn = NoConn
      /\ [s EXCEPT !.conn = DeadConn] \in Slot /\ [s EXCEPT !.conn = DeadConn].conn = DeadConn
  BY <1>1 DEF Closed, NoServer, Slot
<1>4. NoConn \notin Conn /\ DeadConn \notin Conn
  BY ConnAssumption
<1>5. s2 \in Slot /\ (s.conn = c => s2.conn \notin Conn) /\ (s.conn # c => s2 = s)
  BY <1>1, <1>3, <1>4
<1>6. /\ s2 = s \/ s.conn \notin Conn \ {c}
      /\ s2.conn \notin Conn \ {c} \/ s2 = s
      /\ s2.conn # c
  BY <1>4, <1>5
<1> HIDE DEF s
<1> QED
  BY <1>2, <1>5, <1>6, OneConn DEF s

\* The client has closed: the slot is free again.
LEMMA ServerFinStep ==
    ASSUME Core, NEW c \in Conn, ServerFin(c)
    PROVE  Core' /\ NoOlder
<1> DEFINE s == server[conn[c].to]
           s2 == IF s.conn = c THEN Closed(s) ELSE s
<1>1. /\ conn[c].st = "closed" /\ conn' = Free(c) /\ server' = [server EXCEPT ![conn[c].to] = s2]
      /\ UNCHANGED <<mirror, json_buffer, main, page>>
  BY DEF ServerFin
<1> QED
  BY <1>1, FreeStep

\* The connection is lost, at both ends.
LEMMA LoseStep ==
    ASSUME Core, NEW c \in Conn, Lose(c)
    PROVE  Core' /\ NoOlder
<1> DEFINE s == server[conn[c].to]
<1>1. /\ conn[c].st # "free" /\ conn' = Free(c) /\ UNCHANGED <<mirror, json_buffer, main, page>>
  BY DEF Lose
<1>2. CASE s.conn = c
  BY <1>1, <1>2, FreeStep DEF Lose
<1>3. CASE s.conn # c
  <2>1. server' = [server EXCEPT ![conn[c].to] = s]
    BY <1>3 DEF Lose, Core, TypeOK
  <2> QED
    BY <1>1, <1>3, <2>1, FreeStep
<1> QED
  BY <1>2, <1>3

\* The server takes the connection into its slot or refuses it.
LEMMA AcceptStep ==
    ASSUME Core, NEW c \in Conn, tcp_server_json_accept(c)
    PROVE  Core' /\ NoOlder
<1> DEFINE k == conn[c]
           a == json_buffer[k.from]
           b == json_buffer[k.to]
           s == server[k.to]
<1>1. /\ k \in Client /\ k.from \in Device /\ k.to \in Device /\ s \in Slot /\ k.st = "open" /\ k.sOpen
      /\ s.conn # c /\ ConnInv(c, k, s, a, b) /\ UNCHANGED <<mirror, json_buffer, main, page>>
  BY DEF Core, TypeOK, ConnOk, tcp_server_json_accept
<1>2. OpenInv(c, k, s, a, b)
  BY <1>1 DEF ConnInv
<1>3. CASE s.conn = NoConn
  <2> DEFINE s2 == [NoServer EXCEPT !.conn = c, !.recv_size = MAX_JSON_BUF_SIZE, !.mem = s.mem]
  <2>1. server' = [server EXCEPT ![k.to] = s2] /\ conn' = conn
    BY <1>3 DEF tcp_server_json_accept
  <2>2. /\ s2 \in Slot /\ s2.conn = c /\ s2.recv_len = 0 /\ s2.send_size = 0 /\ s2.recv_flag = FALSE
        /\ s2.recv_size = MAX_JSON_BUF_SIZE
    BY <1>1, Sizes DEF NoServer, Slot
  <2>3. conn' = [conn EXCEPT ![c] = k] /\ s.conn \notin Conn
    BY <2>1, <1>3, ConnAssumption DEF Core, TypeOK
  <2> HIDE DEF k, a, b, s, s2
  <2>4. OpenInv(c, k, s2, a, b)
    <3>1. CASE ~k.wrote
      BY <1>2, <2>2, <3>1 DEF OpenInv
    <3>2. CASE k.wrote
      <4>1. k.s2c = <<>> /\ k.acks = 0 /\ k.sent_len = 0 /\ k.recv_len = 0 /\ Whole(a)
        BY <1>1, <1>2, <3>2 DEF OpenInv
      <4>2. PICK doc \in Doc : Len(k.c2s) = MsgLen /\ \A j \in 1 .. MsgLen : k.c2s[j] = MsgCell(doc, j)
        BY <1>1, <1>2, <3>2 DEF OpenInv
      <4>3. Holds(b, doc, s2.recv_len)
        BY <2>2 DEF Holds
      <4>4. /\ \A j \in 1 .. Len(k.c2s) : k.c2s[j] = MsgCell(doc, s2.recv_len + j)
            /\ Len(k.c2s) = MsgLen - s2.recv_len
        BY <2>2, <4>2, Sizes
      <4>5. /\ k.sent_len + k.acks = s2.recv_len /\ s2.recv_len < MsgLen
            /\ (s2.recv_flag <=> s2.recv_len > HdrLen)
        BY <2>2, <4>1, Sizes
      <4>6. Receiving(k, s2, a, b)
        BY <2>2, <4>1, <4>3, <4>4, <4>5 DEF Receiving
      <4> QED
        BY <2>2, <3>2, <4>6 DEF OpenInv
    <3> QED
      BY <3>1, <3>2
  <2>5. ConnInv(c, k, s2, a, b)
    BY <1>1, <2>4 DEF ConnInv
  <2> QED
    BY <1>1, <2>1, <2>2, <2>3, <2>5, OneConn DEF k, a, b, s
<1>4. CASE s.conn # NoConn
  <2> DEFINE k2 == [k EXCEPT !.sOpen = FALSE, !.c2s = <<>>]
  <2>1. server' = [server EXCEPT ![k.to] = s]
    BY <1>4 DEF tcp_server_json_accept, Core, TypeOK
  <2>2. conn' = [conn EXCEPT ![c] = k2]
    BY <1>4 DEF tcp_server_json_accept
  <2> HIDE DEF k, a, b, s
  <2>3. <<>> \in Seq(Cell)
    OBVIOUS
  <2>4. /\ k2 \in Client /\ k2.st = "open" /\ k2.from = k.from /\ k2.to = k.to /\ k2.sOpen = FALSE
        /\ k2.s2c = k.s2c /\ k2.recv_len = k.recv_len /\ k2.sent_len = k.sent_len
        /\ k2.acks = k.acks /\ k2.wrote = k.wrote /\ k2.c2s = <<>>
    BY <1>1, <2>3 DEF Client
  <2> HIDE DEF k2
  <2>5. OpenInv(c, k2, s, a, b)
    <3>1. CASE ~k.wrote
      BY <1>1, <1>2, <2>4, <3>1 DEF OpenInv, Untouched
    <3>2. CASE k.wrote
      BY <1>1, <1>2, <2>4, <3>2 DEF OpenInv
    <3> QED
      BY <3>1, <3>2
  <2>6. ConnInv(c, k2, s, a, b)
    BY <1>1, <2>4, <2>5 DEF ConnInv
  <2> QED
    BY <1>1, <2>1, <2>2, <2>4, <2>6, OneConn DEF k, a, b, s
<1> QED
  BY <1>3, <1>4

\* An answer that is sent again comes behind what was sent.
LEMMA ReplyAgain ==
    ASSUME NEW k \in Client, NEW k2 \in Client, NEW s \in Slot, NEW a, NEW b \in [Pos -> Cell],
           Replying(k, s, a, b), s.mem, k2 = [k EXCEPT !.s2c = Write(@, b, s.send_size)]
    PROVE  Replying(k2, s, a, b)
<1> DEFINE w == Write(k.s2c, b, s.send_size)
           n == Len(k.s2c)
<1>1. k.s2c \in Seq(Cell) /\ s.send_size \in Nat /\ s.send_size >= 1 /\ s.send_size <= MAX_JSON_BUF_SIZE
  <2>1. k.s2c \in Seq(Cell)
    BY DEF Client
  <2>2. s.send_size \in Nat
    BY DEF Slot
  <2>3. s.send_size >= 1 /\ s.send_size <= MAX_JSON_BUF_SIZE
    BY <2>2, Sizes DEF Replying
  <2> QED
    BY <2>1, <2>2, <2>3
<1>2. /\ w \in Seq(Cell) /\ Len(w) = n + s.send_size /\ \A j \in 1 .. n : w[j] = k.s2c[j]
      /\ \A j \in 1 .. s.send_size : w[n + j] = b[j - 1]
  <2>1. b \in [Pos -> Cell]
    OBVIOUS
  <2> QED
    BY ONLY <1>1, <2>1, WriteCells
<1>3. /\ k2.s2c = w /\ k2.recv_len = k.recv_len /\ k2.sent_len = k.sent_len /\ k2.acks = k.acks
      /\ k2.c2s = k.c2s
  BY DEF Client
<1>4. n \in Nat /\ k.recv_len \in Nat
  BY <1>1 DEF Client
<1> HIDE DEF w
<1>5. n = 0 => k.recv_len = 0 /\ k.s2c = <<>>
  <2>1. n = 0 => k.s2c = <<>>
    BY <1>1
  <2>2. n = 0 => ~(k.recv_len < s.send_size /\ k.recv_len + Len(k.s2c) >= s.send_size)
    BY <1>1, <1>4
  <2> QED
    BY <2>1, <2>2 DEF Replying
<1>6. k.recv_len < s.send_size
  BY <1>1, <1>4 DEF Replying
<1>7. k2.recv_len < s.send_size /\ k2.recv_len + Len(k2.s2c) >= s.send_size
  BY <1>1, <1>2, <1>3, <1>4, <1>6
<1>8. s.send_size = HdrLen => k2.s2c[1].size = HdrLen
  <2> SUFFICES ASSUME s.send_size = HdrLen
               PROVE  w[1].size = HdrLen
    BY <1>3
  <2>1. b[0].size = HdrLen
    BY DEF Replying
  <2>2. CASE n = 0
    <3>1. 1 \in 1 .. s.send_size /\ n + 1 = 1 /\ 1 - 1 = 0
      BY <1>1, <2>2
    <3>2. w[1] = b[0]
      BY <1>2, <3>1
    <3> QED
      BY <2>1, <3>2
  <2>3. CASE n # 0
    <3>1. 1 \in 1 .. n /\ k.s2c # <<>>
      BY <1>1, <1>4, <2>3
    <3>2. w[1] = k.s2c[1] /\ k.s2c[1].size = HdrLen
      BY <1>2, <3>1 DEF Replying
    <3> QED
      BY <3>2
  <2> QED
    BY <2>2, <2>3
<1>9. s.send_size = MsgLen =>
          \E doc \in Doc :
             /\ Holds(a, doc, k2.recv_len)
             /\ \A j \in 1 .. Len(k2.s2c) :
                   k2.recv_len + j <= MsgLen => k2.s2c[j] = MsgCell(doc, k2.recv_len + j)
  <2> SUFFICES ASSUME s.send_size = MsgLen
               PROVE  \E doc \in Doc :
                        /\ Holds(a, doc, k.recv_len)
                        /\ \A j \in 1 .. n + MsgLen :
                              k.recv_len + j <= MsgLen => w[j] = MsgCell(doc, k.recv_len + j)
    BY <1>2, <1>3
  <2>1. CASE n = 0
    <3>1. Whole(b)
      BY Sizes DEF Replying
    <3>2. PICK doc \in Doc : Holds(b, doc, MsgLen)
      BY <3>1 DEF Whole
    <3>3. Holds(a, doc, k.recv_len)
      BY <1>5, <2>1 DEF Holds
    <3>4. ASSUME NEW j \in 1 .. n + MsgLen
          PROVE  w[j] = MsgCell(doc, k.recv_len + j)
      <4>1. /\ j \in 1 .. s.send_size /\ n + j = j /\ j - 1 \in 0 .. MsgLen - 1 /\ (j - 1) + 1 = j
            /\ k.recv_len + j = j
        BY <1>5, <2>1, Sizes
      <4>2. b[j - 1] = MsgCell(doc, (j - 1) + 1)
        BY <3>2, <4>1 DEF Holds
      <4> QED
        BY <1>2, <4>1, <4>2
    <3> QED
      BY <3>3, <3>4
  <2>2. CASE n # 0
    <3>1. k.s2c # <<>>
      BY <1>1, <2>2
    <3>2. k.recv_len + n >= MsgLen
      BY <3>1 DEF Replying
    <3>3. PICK doc \in Doc :
             /\ Holds(a, doc, k.recv_len)
             /\ \A j \in 1 .. n : k.recv_len + j <= MsgLen => k.s2c[j] = MsgCell(doc, k.recv_len + j)
      BY DEF Replying
    <3>4. ASSUME NEW j \in 1 .. n + MsgLen, k.recv_len + j <= MsgLen
          PROVE  w[j] = MsgCell(doc, k.recv_len + j)
      <4>1. j \in 1 .. n
        BY <1>4, <3>2, <3>4, Sizes
      <4> QED
        BY <1>2, <3>3, <3>4, <4>1
    <3> QED
      BY <3>3, <3>4
  <2> QED
    BY <2>1, <2>2
<1> QED
  BY <1>3, <1>7, <1>8, <1>9 DEF Replying

\* The server sends its answer again.
LEMMA ServerPollStep ==
    ASSUME Core, NEW c \in Conn, NEW mem \in BOOLEAN, tcp_server_poll(c, mem)
    PROVE  Core' /\ NoOlder
<1> DEFINE k == conn[c]
           a == json_buffer[k.from]
           b == json_buffer[k.to]
           s == server[k.to]
           k2 == IF mem THEN k ELSE [k EXCEPT !.s2c = Write(@, b, s.send_size)]
           s2 == [s EXCEPT !.mem = @ \/ mem]
<1>1. /\ k \in Client /\ k.from \in Device /\ k.to \in Device /\ s \in Slot /\ k.st # "free"
      /\ s.conn = c /\ s.mem /\ b \in [Pos -> Cell] /\ ConnInv(c, k, s, a, b)
      /\ UNCHANGED <<mirror, json_buffer, main, page>>
  BY DEF Core, TypeOK, ConnOk, tcp_server_poll
<1>2. server' = [server EXCEPT ![k.to] = s2] /\ conn' = [conn EXCEPT ![c] = k2]
  BY <1>1 DEF tcp_server_poll, Send
<1>3. k.st \in {"open", "closed"} /\ (k.st = "open" => OpenInv(c, k, s, a, b) /\ k.sOpen)
  BY <1>1 DEF Core, SlotInv, ConnInv
<1>4. WriteResult(s.send_size, mem)
  BY DEF tcp_server_poll, Send
<1> HIDE DEF k, a, b, s
<1>5. s2 = s
  <2>1. s.mem = TRUE
    BY <1>1 DEF Slot
  <2>2. s2 = [s EXCEPT !.mem = TRUE]
    BY <2>1
  <2> QED
    BY <1>1, <2>1, <2>2 DEF Slot
<1> HIDE DEF s2
<1>6. ~mem => s.send_size <= MAX_JSON_BUF_SIZE /\ s.send_size \in Nat
  BY <1>1, <1>4, Sizes DEF WriteResult, Slot
<1>7. /\ k2 \in Client /\ k2.st = k.st /\ k2.from = k.from /\ k2.to = k.to /\ k2.sOpen = k.sOpen
      /\ k2.wrote = k.wrote /\ k2.c2s = k.c2s /\ k2.recv_len = k.recv_len
      /\ k2.sent_len = k.sent_len /\ k2.acks = k.acks
  <2>1. CASE mem
    BY <1>1, <2>1 DEF Client
  <2>2. CASE ~mem
    <3>1. k.s2c \in Seq(Cell)
      BY <1>1 DEF Client
    <3>2. Write(k.s2c, b, s.send_size) \in Seq(Cell)
      BY <1>1, <1>6, <2>2, <3>1, WriteCells
    <3>3. k2 = [k EXCEPT !.s2c = Write(k.s2c, b, s.send_size)]
      BY <2>2
    <3> QED
      BY <1>1, <3>2, <3>3 DEF Client
  <2> QED
    BY <2>1, <2>2
<1>8. s.send_size = 0 => k2.s2c = k.s2c
  <2> SUFFICES ASSUME s.send_size = 0, ~mem
               PROVE  k2.s2c = k.s2c
    OBVIOUS
  <2>1. k.s2c \in Seq(Cell) /\ k2.s2c = Write(k.s2c, b, 0)
    BY <1>1 DEF Client
  <2>2. /\ Write(k.s2c, b, 0) \in Seq(Cell) /\ Len(Write(k.s2c, b, 0)) = Len(k.s2c) + 0
        /\ \A j \in 1 .. Len(k.s2c) : Write(k.s2c, b, 0)[j] = k.s2c[j]
    BY <1>1, <1>6, <2>1, WriteCells
  <2>3. Len(k.s2c) + 0 = Len(k.s2c)
    BY <2>1
  <2> QED
    BY ONLY <2>1, <2>2, <2>3, SeqEqual
<1>9. ASSUME k.st = "open"
      PROVE  OpenInv(c, k2, s, a, b)
  <2>1. CASE ~k.wrote
    <3>1. s.send_size = 0
      BY <1>1, <1>3, <1>9, <2>1 DEF OpenInv
    <3> QED
      BY <1>3, <1>7, <1>8, <1>9, <2>1, <3>1 DEF OpenInv, Untouched
  <2>2. CASE k.wrote /\ s.send_size = 0
    <3>1. Receiving(k, s, a, b)
      BY <1>1, <1>3, <1>9, <2>2 DEF OpenInv
    <3>2. Receiving(k2, s, a, b)
      BY <1>7, <1>8, <2>2, <3>1 DEF Receiving
    <3> QED
      BY <1>1, <1>7, <2>2, <3>2 DEF OpenInv
  <2>3. CASE k.wrote /\ s.send_size # 0
    <3>1. Replying(k, s, a, b)
      BY <1>1, <1>3, <1>9, <2>3 DEF OpenInv
    <3>2. Replying(k2, s, a, b)
      BY <1>1, <1>7, <3>1, ReplyAgain
    <3> QED
      BY <1>1, <1>7, <2>3, <3>2 DEF OpenInv
  <2> QED
    BY <2>1, <2>2, <2>3
<1> HIDE DEF k2
<1>10. ConnInv(c, k2, s, a, b)
  BY <1>1, <1>3, <1>7, <1>9 DEF ConnInv
<1> QED
  BY <1>1, <1>2, <1>3, <1>5, <1>7, <1>10, OneConn DEF k, a, b, s

\* A step of one connection that also touches the buffer and the mirror of one end,
\* where its use of the buffer is alone.
LEMMA OneBuffer ==
    ASSUME Core, NEW c \in Conn, conn[c].st # "free", NEW d \in Device, NEW u,
           \/ u = c /\ d = conn[c].from
           \/ u = "server" /\ d = conn[c].to /\ server[d].conn = c,
           Uses(d) \ {u} = {},
           NEW buf \in [Pos -> Cell], json_buffer' = [json_buffer EXCEPT ![d] = buf],
           NEW doc \in Doc, doc.ver >= mirror[d].ver, mirror' = [mirror EXCEPT ![d] = doc],
           UNCHANGED <<main, page>>,
           NEW k2 \in Client, conn' = [conn EXCEPT ![c] = k2], k2.st \in {"open", "closed"},
           k2.from = conn[c].from, k2.to = conn[c].to,
           NEW s2 \in Slot, server' = [server EXCEPT ![conn[c].to] = s2],
           s2.conn = server[conn[c].to].conn, s2 = server[conn[c].to] \/ s2.conn = c,
           ConnInv(c, k2, s2, json_buffer'[conn[c].from], json_buffer'[conn[c].to])
    PROVE  Core' /\ NoOlder
<1> DEFINE h == conn[c].to
<1>1. h \in Device /\ conn[c].from \in Device /\ mirror \in [Device -> Doc]
  BY DEF Core, TypeOK
<1>2. conn' \in [Conn -> Client] /\ conn'[c] = k2 /\ \A x \in Conn : x # c => conn'[x] = conn[x]
  BY DEF Core, TypeOK
<1>3. server' \in [Device -> Slot] /\ server'[h] = s2 /\ \A e \in Device : e # h => server'[e] = server[e]
  BY <1>1 DEF Core, TypeOK
<1> HIDE DEF h
<1>4. mirror' \in [Device -> Doc] /\ NoOlder
  <2>1. \A e \in Device : mirror[e].ver \in Nat
    BY <1>1 DEF Doc
  <2> QED
    BY <1>1, <2>1 DEF NoOlder
<1>5. json_buffer' \in [Device -> [Pos -> Cell]]
  BY DEF Core, TypeOK
<1>6. TypeOK'
  BY <1>1, <1>2, <1>3, <1>4, <1>5 DEF Core, TypeOK, h
<1>7. SlotInv'
  <2>1. \A e \in Device : server'[e].conn = server[e].conn
    BY <1>3 DEF h
  <2> QED
    BY <1>2, <2>1 DEF Core, SlotInv
<1>8. ASSUME NEW x \in Conn
      PROVE  ConnOk(x)'
  <2>1. CASE x = c
    BY <2>1, <1>2, <1>3 DEF ConnOk, h
  <2>2. CASE x # c /\ conn[x].st = "free"
    BY <2>2, <1>2 DEF ConnOk
  <2>3. CASE x # c /\ conn[x].st # "free"
    <3>1. conn[x].to \in Device /\ x # u
      BY <2>3, ConnAssumption DEF Core, TypeOK
    <3>2. server[conn[x].to].conn # x => server'[conn[x].to].conn # x
      BY <2>3, <3>1, <1>3 DEF h
    <3>3. server[conn[x].to].conn = x => server'[conn[x].to] = server[conn[x].to]
      BY <2>3, <3>1, <1>3 DEF h
    <3>4. conn[x].to = d /\ server[d].conn = x => u # "server"
      BY <2>3, ConnAssumption
    <3> QED
      BY <2>3, <3>1, <3>2, <3>3, <3>4, <1>2, ConnKept, ZenonT(30)
  <2> QED
    BY <2>1, <2>2, <2>3
<1>9. \A e \in Device : MainInv(main'[e], json_buffer'[e]) /\ PageInv(page'[e], json_buffer'[e])
  <2>1. u # "main" /\ u # "page"
    BY ConnAssumption
  <2> QED
    BY <2>1, MainPageKept
<1> QED
  BY <1>4, <1>6, <1>7, <1>8, <1>9 DEF Core

\* The same for the client's end.
LEMMA ClientBuffer ==
    ASSUME Core, NEW c \in Conn, conn[c].st = "open", Uses(conn[c].from) \ {c} = {},
           NEW buf \in [Pos -> Cell], json_buffer' = [json_buffer EXCEPT ![conn[c].from] = buf],
           NEW doc \in Doc, doc.ver >= mirror[conn[c].from].ver,
           mirror' = [mirror EXCEPT ![conn[c].from] = doc],
           UNCHANGED <<main, page, server>>,
           NEW k2 \in Client, conn' = [conn EXCEPT ![c] = k2], k2.st \in {"open", "closed"},
           k2.from = conn[c].from, k2.to = conn[c].to,
           ConnInv(c, k2, server[conn[c].to], json_buffer'[conn[c].from], json_buffer'[conn[c].to])
    PROVE  Core' /\ NoOlder
<1> DEFINE d == conn[c].from
           s2 == server[conn[c].to]
<1>1. d \in Device /\ s2 \in Slot /\ server' = [server EXCEPT ![conn[c].to] = s2]
  BY DEF Core, TypeOK
<1>2. (c = c /\ d = conn[c].from) \/ (c = "server" /\ d = conn[c].to /\ server[d].conn = c)
  OBVIOUS
<1>3. s2.conn = server[conn[c].to].conn /\ (s2 = server[conn[c].to] \/ s2.conn = c) /\ conn[c].st # "free"
  OBVIOUS
<1> HIDE DEF d, s2
<1> QED
  BY <1>1, <1>2, <1>3, OneBuffer, Zenon DEF d, s2

\* The acknowledgement of a message that is being answered: the client is ready for
\* an answer of any size.
LEMMA AckedReply ==
    ASSUME NEW k \in Client, NEW s \in Slot, NEW a \in [Pos -> Cell], NEW b, Replying(k, s, a, b)
    PROVE  LET x == Acked(k, a)
           IN  /\ x.client \in Client /\ x.buffer \in [Pos -> Cell]
               /\ x.client.st = k.st /\ x.client.from = k.from /\ x.client.to = k.to
               /\ x.client.recv_len = k.recv_len /\ x.client.s2c = k.s2c /\ x.client.c2s = k.c2s
               /\ x.client.wrote = k.wrote /\ x.client.sOpen = k.sOpen
               /\ x.client.acks = 0 /\ x.client.sent_len = 0
               /\ k.recv_len = 0 => x.buffer[0].size = MAX_JSON_BUF_SIZE
               /\ k.recv_len # 0 => x.buffer = a
               /\ \A bb : (s.mem => bb = b) => Replying(x.client, s, x.buffer, bb)
<1> DEFINE x == Acked(k, a)
           y == x.client
           z == x.buffer
<1>1. 0 \in Pos /\ a[0] \in Cell /\ MAX_JSON_BUF_SIZE \in Nat
  BY Sizes
<1>2. CASE k.acks > 0
  <2>1. k.recv_len = 0 /\ k.sent_len + k.acks = MsgLen /\ Whole(a)
    BY <1>2 DEF Replying
  <2>2. a[0].size = MsgLen
    BY <2>1, ParsedWhole DEF Whole
  <2>3. x = [client |-> [k EXCEPT !.acks = 0, !.recv_len = 0, !.sent_len = 0],
             buffer |-> [a EXCEPT ![0].size = MAX_JSON_BUF_SIZE]]
    BY <1>2, <2>1, <2>2, Sizes DEF Acked
  <2>4. y = [k EXCEPT !.acks = 0, !.recv_len = 0, !.sent_len = 0]
    BY <2>3
  <2>5. z = [a EXCEPT ![0].size = MAX_JSON_BUF_SIZE]
    BY <2>3
  <2> HIDE DEF y, z
  <2>6. /\ y \in Client
        /\ y.st = k.st /\ y.from = k.from /\ y.to = k.to
        /\ y.recv_len = k.recv_len /\ y.s2c = k.s2c /\ y.c2s = k.c2s
        /\ y.wrote = k.wrote /\ y.sOpen = k.sOpen /\ y.acks = 0 /\ y.sent_len = 0
    BY <2>1, <2>4 DEF Client
  <2>7. z \in [Pos -> Cell] /\ z[0].size = MAX_JSON_BUF_SIZE
    <3> DEFINE cell == [a[0] EXCEPT !.size = MAX_JSON_BUF_SIZE]
    <3>1. cell \in Cell /\ cell.size = MAX_JSON_BUF_SIZE
      BY <1>1 DEF Cell
    <3>2. z = [a EXCEPT ![0] = cell]
      BY <2>5
    <3> HIDE DEF cell
    <3> QED
      BY <1>1, <3>1, <3>2
  <2>8. ASSUME NEW bb, s.mem => bb = b
        PROVE  Replying(y, s, z, bb)
    <3>1. \A doc \in Doc : Holds(z, doc, y.recv_len)
      BY <2>1, <2>6 DEF Holds
    <3> QED
      BY <2>1, <2>6, <2>7, <2>8, <3>1 DEF Replying
  <2> QED
    BY <2>1, <2>6, <2>7, <2>8 DEF y, z
<1>3. CASE ~(k.acks > 0)
  <2>1. k.acks = 0 /\ k.sent_len = 0 /\ (k.recv_len = 0 => a[0].size = MAX_JSON_BUF_SIZE)
    BY <1>3 DEF Replying
  <2>2. x = [client |-> [k EXCEPT !.acks = 0, !.sent_len = @ + k.acks], buffer |-> a]
    BY <1>3 DEF Acked
  <2>3. y = [k EXCEPT !.acks = 0, !.sent_len = @ + k.acks] /\ z = a
    BY <2>2
  <2> HIDE DEF y, z
  <2>4. /\ y \in Client
        /\ y.st = k.st /\ y.from = k.from /\ y.to = k.to
        /\ y.recv_len = k.recv_len /\ y.s2c = k.s2c /\ y.c2s = k.c2s
        /\ y.wrote = k.wrote /\ y.sOpen = k.sOpen /\ y.acks = 0 /\ y.sent_len = 0
    <3>1. y = [k EXCEPT !.acks = 0, !.sent_len = 0]
      <4>1. k.sent_len + k.acks = 0
        BY <2>1
      <4> QED
        BY <2>3, <4>1
    <3> QED
      BY <3>1 DEF Client
  <2>5. ASSUME NEW bb, s.mem => bb = b
        PROVE  Replying(y, s, z, bb)
    BY <2>1, <2>3, <2>4, <2>5 DEF Replying
  <2> QED
    BY <2>1, <2>3, <2>4, <2>5 DEF y, z
<1> QED
  BY <1>2, <1>3

\* A client and the slot that answers it, when the client is alone at its buffer.
LEMMA AnsweredAlone ==
    ASSUME Core, NEW c \in Conn, conn[c].st = "open", Uses(conn[c].from) \ {c} = {},
           server[conn[c].to].conn = c, server[conn[c].to].send_size # 0, conn[c].wrote,
           NEW buf, json_buffer' = [json_buffer EXCEPT ![conn[c].from] = buf]
    PROVE  /\ Replying(conn[c], server[conn[c].to], json_buffer[conn[c].from], json_buffer[conn[c].to])
           /\ server[conn[c].to].mem => json_buffer'[conn[c].to] = json_buffer[conn[c].to]
           /\ json_buffer'[conn[c].from] = buf
<1> DEFINE k == conn[c]
           s == server[k.to]
<1>1. k.from \in Device /\ k.to \in Device /\ s \in Slot
  BY DEF Core, TypeOK
<1>2. Replying(k, s, json_buffer[k.from], json_buffer[k.to])
  BY DEF Core, ConnOk, ConnInv, OpenInv
<1>3. s.recv_len > 0
  BY <1>2, Sizes DEF Replying
<1>4. s.mem => k.to # k.from
  <2>1. "server" # c
    BY ConnAssumption
  <2>2. ~Busy(server[k.from])
    BY <1>1, <2>1, SoleUse
  <2> QED
    BY <1>3, <2>2 DEF Busy
<1> QED
  BY <1>1, <1>2, <1>4 DEF Core, TypeOK

\* The client hears that its message was received.
LEMMA SentStep ==
    ASSUME Core, ~overlap, NEW c \in Conn, tcp_client_json_sent(c), ~overlap'
    PROVE  Core' /\ NoOlder
<1> DEFINE k == conn[c]
           d == k.from
           a == json_buffer[d]
           b == json_buffer[k.to]
           s == server[k.to]
           x == Acked(k, a)
<1>1. /\ k \in Client /\ d \in Device /\ k.to \in Device /\ s \in Slot /\ k.st = "open" /\ k.acks > 0
      /\ a \in [Pos -> Cell] /\ OpenInv(c, k, s, a, b) /\ (s.conn = c => k.sOpen)
      /\ mirror[d] \in Doc /\ mirror[d].ver >= mirror[d].ver
  <2>1. mirror[d] \in Doc /\ k.st = "open" /\ k.acks > 0
    BY DEF Core, TypeOK, tcp_client_json_sent
  <2>2. mirror[d].ver \in Nat
    BY <2>1 DEF Doc
  <2> QED
    BY <2>1, <2>2 DEF Core, TypeOK, ConnOk, ConnInv
<1>2. /\ conn' = [conn EXCEPT ![c] = x.client] /\ json_buffer' = [json_buffer EXCEPT ![d] = x.buffer]
      /\ UNCHANGED <<mirror, main, server, page>> /\ Uses(d) \ {c} = {}
  BY DEF tcp_client_json_sent, Touch
<1>3. server' = [server EXCEPT ![k.to] = s] /\ mirror' = [mirror EXCEPT ![d] = mirror[d]]
  BY <1>1, <1>2 DEF Core, TypeOK
<1>4. k.wrote /\ s.conn = c
  <2> HIDE DEF k, a, b, s
  <2>1. k.acks # 0
    BY <1>1
  <2>2. k.wrote
    BY <1>1, <2>1 DEF OpenInv, Untouched
  <2> QED
    BY <1>1, <2>1, <2>2 DEF OpenInv
<1>5. CASE s.send_size # 0
  <2>1. /\ Replying(k, s, a, b) /\ (s.mem => json_buffer'[k.to] = b) /\ json_buffer'[d] = x.buffer
    BY <1>1, <1>2, <1>4, <1>5, AnsweredAlone
  <2> HIDE DEF k, d, a, b, s, x
  <2>2. /\ x.client \in Client /\ x.buffer \in [Pos -> Cell]
        /\ x.client.st = k.st /\ x.client.from = k.from /\ x.client.to = k.to
        /\ x.client.wrote = k.wrote /\ x.client.sOpen = k.sOpen
        /\ Replying(x.client, s, x.buffer, json_buffer'[k.to])
    BY <1>1, <2>1, AckedReply DEF x
  <2>3. ConnInv(c, x.client, s, json_buffer'[d], json_buffer'[k.to])
    BY <1>1, <1>4, <1>5, <2>1, <2>2 DEF ConnInv, OpenInv
  <2> DEFINE y == x.client
             z == x.buffer
  <2>4. /\ y \in Client /\ z \in [Pos -> Cell] /\ y.st \in {"open", "closed"} /\ y.from = k.from
        /\ y.to = k.to /\ conn' = [conn EXCEPT ![c] = y] /\ json_buffer' = [json_buffer EXCEPT ![d] = z]
        /\ ConnInv(c, y, s, json_buffer'[d], json_buffer'[k.to])
    BY <1>1, <1>2, <2>2, <2>3
  <2> HIDE DEF y, z
  <2> QED
    BY <1>1, <1>2, <1>3, <2>4, ClientBuffer DEF k, d, s
<1>6. CASE s.send_size = 0
  <2>1. Receiving(k, s, a, b)
    BY <1>1, <1>4, <1>6 DEF OpenInv
  <2>2. a[0].size = MsgLen
    BY <2>1, ParsedWhole DEF Receiving, Whole
  <2>3. x = [client |-> [k EXCEPT !.acks = 0, !.sent_len = @ + k.acks], buffer |-> a]
    <3>1. ~(k.sent_len + k.acks >= a[0].size)
      BY <1>1, <2>1, <2>2, Sizes DEF Receiving, Slot
    <3> QED
      BY <3>1 DEF Acked
  <2> DEFINE y == x.client
  <2>4. y = [k EXCEPT !.acks = 0, !.sent_len = @ + k.acks] /\ x.buffer = a
    BY <2>3
  <2>5. json_buffer' = json_buffer
    BY <1>1, <1>2, <2>4 DEF Core, TypeOK
  <2>6. conn' = [conn EXCEPT ![c] = y]
    BY <1>2
  <2> HIDE DEF k, d, a, b, s, x, y
  <2>7. k.sent_len + k.acks \in Nat
    BY <1>1 DEF Client
  <2>8. /\ y \in Client
        /\ y.st = k.st /\ y.from = k.from /\ y.to = k.to
        /\ y.recv_len = k.recv_len /\ y.s2c = k.s2c /\ y.c2s = k.c2s
        /\ y.wrote = k.wrote /\ y.sOpen = k.sOpen /\ y.acks = 0 /\ y.sent_len = k.sent_len + k.acks
    BY <1>1, <2>4, <2>7 DEF Client
  <2>9. Receiving(y, s, a, b)
    <3>1. y.sent_len + y.acks = s.recv_len
      BY <2>1, <2>7, <2>8 DEF Receiving
    <3> QED
      BY <2>1, <2>8, <3>1 DEF Receiving
  <2>10. ConnInv(c, y, s, a, b)
    BY <1>1, <1>4, <1>6, <2>8, <2>9 DEF ConnInv, OpenInv
  <2>11. /\ y \in Client /\ y.st = "open" /\ y.from = k.from /\ y.to = k.to
         /\ UNCHANGED <<mirror, json_buffer, main, page>> /\ s \in Slot /\ k.st # "free"
    BY <1>1, <1>2, <2>5, <2>8
  <2> QED
    BY <1>3, <2>6, <2>10, <2>11, OneConn DEF k, d, a, b, s
<1> QED
  BY <1>5, <1>6

\* How much of a segment of n cells a client takes, and its buffer then.
Took(k, a, n) == IF a[0].size - k.recv_len < 0 THEN n ELSE Min({a[0].size - k.recv_len, n})
Filled(k, a, n) == Copied(a, k.recv_len, SubSeq(k.s2c, 1, Took(k, a, n)))

\* A segment of the answer: it is the end of an answer, which is only a header or a
\* whole message, or the client has a longer beginning of it.
LEMMA ReplyReceived ==
    ASSUME NEW k \in Client, NEW s \in Slot, NEW a \in [Pos -> Cell], NEW b, Replying(k, s, a, b),
           k.acks = 0, k.sent_len = 0, k.recv_len = 0 => a[0].size = MAX_JSON_BUF_SIZE,
           NEW n \in 1 .. MsgLen, n <= Len(k.s2c)
    PROVE  LET buf == Filled(k, a, n)
               len == k.recv_len + Took(k, a, n)
           IN  /\ buf \in [Pos -> Cell] /\ Took(k, a, n) \in Nat
               /\ ReplyWhole(len, buf[0].size) =>
                     buf[0].size = HdrLen \/ \E doc \in Doc : Holds(buf, doc, MsgLen)
               /\ ~ReplyWhole(len, buf[0].size) =>
                     \A k2 \in Client :
                        /\ k2.recv_len = len /\ k2.s2c = SubSeq(k.s2c, n + 1, Len(k.s2c))
                        /\ k2.c2s = k.c2s /\ k2.acks = 0 /\ k2.sent_len = 0
                        => Replying(k2, s, buf, b)
<1> DEFINE left == a[0].size - k.recv_len
           this == Took(k, a, n)
           buf == Filled(k, a, n)
           len == k.recv_len + this
<1>a. this = IF left < 0 THEN n ELSE Min({left, n})
  BY DEF Took
<1>b. buf = Copied(a, k.recv_len, SubSeq(k.s2c, 1, this))
  BY DEF Filled
<1> HIDE DEF this, buf, left, len
<1> DEFINE r == k.recv_len
           q == k.s2c
<1>1. r \in Nat /\ q \in Seq(Cell) /\ Len(q) \in Nat /\ n \in Nat /\ n >= 1 /\ q # <<>>
  <2>1. r \in Nat /\ q \in Seq(Cell)
    BY DEF Client
  <2>2. Len(q) \in Nat /\ n \in Nat /\ n >= 1
    BY <2>1, Sizes
  <2>3. Len(q) # 0
    BY <2>2
  <2> QED
    BY <2>1, <2>2, <2>3
<1>2. r < s.send_size /\ r + Len(q) >= s.send_size /\ s.send_size \in {HdrLen, MsgLen}
  BY <1>1 DEF Replying
<1>3. \/ a[0].size = MAX_JSON_BUF_SIZE /\ r = 0
      \/ a[0].size = MsgLen /\ r > 0 /\ s.send_size = MsgLen
  <2>1. CASE r = 0
    BY <2>1
  <2>2. CASE r # 0
    <3>1. r > 0 /\ s.send_size = MsgLen
      BY <1>1, <1>2, <2>2, Sizes
    <3>2. PICK doc \in Doc : Holds(a, doc, r)
      BY <3>1 DEF Replying
    <3>3. a[0] = MsgCell(doc, 0 + 1)
      BY <1>1, <3>1, <3>2 DEF Holds
    <3> QED
      BY <3>1, <3>3, CellFacts
  <2> QED
    BY <2>1, <2>2
<1>4. /\ this \in Nat /\ this >= 1 /\ this <= n /\ r + this <= MsgLen
      /\ r + this < MsgLen => this = n
      /\ r = 0 => this = n
  <2> HIDE DEF r
  <2>1. left \in Nat /\ left = a[0].size - r
    BY <1>1, <1>2, <1>3, Sizes DEF r, left
  <2>2. this = IF left <= n THEN left ELSE n
    <3>1. left \in Int /\ n \in Int /\ ~(left < 0)
      BY <1>1, <2>1
    <3>2. Min({left, n}) = IF left <= n THEN left ELSE n
      BY ONLY <3>1, MinMaxTwo
    <3> QED
      BY ONLY <1>a, <3>1, <3>2
  <2> QED
    BY <1>1, <1>2, <1>3, <2>1, <2>2, Sizes
<1>5. /\ buf \in [Pos -> Cell]
      /\ \A i \in Pos : buf[i] = IF i >= r /\ i < r + this THEN q[i - r + 1] ELSE a[i]
  <2>1. this <= Len(q) /\ r + this <= MAX_JSON_BUF_SIZE
    BY <1>1, <1>4, Sizes
  <2>2. a \in [Pos -> Cell] /\ buf = Copied(a, r, SubSeq(q, 1, this))
    BY <1>b
  <2> HIDE DEF r, q
  <2> QED
    BY ONLY <1>1, <1>4, <2>1, <2>2, CopiedCells
<1> HIDE DEF r, q
<1>6. CASE s.send_size = HdrLen
  <2>1. r = 0 /\ this = n
    BY <1>1, <1>2, <1>4, <1>6, Sizes
  <2>2. buf[0] = q[1]
    <3>1. 0 \in Pos /\ 0 >= r /\ 0 < r + this /\ 0 - r + 1 = 1
      BY <1>1, <2>1, Sizes
    <3> QED
      BY <1>5, <3>1
  <2>3. q[1].size = HdrLen
    BY <1>1, <1>6 DEF Replying, q
  <2>4. ReplyWhole(len, buf[0].size)
    BY <1>1, <2>1, <2>2, <2>3, Sizes DEF ReplyWhole, r, len
  <2> QED
    BY <1>4, <1>5, <2>2, <2>3, <2>4 DEF buf, len, this
<1>7. CASE s.send_size = MsgLen
  <2>1. PICK doc \in Doc :
             /\ Holds(a, doc, r)
             /\ \A j \in 1 .. Len(q) : r + j <= MsgLen => q[j] = MsgCell(doc, r + j)
    BY <1>7 DEF Replying, r, q
  <2>2. \A j \in 1 .. this : q[j] = MsgCell(doc, r + j)
    <3>1. \A j \in 1 .. this : j \in 1 .. Len(q) /\ r + j <= MsgLen
      BY <1>1, <1>4, Sizes DEF q
    <3> QED
      BY <2>1, <3>1
  <2>3. Holds(buf, doc, r + this)
    <3>1. doc \in Doc
      OBVIOUS
    <3> QED
      BY ONLY <1>1, <1>4, <1>5, <2>1, <2>2, <3>1, HoldsMore
  <2>4. buf[0].size = MsgLen
    <3>1. buf[0] = MsgCell(doc, 0 + 1)
      <4>1. 0 \in 0 .. (r + this) - 1
        BY ONLY <1>1, <1>4
      <4> QED
        BY ONLY <2>3, <4>1 DEF Holds
    <3> QED
      BY <3>1, CellFacts
  <2>5. len = r + this
    BY DEF r, len
  <2>6. ReplyWhole(len, buf[0].size) => len = MsgLen
    BY <1>1, <1>4, <2>4, <2>5, Sizes DEF ReplyWhole
  <2>7. ASSUME ~ReplyWhole(len, buf[0].size), NEW k2 \in Client,
               k2.recv_len = len, k2.s2c = SubSeq(q, n + 1, Len(q)),
               k2.c2s = k.c2s, k2.acks = 0, k2.sent_len = 0
        PROVE  Replying(k2, s, buf, b)
    <3>1. len < MsgLen /\ this = n /\ len \in Nat /\ len # 0
      BY <1>1, <1>4, <2>4, <2>5, <2>7, Sizes DEF ReplyWhole
    <3>2. n <= Len(q)
      BY DEF q
    <3> DEFINE t == SubSeq(q, n + 1, Len(q))
    <3>3. Len(t) = Len(q) - n /\ \A j \in 1 .. Len(q) - n : t[j] = q[n + j]
      BY <1>1, <3>2
    <3> HIDE DEF t
    <3>4. len + Len(t) >= MsgLen
      BY <1>1, <1>2, <1>7, <2>5, <3>1, <3>2, <3>3, Sizes
    <3>5. ASSUME NEW j \in 1 .. Len(t), len + j <= MsgLen
          PROVE  t[j] = MsgCell(doc, len + j)
      <4>1. j \in 1 .. Len(q) - n /\ n + j \in 1 .. Len(q) /\ r + (n + j) = len + j /\ len + j <= MsgLen
        BY <1>1, <2>5, <3>1, <3>2, <3>3, <3>5
      <4> QED
        BY <2>1, <3>3, <4>1
    <3>6. k2.s2c = t /\ k2.recv_len = len /\ MsgLen # HdrLen
      BY <2>7, Sizes DEF t
    <3>7. Holds(buf, doc, len)
      BY <2>3, <2>5
    <3>8. \E x \in Doc :
             /\ Holds(buf, x, k2.recv_len)
             /\ \A j \in 1 .. Len(k2.s2c) :
                   k2.recv_len + j <= MsgLen => k2.s2c[j] = MsgCell(x, k2.recv_len + j)
      BY <3>5, <3>6, <3>7
    <3> QED
      BY <1>7, <2>7, <3>1, <3>4, <3>6, <3>8 DEF Replying
  <2> QED
    BY <1>4, <1>5, <2>3, <2>5, <2>6, <2>7 DEF q, buf, len, this
<1> QED
  BY <1>2, <1>6, <1>7

\* A segment of the answer reaches the client.
LEMMA ClientRecvStep ==
    ASSUME Core, ~overlap, NEW c \in Conn, NEW n \in Segment, tcp_client_json_recv(c, n), ~overlap'
    PROVE  Core' /\ NoOlder
<1> DEFINE k == conn[c]
           d == k.from
           b == json_buffer[k.to]
           s == server[k.to]
           x == Acked(k, json_buffer[d])
           y == x.client
           z == x.buffer
           buf == Filled(y, z, n)
           len == y.recv_len + Took(y, z, n)
           more == [y EXCEPT !.recv_len = len, !.s2c = SubSeq(@, n + 1, Len(@))]
           b2 == json_buffer'[k.to]
<1>1. /\ k \in Client /\ d \in Device /\ k.to \in Device /\ s \in Slot /\ k.st = "open"
      /\ json_buffer[d] \in [Pos -> Cell] /\ OpenInv(c, k, s, json_buffer[d], b) /\ (s.conn = c => k.sOpen)
      /\ mirror \in [Device -> Doc] /\ n \in 1 .. MsgLen /\ n <= Len(k.s2c)
  BY DEF Core, TypeOK, ConnOk, ConnInv, tcp_client_json_recv, Segment, MsgLen
<1>2. /\ json_buffer' = [json_buffer EXCEPT ![d] = buf] /\ UNCHANGED <<main, server, page>>
      /\ Uses(d) \ {c} = {}
      /\ IF ReplyWhole(len, buf[0].size)
         THEN /\ \E doc \in handle_reply(d, buf[0].size, buf) : mirror' = [mirror EXCEPT ![d] = doc]
              /\ conn' = [conn EXCEPT ![c] = Finished(c)]
         ELSE conn' = [conn EXCEPT ![c] = more] /\ mirror' = mirror
  BY DEF tcp_client_json_recv, Touch, Filled, Took
<1> HIDE DEF k, d, b, s, x, y, z, buf, len, more, b2
<1>3. k.wrote /\ s.conn = c /\ s.send_size # 0
  <2>1. k.s2c # <<>>
    <3>1. k.s2c = <<>> => Len(k.s2c) = 0
      OBVIOUS
    <3> QED
      BY <1>1, <3>1, Sizes
  <2>2. k.wrote
    BY <1>1, <2>1 DEF OpenInv, Untouched
  <2>3. s.conn = c
    BY <1>1, <2>1, <2>2 DEF OpenInv
  <2> QED
    BY <1>1, <2>1, <2>2, <2>3 DEF OpenInv, Receiving
<1>4. Replying(k, s, json_buffer[d], b) /\ (s.mem => b2 = b) /\ json_buffer'[d] = buf
  BY <1>1, <1>2, <1>3, AnsweredAlone DEF k, d, s, b, b2
<1>5. /\ y \in Client /\ z \in [Pos -> Cell]
      /\ y.st = k.st /\ y.from = k.from /\ y.to = k.to /\ y.recv_len = k.recv_len /\ y.s2c = k.s2c
      /\ y.c2s = k.c2s /\ y.wrote = k.wrote /\ y.sOpen = k.sOpen /\ y.acks = 0 /\ y.sent_len = 0
      /\ y.recv_len = 0 => z[0].size = MAX_JSON_BUF_SIZE
      /\ Replying(y, s, z, b2)
  <2>1. /\ x.client \in Client /\ x.buffer \in [Pos -> Cell]
        /\ x.client.st = k.st /\ x.client.from = k.from /\ x.client.to = k.to
        /\ x.client.recv_len = k.recv_len /\ x.client.s2c = k.s2c /\ x.client.c2s = k.c2s
        /\ x.client.wrote = k.wrote /\ x.client.sOpen = k.sOpen
        /\ x.client.acks = 0 /\ x.client.sent_len = 0
        /\ k.recv_len = 0 => x.buffer[0].size = MAX_JSON_BUF_SIZE
        /\ Replying(x.client, s, x.buffer, b2)
    <3>1. /\ k \in Client /\ s \in Slot /\ json_buffer[d] \in [Pos -> Cell]
          /\ Replying(k, s, json_buffer[d], b) /\ (s.mem => b2 = b)
      BY <1>1, <1>4
    <3> QED
      BY ONLY <3>1, AckedReply DEF x
  <2> QED
    BY <2>1 DEF y, z
<1>6. /\ buf \in [Pos -> Cell] /\ Took(y, z, n) \in Nat
      /\ ReplyWhole(len, buf[0].size) =>
            buf[0].size = HdrLen \/ \E doc \in Doc : Holds(buf, doc, MsgLen)
      /\ ~ReplyWhole(len, buf[0].size) =>
            \A k2 \in Client :
               /\ k2.recv_len = len /\ k2.s2c = SubSeq(y.s2c, n + 1, Len(y.s2c))
               /\ k2.c2s = y.c2s /\ k2.acks = 0 /\ k2.sent_len = 0
               => Replying(k2, s, buf, b2)
  <2>1. n <= Len(y.s2c) /\ n \in 1 .. MsgLen /\ s \in Slot
    BY <1>1, <1>5
  <2> QED
    BY ONLY <1>5, <2>1, ReplyReceived DEF buf, len
<1>7. CASE ReplyWhole(len, buf[0].size)
  <2>1. PICK doc \in handle_reply(d, buf[0].size, buf) : mirror' = [mirror EXCEPT ![d] = doc]
    BY <1>2, <1>7
  <2>2. mirror[d] \in Doc /\ mirror[d].ver \in Nat
    BY <1>1 DEF Doc
  <2>3. doc \in Doc /\ doc.ver >= mirror[d].ver
    <3>1. CASE doc = mirror[d]
      BY <2>2, <3>1
    <3>2. CASE doc # mirror[d]
      <4>1. /\ buf[0].size > HdrLen /\ Fresher(buf[0].doc.ver, get_mirror_update_count(d))
            /\ doc \in Parsed(buf)
        BY <2>1, <3>2 DEF handle_reply
      <4>2. buf[0].size # HdrLen
        BY <4>1, Sizes
      <4>3. PICK m \in Doc : Holds(buf, m, MsgLen)
        BY <1>6, <1>7, <4>2
      <4>4. doc = m /\ buf[0].doc.ver = m.ver
        BY <4>1, <4>3, ParsedWhole
      <4>5. m.ver \in Nat
        BY DEF Doc
      <4> QED
        BY <1>1, <4>1, <4>4, <4>5, MirrorNoOlder DEF Fresher
    <3> QED
      BY <3>1, <3>2
  <2>4. ConnInv(c, Finished(c), s, json_buffer'[d], b2)
    <3>1. k.c2s = <<>>
      BY <1>4 DEF Replying
    <3> QED
      BY <3>1, FinishedClient DEF ConnInv, k
  <2>5. conn' = [conn EXCEPT ![c] = Finished(c)]
    BY <1>2, <1>7
  <2>6. Finished(c) \in Client /\ Finished(c).st \in {"open", "closed"}
    BY FinishedClient
  <2> QED
    BY <1>1, <1>2, <1>6, <2>1, <2>3, <2>4, <2>5, <2>6, FinishedClient, ClientBuffer DEF k, d, s, b2
<1>8. CASE ~ReplyWhole(len, buf[0].size)
  <2>1. conn' = [conn EXCEPT ![c] = more] /\ mirror' = [mirror EXCEPT ![d] = mirror[d]]
    BY <1>1, <1>2, <1>8
  <2>2. mirror[d] \in Doc /\ mirror[d].ver >= mirror[d].ver
    <3>1. mirror[d] \in Doc /\ mirror[d].ver \in Nat
      BY <1>1 DEF Doc
    <3> QED
      BY <3>1
  <2>3. len \in Nat /\ SubSeq(y.s2c, n + 1, Len(y.s2c)) \in Seq(Cell)
    <3>1. y.s2c \in Seq(Cell) /\ y.recv_len \in Nat /\ n \in Nat
      BY <1>1, <1>5, Sizes DEF Client
    <3> QED
      BY <1>6, <3>1 DEF len
  <2>4. more = [y EXCEPT !.recv_len = len, !.s2c = SubSeq(y.s2c, n + 1, Len(y.s2c))]
    BY DEF more
  <2>5. /\ more \in Client /\ more.recv_len = len /\ more.s2c = SubSeq(y.s2c, n + 1, Len(y.s2c))
        /\ more.c2s = y.c2s /\ more.acks = 0 /\ more.sent_len = 0 /\ more.st = "open"
        /\ more.from = k.from /\ more.to = k.to /\ more.wrote = k.wrote /\ more.sOpen = k.sOpen
    BY <1>1, <1>5, <2>3, <2>4 DEF Client
  <2>6. Replying(more, s, buf, b2)
    BY <1>6, <1>8, <2>5
  <2>7. ConnInv(c, more, s, json_buffer'[d], b2)
    BY <1>1, <1>3, <1>4, <2>5, <2>6 DEF ConnInv, OpenInv
  <2>8. more.st \in {"open", "closed"}
    BY <2>5
  <2> QED
    BY <1>1, <1>2, <1>6, <2>1, <2>2, <2>5, <2>7, <2>8, ClientBuffer DEF k, d, s, b2
<1> QED
  BY <1>7, <1>8

\* A segment of a client's message in the buffer of the device it is sent to.
Landed(k, s, b, n) == Copied(b, s.recv_len, SubSeq(k.c2s, 1, n))

\* The server has a longer beginning of the message, and knows its size as soon as
\* it looks for it.
LEMMA MessageReceived ==
    ASSUME NEW k \in Client, NEW s \in Slot, NEW a, NEW b \in [Pos -> Cell], Receiving(k, s, a, b),
           NEW n \in 1 .. MsgLen, n <= Len(k.c2s)
    PROVE  LET buf == Landed(k, s, b, n)
               len == s.recv_len + n
               seen == ~s.recv_flag /\ HeaderHere(len)
               size == IF seen THEN buf[0].size ELSE s.recv_size
               rest == SubSeq(k.c2s, n + 1, Len(k.c2s))
           IN  /\ buf \in [Pos -> Cell] /\ len \in Nat /\ len <= MsgLen /\ s.recv_len + n <= MAX_JSON_BUF_SIZE
               /\ len < size <=> len < MsgLen
               /\ s.recv_flag \/ seen <=> len > HdrLen
               /\ size = IF s.recv_flag \/ seen THEN MsgLen ELSE MAX_JSON_BUF_SIZE
               /\ rest \in Seq(Cell) /\ Len(rest) = MsgLen - len
               /\ \E doc \in Doc : /\ Holds(buf, doc, len)
                                   /\ \A j \in 1 .. Len(rest) : rest[j] = MsgCell(doc, len + j)
<1> DEFINE r == s.recv_len
           q == k.c2s
           buf == Landed(k, s, b, n)
           len == r + n
           seen == ~s.recv_flag /\ HeaderHere(len)
           size == IF seen THEN buf[0].size ELSE s.recv_size
           rest == SubSeq(q, n + 1, Len(q))
<1>1. /\ r \in Nat /\ q \in Seq(Cell) /\ Len(q) = MsgLen - r /\ r < MsgLen /\ n \in Nat /\ n >= 1
      /\ n <= Len(q) /\ Len(q) \in Nat
  <2>1. r \in Nat /\ q \in Seq(Cell)
    BY DEF Client, Slot
  <2>2. Len(q) = MsgLen - r /\ r < MsgLen
    BY DEF Receiving
  <2> QED
    BY <2>1, <2>2, Sizes
<1>2. PICK doc \in Doc : Holds(b, doc, r) /\ \A j \in 1 .. Len(q) : q[j] = MsgCell(doc, r + j)
  BY DEF Receiving
<1>3. /\ (s.recv_flag <=> r > HdrLen)
      /\ s.recv_size = IF s.recv_flag THEN MsgLen ELSE MAX_JSON_BUF_SIZE
  BY DEF Receiving
<1>4. b \in [Pos -> Cell] /\ buf = Copied(b, r, SubSeq(q, 1, n)) /\ doc \in Doc
  BY DEF Landed
<1> HIDE DEF r, q, buf
<1>5. len \in Nat /\ len <= MsgLen /\ r + n <= MAX_JSON_BUF_SIZE /\ len >= 1
  BY <1>1, Sizes
<1>6. /\ buf \in [Pos -> Cell]
      /\ \A i \in Pos : buf[i] = IF i >= r /\ i < r + n THEN q[i - r + 1] ELSE b[i]
  BY ONLY <1>1, <1>4, <1>5, CopiedCells
<1>7. Holds(buf, doc, r + n)
  <2>1. \A j \in 1 .. n : q[j] = MsgCell(doc, r + j)
    BY ONLY <1>1, <1>2
  <2>2. r + n <= MsgLen
    BY <1>5
  <2> QED
    BY ONLY <1>1, <1>2, <1>4, <1>6, <2>1, <2>2, HoldsMore
<1>8. buf[0].size = MsgLen
  <2>1. 0 \in 0 .. (r + n) - 1
    BY ONLY <1>1
  <2>2. buf[0] = MsgCell(doc, 0 + 1)
    BY ONLY <1>7, <2>1 DEF Holds
  <2> QED
    BY <2>2, CellFacts
<1>9. s.recv_flag \/ seen <=> len > HdrLen
  BY <1>1, <1>3, Sizes DEF HeaderHere
<1> HIDE DEF seen
<1>10. size = IF s.recv_flag \/ seen THEN MsgLen ELSE MAX_JSON_BUF_SIZE
  BY <1>3, <1>8
<1> HIDE DEF size
<1>11. len < size <=> len < MsgLen
  BY <1>5, <1>9, <1>10, Sizes
<1>12. rest \in Seq(Cell) /\ Len(rest) = MsgLen - len /\ \A j \in 1 .. Len(q) - n : rest[j] = q[n + j]
  <2>1. n + 1 \in 1 .. Len(q) + 1 /\ Len(q) \in 0 .. Len(q) /\ Len(q) - n = MsgLen - len /\ MsgLen \in Nat
    BY ONLY <1>1, <1>5, Sizes
  <2> QED
    BY ONLY <1>1, <2>1
<1>13. ASSUME NEW j \in 1 .. Len(rest)
       PROVE  rest[j] = MsgCell(doc, len + j)
  <2>1. j \in 1 .. Len(q) - n /\ n + j \in 1 .. Len(q) /\ r + (n + j) = len + j
    BY <1>1, <1>12, Sizes
  <2>2. rest[j] = q[n + j]
    BY <1>12, <2>1
  <2> HIDE DEF rest
  <2> QED
    BY <1>2, <2>1, <2>2
<1> HIDE DEF rest
<1>14. \E m \in Doc : Holds(buf, m, len) /\ \A j \in 1 .. Len(rest) : rest[j] = MsgCell(m, len + j)
  BY <1>7, <1>13
<1> QED
  BY <1>5, <1>6, <1>9, <1>10, <1>11, <1>12, <1>14 DEF r, q, buf, seen, size, rest

\* The slot's answer, sent or waiting for memory.
LEMMA Answered ==
    ASSUME NEW k \in Client, NEW s \in Slot, NEW a, NEW b \in [Pos -> Cell], NEW mem \in BOOLEAN,
           k.c2s = <<>>, s.recv_len = MsgLen, k.recv_len = 0, k.sent_len + k.acks = MsgLen,
           k.acks > 0, Whole(a), mem => s.mem,
           \/ s.send_size = HdrLen /\ b[0].size = HdrLen
           \/ s.send_size = MsgLen /\ Whole(b),
           k.s2c = IF mem THEN <<>> ELSE Write(<<>>, b, s.send_size)
    PROVE  Replying(k, s, a, b)
<1>1. HdrLen # MsgLen /\ HdrLen = 1 /\ MsgLen > 1 /\ MsgLen \in Nat /\ MsgLen <= MAX_JSON_BUF_SIZE
  BY Sizes
<1>2. s.send_size \in {HdrLen, MsgLen} /\ s.send_size \in Nat /\ s.send_size >= 1 /\ s.send_size <= MAX_JSON_BUF_SIZE
  BY <1>1, Sizes
<1>3. CASE mem
  <2>1. \A doc \in Doc : Holds(a, doc, 0)
    BY DEF Holds
  <2>2. Len(k.s2c) = 0
    BY <1>3
  <2>3. s.send_size = MsgLen =>
          \E doc \in Doc :
             /\ Holds(a, doc, k.recv_len)
             /\ \A j \in 1 .. Len(k.s2c) :
                   k.recv_len + j <= MsgLen => k.s2c[j] = MsgCell(doc, k.recv_len + j)
    BY <1>1, <2>1, <2>2 DEF Whole
  <2> QED
    BY <1>1, <1>2, <1>3, <2>3 DEF Replying
<1>4. CASE ~mem
  <2> DEFINE w == Write(<<>>, b, s.send_size)
  <2>1. <<>> \in Seq(Cell) /\ Len(<<>>) = 0
    OBVIOUS
  <2>2. /\ w \in Seq(Cell) /\ Len(w) = 0 + s.send_size
        /\ \A j \in 1 .. s.send_size : w[0 + j] = b[j - 1]
    BY <1>2, <2>1, WriteCells
  <2>3. k.s2c = w
    BY <1>4
  <2> HIDE DEF w
  <2>4. w[1] = b[0] /\ Len(w) = s.send_size
    <3>1. 1 \in 1 .. s.send_size /\ 0 + 1 = 1 /\ 1 - 1 = 0
      BY <1>2
    <3>2. w[0 + 1] = b[1 - 1]
      BY <2>2, <3>1
    <3> QED
      BY <1>2, <2>2, <3>1, <3>2
  <2>5. CASE s.send_size = HdrLen
    BY <1>1, <1>2, <2>3, <2>4, <2>5 DEF Replying
  <2>6. CASE s.send_size = MsgLen
    <3>1. PICK doc \in Doc : Holds(b, doc, MsgLen)
      BY <1>1, <2>6 DEF Whole
    <3>2. \A j \in 1 .. MsgLen : w[j] = MsgCell(doc, j)
      BY <2>6, <3>1, WriteMessage DEF w
    <3>3. Holds(a, doc, k.recv_len)
      BY DEF Holds
    <3>4. \A j \in 1 .. Len(w) : k.recv_len + j <= MsgLen => w[j] = MsgCell(doc, k.recv_len + j)
      BY <1>1, <2>4, <2>6, <3>2
    <3>5. \E x \in Doc :
             /\ Holds(a, x, k.recv_len)
             /\ \A j \in 1 .. Len(k.s2c) :
                   k.recv_len + j <= MsgLen => k.s2c[j] = MsgCell(x, k.recv_len + j)
      BY <2>3, <3>3, <3>4
    <3>6. k.recv_len < s.send_size /\ k.recv_len + Len(k.s2c) >= s.send_size
      BY <1>1, <1>2, <2>3, <2>4
    <3> QED
      BY <1>1, <2>6, <3>5, <3>6 DEF Replying
  <2> QED
    BY <1>2, <2>5, <2>6
<1> QED
  BY <1>3, <1>4

\* The same as OneBuffer for the server's end.
LEMMA ServerBuffer ==
    ASSUME Core, NEW c \in Conn, conn[c].st = "open", server[conn[c].to].conn = c,
           Uses(conn[c].to) \ {"server"} = {},
           NEW buf \in [Pos -> Cell], json_buffer' = [json_buffer EXCEPT ![conn[c].to] = buf],
           NEW doc \in Doc, doc.ver >= mirror[conn[c].to].ver,
           mirror' = [mirror EXCEPT ![conn[c].to] = doc], UNCHANGED <<main, page>>,
           NEW k2 \in Client, conn' = [conn EXCEPT ![c] = k2], k2.st = "open",
           k2.from = conn[c].from, k2.to = conn[c].to, k2.wrote, k2.sOpen,
           NEW s2 \in Slot, server' = [server EXCEPT ![conn[c].to] = s2], s2.conn = c,
           IF s2.send_size = 0 THEN Receiving(k2, s2, json_buffer[conn[c].from], buf)
           ELSE Replying(k2, s2, json_buffer[conn[c].from], buf)
    PROVE  Core' /\ NoOlder
<1> DEFINE d == conn[c].to
<1>1. d \in Device /\ conn[c].from \in Device
  BY DEF Core, TypeOK
<1>2. conn[c].from # d
  <2>1. c # "server"
    BY ConnAssumption
  <2> QED
    BY <1>1, <2>1, SoleUse
<1>3. json_buffer'[d] = buf /\ json_buffer'[conn[c].from] = json_buffer[conn[c].from]
  <2>1. json_buffer \in [Device -> [Pos -> Cell]] /\ json_buffer' = [json_buffer EXCEPT ![d] = buf]
    BY DEF Core, TypeOK
  <2> QED
    BY ONLY <1>1, <1>2, <2>1
<1>4. ConnInv(c, k2, s2, json_buffer'[conn[c].from], json_buffer'[d])
  BY <1>3 DEF ConnInv, OpenInv
<1>5. ("server" = c /\ d = conn[c].from) \/ ("server" = "server" /\ d = conn[c].to /\ server[d].conn = c)
  OBVIOUS
<1>6. /\ s2.conn = server[conn[c].to].conn /\ (s2 = server[conn[c].to] \/ s2.conn = c)
      /\ conn[c].st # "free" /\ k2.st \in {"open", "closed"}
  OBVIOUS
<1> HIDE DEF d
<1> QED
  BY <1>1, <1>4, <1>5, <1>6, OneBuffer, Zenon DEF d

\* A segment of the message reaches the server, and with the last one the fresher
\* text wins.
LEMMA ServerRecvStep ==
    ASSUME Core, ~overlap, NEW c \in Conn, NEW n \in Segment, NEW mem \in BOOLEAN,
           tcp_server_json_recv(c, n, mem), ~overlap'
    PROVE  Core' /\ NoOlder
<1> DEFINE k == conn[c]
           d == k.to
           a == json_buffer[k.from]
           b == json_buffer[d]
           s == server[d]
           this == Min({n, MAX_JSON_BUF_SIZE - s.recv_len})
           buf == Landed(k, s, b, this)
           len == s.recv_len + this
           seen == ~s.recv_flag /\ HeaderHere(len)
           size == IF seen THEN buf[0].size ELSE s.recv_size
           got == [s EXCEPT !.recv_len = len, !.recv_flag = @ \/ seen, !.recv_size = size]
           rest == SubSeq(k.c2s, n + 1, Len(k.c2s))
           k2 == [k EXCEPT !.c2s = rest, !.acks = @ + n]
           his == buf[0].doc.ver
           mine == get_mirror_update_count(d)
           g == get_mirror(d)
           taken == [buf EXCEPT ![0].size = HdrLen]
           own == WithHeader(Printed(buf, g), mine)
<1>1. /\ k \in Client /\ d \in Device /\ k.from \in Device /\ s \in Slot /\ s.conn = c /\ k.st # "free"
      /\ b \in [Pos -> Cell] /\ a \in [Pos -> Cell] /\ ConnInv(c, k, s, a, b)
      /\ mirror \in [Device -> Doc] /\ n \in 1 .. MsgLen /\ n <= Len(k.c2s)
  BY DEF Core, TypeOK, ConnOk, tcp_server_json_recv, Segment, MsgLen
<1>0. UNCHANGED <<main, page>> /\ Uses(d) \ {"server"} = {}
  BY DEF tcp_server_json_recv, Touch
<1>2. \/ /\ len < size
         /\ server' = [server EXCEPT ![d] = got]
         /\ conn' = [conn EXCEPT ![c] = k2]
         /\ json_buffer' = [json_buffer EXCEPT ![d] = buf]
         /\ mirror' = mirror
      \/ /\ len >= size /\ Fresher(his, mine)
         /\ \E doc \in Parsed(buf) : mirror' = [mirror EXCEPT ![d] = doc]
         /\ Send(d, [got EXCEPT !.send_size = HdrLen], taken, k2, mem)
         /\ json_buffer' = [json_buffer EXCEPT ![d] = taken]
      \/ /\ len >= size /\ ~Fresher(his, mine)
         /\ mirror' = [mirror EXCEPT ![d] = g]
         /\ Send(d, [got EXCEPT !.send_size = HdrLen + TextLen], own, k2, mem)
         /\ json_buffer' = [json_buffer EXCEPT ![d] = own]
  BY ONLY tcp_server_json_recv(c, n, mem), Zenon DEF tcp_server_json_recv, Landed
<1>3. k.st = "open" /\ k.wrote /\ k.sOpen /\ s.send_size = 0 /\ Receiving(k, s, a, b)
  <2> HIDE DEF k, d, a, b, s
  <2>1. k.c2s # <<>>
    <3>1. k.c2s = <<>> => Len(k.c2s) = 0
      OBVIOUS
    <3> QED
      BY <1>1, <3>1, Sizes
  <2>2. k.st = "open" /\ k.sOpen /\ OpenInv(c, k, s, a, b)
    BY <1>1, <2>1 DEF ConnInv, Client
  <2>3. k.wrote
    BY <2>1, <2>2 DEF OpenInv, Untouched
  <2>4. s.send_size = 0
    BY <1>1, <2>1, <2>2, <2>3 DEF OpenInv, Replying
  <2> QED
    BY <1>1, <2>2, <2>3, <2>4 DEF OpenInv
<1>4. this = n
  <2> HIDE DEF k, s
  <2>1. s.recv_len \in Nat /\ Len(k.c2s) = MsgLen - s.recv_len /\ s.recv_len < MsgLen
    BY <1>1, <1>3 DEF Slot, Receiving
  <2>2. n \in Int /\ MAX_JSON_BUF_SIZE - s.recv_len \in Int /\ n <= MAX_JSON_BUF_SIZE - s.recv_len
    BY <1>1, <2>1, Sizes
  <2> QED
    BY ONLY <2>2, MinMaxTwo
<1>5. buf = Landed(k, s, b, n) /\ len = s.recv_len + n
  BY <1>4
<1> HIDE DEF k, d, a, b, s, this, buf, len, g, his, mine
<1>6. /\ buf \in [Pos -> Cell] /\ len \in Nat /\ len <= MsgLen
      /\ len < size <=> len < MsgLen
      /\ s.recv_flag \/ seen <=> len > HdrLen
      /\ size = IF s.recv_flag \/ seen THEN MsgLen ELSE MAX_JSON_BUF_SIZE
      /\ rest \in Seq(Cell) /\ Len(rest) = MsgLen - len
      /\ \E doc \in Doc : /\ Holds(buf, doc, len)
                          /\ \A j \in 1 .. Len(rest) : rest[j] = MsgCell(doc, len + j)
  <2>1. k \in Client /\ s \in Slot /\ b \in [Pos -> Cell] /\ n \in 1 .. MsgLen /\ n <= Len(k.c2s)
    BY <1>1
  <2>2. Receiving(k, s, a, b)
    BY <1>3
  <2>3. LET bf == Landed(k, s, b, n)
            ln == s.recv_len + n
            sn == ~s.recv_flag /\ HeaderHere(ln)
            sz == IF sn THEN bf[0].size ELSE s.recv_size
        IN  /\ bf \in [Pos -> Cell] /\ ln \in Nat /\ ln <= MsgLen
            /\ ln < sz <=> ln < MsgLen
            /\ s.recv_flag \/ sn <=> ln > HdrLen
            /\ sz = IF s.recv_flag \/ sn THEN MsgLen ELSE MAX_JSON_BUF_SIZE
            /\ rest \in Seq(Cell) /\ Len(rest) = MsgLen - ln
            /\ \E doc \in Doc : /\ Holds(bf, doc, ln)
                                /\ \A j \in 1 .. Len(rest) : rest[j] = MsgCell(doc, ln + j)
    BY ONLY <2>1, <2>2, MessageReceived, ZenonT(30)
  <2> QED
    BY ONLY <1>5, <2>3
<1> HIDE DEF seen, size, rest
<1>7. /\ got \in Slot /\ got.recv_len = len /\ (got.recv_flag <=> len > HdrLen) /\ got.send_size = 0
      /\ got.recv_size = (IF len > HdrLen THEN MsgLen ELSE MAX_JSON_BUF_SIZE) /\ got.conn = c
      /\ got.mem = s.mem
  <2>1. s.recv_flag \in BOOLEAN /\ (s.recv_flag \/ seen) \in BOOLEAN /\ size \in Nat
    BY <1>1, <1>6, Sizes DEF Slot
  <2> DEFINE f == s.recv_flag \/ seen
  <2>2. got = [s EXCEPT !.recv_len = len, !.recv_flag = f, !.recv_size = size]
    OBVIOUS
  <2>3. f \in BOOLEAN /\ (f <=> len > HdrLen) /\ size = IF f THEN MsgLen ELSE MAX_JSON_BUF_SIZE
    BY <1>6, <2>1
  <2> HIDE DEF f, got
  <2>4. got \in Slot /\ got.recv_len = len /\ got.recv_flag = f /\ got.recv_size = size
    BY <1>1, <1>6, <2>1, <2>2, <2>3 DEF Slot
  <2>5. got.conn = s.conn /\ got.send_size = s.send_size /\ got.mem = s.mem
    BY <1>1, <2>2 DEF Slot
  <2> QED
    BY <1>1, <1>3, <2>3, <2>4, <2>5
<1>8. /\ k2 \in Client /\ k2.st = "open" /\ k2.from = k.from /\ k2.to = d /\ k2.wrote = k.wrote
      /\ k2.sOpen = k.sOpen /\ k2.c2s = rest /\ k2.acks = k.acks + n /\ k2.s2c = k.s2c
      /\ k2.recv_len = k.recv_len /\ k2.sent_len = k.sent_len /\ k2.mem = k.mem
  <2>1. k.acks + n \in Nat
    BY <1>1, Sizes DEF Client
  <2> QED
    BY <1>1, <1>3, <1>6, <2>1 DEF Client, d
<1>9. /\ k.s2c = <<>> /\ k.recv_len = 0 /\ Whole(a) /\ k2.sent_len + k2.acks = len /\ k2.acks > 0
      /\ k.wrote /\ k.sOpen
  <2>1. k.sent_len + k.acks = s.recv_len /\ k.acks \in Nat /\ k.sent_len \in Nat /\ n \in Nat /\ n >= 1
    BY <1>1, <1>3, Sizes DEF Receiving, Client
  <2>2. k2.sent_len + k2.acks = len /\ k2.acks > 0
    BY <1>5, <1>8, <2>1
  <2> QED
    BY <1>3, <2>2 DEF Receiving
<1> HIDE DEF got, k2
<1>10. /\ g \in Doc /\ g.ver >= mirror[d].ver /\ mine = g.ver /\ mirror[d].ver \in Nat /\ mirror[d] \in Doc
       /\ g.ver \in Nat
  BY <1>1, MirrorNoOlder DEF g, mine
<1>11. CASE len < size
  <2>1. /\ server' = [server EXCEPT ![d] = got] /\ conn' = [conn EXCEPT ![c] = k2]
        /\ json_buffer' = [json_buffer EXCEPT ![d] = buf]
        /\ mirror' = [mirror EXCEPT ![d] = mirror[d]]
    <3>1. ~(len >= size)
      BY <1>6, <1>11, Sizes
    <3>2. mirror' = mirror => mirror' = [mirror EXCEPT ![d] = mirror[d]]
      BY <1>1
    <3> QED
      BY <1>2, <3>1, <3>2
  <2>2. len < MsgLen
    BY <1>6, <1>11
  <2>3. Receiving(k2, got, a, buf)
    BY <1>6, <1>7, <1>8, <1>9, <2>2 DEF Receiving
  <2>4. mirror[d].ver >= mirror[d].ver
    BY <1>10
  <2> QED
    <3>1. /\ got \in Slot /\ got.conn = c /\ got.send_size = 0 /\ buf \in [Pos -> Cell] /\ k2 \in Client
          /\ k2.st = "open" /\ k2.from = k.from /\ k2.to = d /\ k2.wrote /\ k2.sOpen
          /\ mirror[d] \in Doc
      BY <1>6, <1>7, <1>8, <1>9, <1>10
    <3> QED
      <4>1. /\ conn[c].st = "open" /\ server[conn[c].to].conn = c
            /\ Uses(conn[c].to) \ {"server"} = {} /\ UNCHANGED <<main, page>>
        BY <1>0, <1>1, <1>3 DEF k, d, s
      <4> QED
        BY <2>1, <2>3, <2>4, <3>1, <4>1, ServerBuffer DEF k, d, a
<1>12. CASE len >= size
  <2>1. len = MsgLen /\ ~(len < size)
    <3>1. ~(len < size)
      BY <1>6, <1>12, Sizes
    <3> QED
      BY <1>6, <3>1, Sizes
  <2>2. rest = <<>>
    BY <1>6, <2>1, Sizes
  <2>3. PICK doc \in Doc : Holds(buf, doc, MsgLen)
    BY <1>6, <2>1
  <2>4. Parsed(buf) = {doc} /\ his = doc.ver /\ doc.ver \in Nat
    BY <2>3, ParsedWhole DEF his, Doc
  <2>5. ASSUME NEW x \in {HdrLen, MsgLen}, NEW out \in [Pos -> Cell], NEW m \in Doc,
               Send(d, [got EXCEPT !.send_size = x], out, k2, mem),
               json_buffer' = [json_buffer EXCEPT ![d] = out],
               mirror' = [mirror EXCEPT ![d] = m], m.ver >= mirror[d].ver,
               (x = HdrLen /\ out[0].size = HdrLen) \/ (x = MsgLen /\ Whole(out))
        PROVE  Core' /\ NoOlder
    <3> DEFINE s1 == [got EXCEPT !.send_size = x]
               s3 == [s1 EXCEPT !.mem = @ \/ mem]
               k3 == IF mem THEN k2 ELSE [k2 EXCEPT !.s2c = Write(@, out, s1.send_size)]
    <3>0. x \in Nat /\ x # 0 /\ x <= MAX_JSON_BUF_SIZE
      BY Sizes
    <3>1. /\ s1 \in Slot /\ s1.send_size = x /\ s1.conn = c /\ s1.recv_len = MsgLen
      BY <1>7, <2>1, <3>0 DEF Slot
    <3>2. server' = [server EXCEPT ![d] = s3] /\ conn' = [conn EXCEPT ![c] = k3]
      BY <2>5, <3>1 DEF Send
    <3> HIDE DEF s1
    <3>3. s3 \in Slot /\ s3.send_size = x /\ s3.conn = c /\ s3.recv_len = MsgLen /\ (mem => s3.mem)
      <4> DEFINE f == s1.mem \/ mem
      <4>1. f \in BOOLEAN /\ (mem => f)
        OBVIOUS
      <4>2. s3 = [s1 EXCEPT !.mem = f]
        OBVIOUS
      <4> HIDE DEF f, s3
      <4>3. s3 \in Slot /\ s3.mem = f
        BY <3>1, <4>1, <4>2 DEF Slot
      <4> QED
        BY <3>1, <4>1, <4>2, <4>3 DEF Slot
    <3>4. /\ k3 \in Client /\ k3.st = "open" /\ k3.from = k.from /\ k3.to = d /\ k3.wrote = k.wrote
          /\ k3.sOpen = k.sOpen /\ k3.c2s = <<>> /\ k3.acks = k2.acks /\ k3.recv_len = 0
          /\ k3.sent_len = k2.sent_len /\ k3.s2c = IF mem THEN <<>> ELSE Write(<<>>, out, x)
      <4>1. CASE mem
        BY <1>8, <1>9, <2>2, <4>1
      <4>2. CASE ~mem
        <5> DEFINE w == Write(<<>>, out, x)
        <5>1. w \in Seq(Cell)
          <6>1. <<>> \in Seq(Cell)
            OBVIOUS
          <6> QED
            BY <3>0, <6>1, WriteCells
        <5>2. k3 = [k2 EXCEPT !.s2c = w]
          BY <1>8, <1>9, <3>1, <4>2
        <5> HIDE DEF w, k3
        <5> QED
          BY <1>8, <1>9, <2>2, <4>2, <5>1, <5>2 DEF Client, w
      <4> QED
        BY <4>1, <4>2
    <3> HIDE DEF s3, k3
    <3>5. Replying(k3, s3, a, out)
      <4>1. k3.sent_len + k3.acks = MsgLen /\ k3.acks > 0 /\ Whole(a)
        BY <1>9, <2>1, <3>4
      <4>2. \/ s3.send_size = HdrLen /\ out[0].size = HdrLen
            \/ s3.send_size = MsgLen /\ Whole(out)
        BY <2>5, <3>3
      <4>3. out \in [Pos -> Cell] /\ mem \in BOOLEAN
        OBVIOUS
      <4> QED
        BY ONLY <3>3, <3>4, <4>1, <4>2, <4>3, Answered
    <3>6. s3.send_size # 0 /\ k3.wrote /\ k3.sOpen
      BY <1>9, <3>0, <3>3, <3>4
    <3> QED
      BY <1>0, <1>1, <1>3, <2>5, <3>2, <3>3, <3>4, <3>5, <3>6, ServerBuffer DEF k, d, s, a
  <2>6. CASE Fresher(his, mine)
    <3>1. /\ mirror' = [mirror EXCEPT ![d] = doc]
          /\ Send(d, [got EXCEPT !.send_size = HdrLen], taken, k2, mem)
          /\ json_buffer' = [json_buffer EXCEPT ![d] = taken]
      BY <1>2, <2>1, <2>4, <2>6
    <3>2. taken \in [Pos -> Cell] /\ taken[0].size = HdrLen
      <4> DEFINE cell == [buf[0] EXCEPT !.size = HdrLen]
      <4>1. 0 \in Pos /\ HdrLen \in Nat
        BY Sizes
      <4>2. cell \in Cell /\ cell.size = HdrLen
        BY <1>6, <4>1 DEF Cell
      <4>3. taken = [buf EXCEPT ![0] = cell]
        OBVIOUS
      <4> HIDE DEF cell
      <4> QED
        BY <1>6, <4>1, <4>2, <4>3
    <3>3. doc.ver >= mirror[d].ver
      BY <1>10, <2>4, <2>6 DEF Fresher
    <3> HIDE DEF taken
    <3> QED
      BY <2>5, <3>1, <3>2, <3>3
  <2>7. CASE ~Fresher(his, mine)
    <3>1. /\ mirror' = [mirror EXCEPT ![d] = g]
          /\ Send(d, [got EXCEPT !.send_size = MsgLen], own, k2, mem)
          /\ json_buffer' = [json_buffer EXCEPT ![d] = own]
      BY <1>2, <2>1, <2>7 DEF MsgLen
    <3>2. own \in [Pos -> Cell] /\ Whole(own)
      BY <1>6, <1>10, PrintedWhole DEF Whole
    <3> HIDE DEF own
    <3> QED
      BY <1>10, <2>5, <3>1, <3>2
  <2> QED
    BY <2>6, <2>7
<1> QED
  BY <1>2, <1>11, <1>12

-----------------------------------------------------------------------------
(* All steps *)

\* The invariant holds at the start.
LEMMA InitInv ==
    ASSUME Init
    PROVE  Inv
<1>1. NoDoc \in Doc /\ <<>> \in Seq(Cell)
  BY DEF Doc, NoDoc
<1>2. Junk \in Cell
  BY <1>1, Sizes DEF Junk, Cell, Garbage
<1>3. NoServer \in Slot /\ NoServer.conn = NoConn /\ NoConn \notin Conn
  BY ConnAssumption DEF NoServer, Slot
<1>4. NoClient \in Client /\ NoClient.st = "free"
  BY <1>1 DEF NoClient, Client
<1>5. NoPage \in [part : Nat, shown : Seq(Cell)] /\ NoPage.part = 0 /\ NoPage.shown = <<>>
  BY <1>1 DEF NoPage
<1>6. TypeOK
  <2>1. mirror \in [Device -> Doc]
    BY DEF Init, Doc, DEFAULT_UPDATE_COUNT
  <2>2. json_buffer \in [Device -> [Pos -> Cell]]
    BY <1>2 DEF Init
  <2>3. main \in [Device -> [pc : {"sleep", "header", "open"}, last : Nat, todo : SUBSET Device]]
    BY DEF Init
  <2>4. server \in [Device -> Slot] /\ conn \in [Conn -> Client] /\ page \in [Device -> [part : Nat, shown : Seq(Cell)]]
    BY <1>3, <1>4, <1>5 DEF Init
  <2>5. \A c \in Conn : conn[c].st = "free"
    BY <1>4 DEF Init
  <2> QED
    BY <2>1, <2>2, <2>3, <2>4, <2>5 DEF TypeOK
<1>7. SlotInv
  BY <1>3 DEF Init, SlotInv
<1>8. \A d \in Device : MainInv(main[d], json_buffer[d])
  BY DEF Init, MainInv
<1>9. \A d \in Device : PageInv(page[d], json_buffer[d])
  <2>1. Len(NoPage.shown) = NoPage.part * ChunkLen /\ ~(NoPage.part > 0)
    BY <1>5, Sizes
  <2>2. \A d \in Device : page[d] = NoPage
    BY DEF Init
  <2> QED
    BY <2>1, <2>2 DEF PageInv
<1>10. \A c \in Conn : ConnOk(c)
  BY <1>4 DEF Init, ConnOk
<1> QED
  BY <1>6, <1>7, <1>8, <1>9, <1>10 DEF Init, Inv, Core

\* A step before the first overlap keeps the invariant, and no version goes back.
LEMMA NextStep ==
    ASSUME Core, Next, ~overlap'
    PROVE  Core' /\ NoOlder /\ (~cutPage => ~cutPage')
<1>1. ASSUME NEW d \in Device, MainLoop(d)
      PROVE  Core' /\ NoOlder /\ cutPage' = cutPage
  <2>1. ~overlap
    BY <1>1 DEF MainLoop, Running
  <2>2. CASE MainPrint(d)
    BY <2>1, <2>2, MainPrintStep DEF MainPrint
  <2>3. CASE MainHeader(d)
    BY <2>1, <2>3, MainHeaderStep DEF MainHeader
  <2>4. CASE MainAlone(d)
    BY <2>4, MainAloneStep DEF MainAlone
  <2>5. CASE \E b \in Buddy : tcp_client_json_init_open(d, b)
    BY <2>5, OpenStep DEF tcp_client_json_init_open
  <2> QED
    BY <1>1, <2>2, <2>3, <2>4, <2>5 DEF MainLoop
<1>2. ASSUME NEW d \in Device, User(d)
      PROVE  Core' /\ NoOlder /\ (~cutPage => ~cutPage')
  <2>1. ~overlap
    BY <1>2 DEF User, Running
  <2>2. CASE Edit(d)
    BY <2>2, EditStep DEF Edit
  <2>3. CASE ssi_json(d)
    BY <2>1, <2>3, PageStep
  <2> QED
    BY <1>2, <2>2, <2>3 DEF User
<1>3. ASSUME NEW c \in Conn, Deliver(c)
      PROVE  Core' /\ NoOlder /\ cutPage' = cutPage
  <2>1. ~overlap
    BY <1>3 DEF Deliver, Running
  <2>2. CASE \E mem \in BOOLEAN : json_client_connected(c, mem)
    BY <2>2, ConnectedStep DEF json_client_connected
  <2>3. CASE tcp_server_json_accept(c)
    BY <2>3, AcceptStep DEF tcp_server_json_accept
  <2>4. CASE \E n \in Segment, mem \in BOOLEAN : tcp_server_json_recv(c, n, mem)
    <3>1. PICK n \in Segment, mem \in BOOLEAN : tcp_server_json_recv(c, n, mem)
      BY <2>4
    <3>2. cutPage' = cutPage
      BY <3>1 DEF tcp_server_json_recv
    <3> QED
      BY <2>1, <3>1, <3>2, ServerRecvStep
  <2>5. CASE \E n \in Segment : tcp_client_json_recv(c, n)
    <3>1. PICK n \in Segment : tcp_client_json_recv(c, n)
      BY <2>5
    <3>2. cutPage' = cutPage
      BY <3>1 DEF tcp_client_json_recv
    <3> QED
      BY <2>1, <3>1, <3>2, ClientRecvStep
  <2>6. CASE ClientFin(c)
    BY <2>6, ClientFinStep DEF ClientFin
  <2>7. CASE ServerFin(c)
    BY <2>7, ServerFinStep DEF ServerFin
  <2> QED
    BY <1>3, <2>2, <2>3, <2>4, <2>5, <2>6, <2>7 DEF Deliver
<1>4. ASSUME NEW c \in Conn, Poll(c)
      PROVE  Core' /\ NoOlder /\ cutPage' = cutPage
  <2>1. PICK mem \in BOOLEAN : tcp_json_poll(c, mem) \/ tcp_server_poll(c, mem)
    BY <1>4 DEF Poll
  <2>2. CASE tcp_json_poll(c, mem)
    BY <2>2, ClientPollStep DEF tcp_json_poll
  <2>3. CASE tcp_server_poll(c, mem)
    BY <2>3, ServerPollStep DEF tcp_server_poll
  <2> QED
    BY <2>1, <2>2, <2>3
<1>5. ASSUME NEW c \in Conn, Network(c)
      PROVE  Core' /\ NoOlder /\ cutPage' = cutPage
  <2>1. ~overlap
    BY <1>5 DEF Network, Running
  <2>2. CASE tcp_client_json_sent(c)
    BY <2>1, <2>2, SentStep DEF tcp_client_json_sent
  <2>3. CASE Lose(c)
    BY <2>3, LoseStep DEF Lose
  <2> QED
    BY <1>5, <2>2, <2>3 DEF Network
<1> QED
  BY <1>1, <1>2, <1>3, <1>4, <1>5 DEF Next

\* A page is judged only when no uses have overlapped.
LEMMA NoCutAfterOverlap ==
    ASSUME Next, overlap', ~cutPage
    PROVE  ~cutPage'
<1>1. ASSUME NEW d \in Device, ssi_json(d)
      PROVE  ~cutPage'
  BY <1>1 DEF ssi_json
<1>2. ASSUME NEW d \in Device, MainLoop(d) \/ Edit(d)
      PROVE  cutPage' = cutPage
  BY <1>2 DEF MainLoop, MainPrint, MainHeader, MainAlone, tcp_client_json_init_open, Edit
<1>3. ASSUME NEW c \in Conn, Deliver(c)
      PROVE  cutPage' = cutPage
  BY <1>3 DEF Deliver, json_client_connected, tcp_server_json_accept, tcp_server_json_recv,
              tcp_client_json_recv, ClientFin, ServerFin
<1>4. ASSUME NEW c \in Conn, Poll(c) \/ Network(c)
      PROVE  cutPage' = cutPage
  BY <1>4 DEF Poll, tcp_json_poll, tcp_server_poll, Network, tcp_client_json_sent, Lose
<1> QED
  BY <1>1, <1>2, <1>3, <1>4 DEF Next, User

\* The invariant is inductive.
LEMMA InvInductive ==
    ASSUME Inv, [Next]_vars
    PROVE  Inv'
<1>1. CASE UNCHANGED vars
  BY <1>1 DEF vars, Inv, Core, TypeOK, SlotInv, ConnOk
<1>2. CASE Next /\ overlap'
  BY <1>2, NoCutAfterOverlap DEF Inv
<1>3. CASE Next /\ ~overlap'
  <2>1. ~overlap
    BY <1>3 DEF Next, MainLoop, User, Deliver, Poll, Network, Running
  <2> QED
    BY <1>3, <2>1, NextStep DEF Inv
<1> QED
  BY <1>1, <1>2, <1>3

\* A page that was served shows one text, whole, however httpd cuts it into parts
\* (ssi.c), as long as nothing else used json_buffer while it was served.
THEOREM PagesWhole == Spec => []PageWhole
<1>1. Init => Inv
  BY InitInv
<1>2. Inv /\ [Next]_vars => Inv'
  BY InvInductive
<1>3. Inv => PageWhole
  BY DEF Inv, PageWhole
<1> QED
  BY <1>1, <1>2, <1>3, PTL DEF Spec

\* No device goes back to an older json (tcp_server_json_check_freshness and
\* tcp_client_json_handle_reply), whatever the number of devices, the lengths of the
\* segments, lost connections and writes without memory, as long as no two uses of
\* a json_buffer overlap.
THEOREM VersionsOnlyGrow == Spec => NoRollback
<1>1. Init => Inv
  BY InitInv
<1>2. Inv /\ [Next]_vars => Inv'
  BY InvInductive
<1>3. Inv /\ [Next]_vars => [overlap' \/ NoOlder]_vars
  <2> SUFFICES ASSUME Inv, Next, ~overlap'
               PROVE  NoOlder
    OBVIOUS
  <2>1. ~overlap
    BY DEF Next, MainLoop, User, Deliver, Poll, Network, Running
  <2> QED
    BY <2>1, NextStep DEF Inv
<1>4. Spec => [][overlap' \/ NoOlder]_vars
  BY <1>1, <1>2, <1>3, PTL DEF Spec
<1> QED
  BY <1>4 DEF NoRollback, NoOlder
=============================================================================
