---------------------------- MODULE TcpTestProofs ----------------------------
(***************************************************************************)
(* The self test of TcpTest, for any size of the buffer, number of rounds, *)
(* slots and clients, and any way that lwIP cuts the data into segments    *)
(* and delays acknowledgements.                                            *)
(***************************************************************************)
EXTENDS TcpTest, SequenceTheorems, WellFoundedInduction, TLAPS

(* Numbers *)

\* Every set of natural numbers has a least element.
LEMMA LeastElement ==
    ASSUME NEW T, T \subseteq Nat, T # {}
    PROVE  \E x \in T : \A y \in T : x <= y
<1> DEFINE R == {p \in Nat \X Nat : p[1] < p[2]}
<1>1. IsWellFoundedOn(R, Nat)
  BY NatLessThanWellFounded DEF OpToRel
<1>2. PICK x \in T : \A y \in T : ~(<<y, x>> \in R)
  <2> HIDE DEF R
  <2> QED
    BY <1>1, WFMin
<1>3. \A y \in T : y < x => <<y, x>> \in R
  BY <1>2
<1>4. \A y \in T : ~(y < x)
  BY <1>2, <1>3
<1>5. \A y \in T : x <= y
  BY <1>4
<1> QED
  BY <1>5

-----------------------------------------------------------------------------
Piece == [piece : Int, ack : Int]
ClientState ==
    [st : {"free", "dns", "syn", "open", "stuck"}, status : Result, count : Int,
     recv_len : Int, sent_len : Int]
SlotState ==
    [client_pcb : Client \cup {NoPcb, DeadPcb}, status : Result, count : Int,
     recv_len : Int, sent_len : Int]
LinkState ==
    [s2c : Seq(Piece), c2s : Seq(Piece), toServer : Int, toClient : Int,
     sOpen : BOOLEAN, cOpen : BOOLEAN, lost : BOOLEAN]

TypeOK ==
    /\ slot \in [Slots -> SlotState]
    /\ client \in [Client -> ClientState]
    /\ link \in [Client -> LinkState]
    /\ r_buffer \in [Pos -> Int] /\ test1_buffer \in [Pos -> Int]
    /\ verified \in [Client -> Int]
    /\ disturbed \subseteq Client

\* Nothing of k is left, at either end.
Idle(k) == client[k].st = "free" /\ k \notin InUse

\* The pieces from the one after x, each with the same acknowledgement.
Pieces(q, x, ack) ==
    /\ q \in Seq(Piece) /\ Len(q) = TEST1_BUF_SIZE - x
    /\ \A j \in 1 .. Len(q) : q[j].piece = x + j /\ q[j].ack = ack

\* A buffer that holds the first x pieces of the round.
Holds(buffer, x) == \A j \in 1 .. x : buffer[j] = j

\* The server's buffer is on its way to the client c, of which x pieces have
\* arrived.  The client's last buffer is behind it, or (x = 0) the segments tell
\* it that all of that arrived.
Down(c, p, L, x, buffer) ==
    /\ x \in 0 .. TEST1_BUF_SIZE - 1
    /\ Len(L.c2s) = 0
    /\ p.sent_len + L.toServer = x /\ L.toServer >= 0
    /\ Holds(buffer, x)
    /\ \/ /\ c.count = p.count /\ c.recv_len = x /\ c.sent_len = 0
          /\ L.toClient = 0 /\ Pieces(L.s2c, x, 0)
       \/ /\ x = 0 /\ c.count = p.count - 1
          /\ c.sent_len + L.toClient = TEST1_BUF_SIZE /\ L.toClient > 0
          /\ Pieces(L.s2c, 0, L.toClient)

\* The client's buffer is on its way to the server's slot p, of which y pieces
\* have arrived.
Up(c, p, L, y, buffer) ==
    /\ y \in 0 .. TEST1_BUF_SIZE - 1
    /\ Len(L.s2c) = 0
    /\ c.sent_len + L.toClient = y /\ L.toClient >= 0 /\ c.count = p.count /\ c.recv_len = TEST1_BUF_SIZE
    /\ \/ /\ p.sent_len = TEST1_BUF_SIZE /\ p.recv_len = y /\ Holds(buffer, y)
          /\ L.toServer = 0 /\ Pieces(L.c2s, y, 0)
       \/ /\ y = 0
          /\ p.sent_len + L.toServer = TEST1_BUF_SIZE /\ L.toServer > 0
          /\ Pieces(L.c2s, 0, L.toServer)

\* The server is done; the client is still to be told that its last buffer came.
Over(c, L, v) ==
    /\ v = TEST_ITERATIONS
    /\ Len(L.s2c) = 0 /\ Len(L.c2s) = 0
    /\ c.count = TEST_ITERATIONS - 1
    /\ c.sent_len + L.toClient = TEST1_BUF_SIZE /\ L.toClient > 0

\* A connection that is not disturbed.
Opening(k) ==
    /\ client[k].st \in {"dns", "syn", "stuck"} /\ client[k].status = "ok"
    /\ client[k].count = 0 /\ client[k].recv_len = 0 /\ client[k].sent_len = 0
    /\ k \notin InUse
    /\ Len(link[k].s2c) = 0 /\ Len(link[k].c2s) = 0
    /\ link[k].toServer = 0 /\ link[k].toClient = 0
    /\ link[k].sOpen /\ link[k].cOpen /\ ~link[k].lost

Sound(c, L) == c.st = "open" /\ c.status = "ok" /\ L.cOpen /\ ~L.lost

Running(k, i) ==
    /\ slot[i].client_pcb = k /\ \A j \in Slots : slot[j].client_pcb = k => j = i
    /\ Sound(client[k], link[k]) /\ link[k].sOpen /\ slot[i].status = "ok"
    /\ verified[k] = slot[i].count /\ slot[i].count >= 0 /\ slot[i].count < TEST_ITERATIONS
    /\ \/ \E x \in Nat : Down(client[k], slot[i], link[k], x, test1_buffer)
       \/ \E y \in Nat : Up(client[k], slot[i], link[k], y, r_buffer)

Ending(k) ==
    /\ k \notin InUse /\ Sound(client[k], link[k]) /\ Over(client[k], link[k], verified[k])

GoesWell(k) == Idle(k) \/ Opening(k) \/ (\E i \in Slots : Running(k, i)) \/ Ending(k)

Inv ==
    /\ TypeOK
    /\ wrong = {}
    /\ \A k \in Client \ disturbed : GoesWell(k)
    /\ \A k \in Client \ disturbed : ~Idle(k) => \A j \in Client \ {k} : Idle(j)

-----------------------------------------------------------------------------
(* Sequences of pieces, buffers and the records of the two ends *)

\* The sizes.
LEMMA Sizes ==
    /\ TEST1_BUF_SIZE \in Nat /\ TEST1_BUF_SIZE >= 1
    /\ TEST_ITERATIONS \in Nat /\ TEST_ITERATIONS >= 1
    /\ Pos = 1 .. TEST1_BUF_SIZE
  BY SizeAssumption DEF Pos

\* The smaller and the larger of two numbers.
LEMMA OfTwo ==
    ASSUME NEW x \in Int, NEW y \in Int
    PROVE  /\ Min({x, y}) = IF x <= y THEN x ELSE y
           /\ Max({x, y}) = IF x >= y THEN x ELSE y
  BY DEF Min, Max

\* What Rest leaves of an acknowledgement is a number, and nothing of none.
LEMMA MaxZero ==
    ASSUME NEW x \in Int
    PROVE  Max({0, x}) \in Int /\ (x = 0 => Max({0, x}) = 0)
<1>1. Max({0, x}) = IF 0 >= x THEN 0 ELSE x
  BY OfTwo
<1> QED
  BY <1>1

\* A function on the first n numbers is a sequence.
LEMMA TableIsSeq ==
    ASSUME NEW T, NEW n \in Nat, NEW f, f = [i \in 1 .. n |-> f[i]], \A i \in 1 .. n : f[i] \in T
    PROVE  f \in Seq(T) /\ Len(f) = n
<1>1. f \in [1 .. n -> T]
  BY Zenon
<1>2. f \in Seq(T)
  BY <1>1, SeqDef
<1>3. DOMAIN f = 1 .. n
  BY <1>1
<1> QED
  BY <1>2, <1>3, LenProperties

\* What is left of a queue.
LEMMA RestFacts ==
    ASSUME NEW q \in Seq(Piece), NEW n \in Nat, n <= Len(q), NEW m \in Int
    PROVE  /\ Rest(q, n, m) \in Seq(Piece) /\ Len(Rest(q, n, m)) = Len(q) - n
           /\ \A j \in 1 .. Len(q) - n : /\ Rest(q, n, m)[j].piece = q[j + n].piece
                                         /\ Rest(q, n, m)[j].ack = Max({0, q[j + n].ack - m})
<1> DEFINE f == [i \in 1 .. Len(q) - n |-> [q[i + n] EXCEPT !.ack = Max({0, q[i + n].ack - m})]]
<1>1. Rest(q, n, m) = f
  BY DEF Rest
<1>2. ASSUME NEW j \in 1 .. Len(q) - n
      PROVE  /\ f[j] \in Piece /\ f[j].piece = q[j + n].piece
             /\ f[j].ack = Max({0, q[j + n].ack - m})
  <2>1. j + n \in 1 .. Len(q)
    OBVIOUS
  <2>2. q[j + n] \in Piece
    BY <2>1, ElementOfSeq
  <2>3. Max({0, q[j + n].ack - m}) \in Int
    <3>1. q[j + n].ack - m \in Int
      <4>1. PICK e \in Piece : e = q[j + n]
        BY <2>2
      <4>2. e.ack \in Int
        BY ONLY e \in Piece DEF Piece
      <4> QED
        BY ONLY <4>1, <4>2, m \in Int
    <3> QED
      BY ONLY <3>1, MaxZero
  <2> QED
    BY <2>2, <2>3 DEF Piece
<1>3. Len(q) - n \in Nat
  OBVIOUS
<1> HIDE DEF f
<1>4. f = [i \in 1 .. Len(q) - n |-> f[i]]
  BY DEF f
<1>5. f \in Seq(Piece) /\ Len(f) = Len(q) - n
  BY ONLY <1>2, <1>3, <1>4, TableIsSeq
<1> QED
  BY <1>1, <1>2, <1>5

\* The pieces of a round, after n more have arrived with word of all.
LEMMA PiecesRest ==
    ASSUME NEW q, NEW x \in Nat, NEW a \in Nat, Pieces(q, x, a), NEW n \in Nat, n <= Len(q)
    PROVE  Pieces(Rest(q, n, a), x + n, 0)
<1>1. q \in Seq(Piece) /\ Len(q) = TEST1_BUF_SIZE - x /\ Len(q) \in Nat
  BY DEF Pieces
<1>2. /\ Rest(q, n, a) \in Seq(Piece) /\ Len(Rest(q, n, a)) = Len(q) - n
      /\ \A j \in 1 .. Len(q) - n : /\ Rest(q, n, a)[j].piece = q[j + n].piece
                                    /\ Rest(q, n, a)[j].ack = Max({0, q[j + n].ack - a})
  <2>1. n \in Nat /\ n <= Len(q) /\ a \in Int
    OBVIOUS
  <2> QED
    BY ONLY <1>1, <2>1, RestFacts
<1>3. ASSUME NEW j \in 1 .. Len(q) - n
      PROVE  Rest(q, n, a)[j].piece = (x + n) + j /\ Rest(q, n, a)[j].ack = 0
  <2>1. j + n \in 1 .. Len(q)
    BY <1>1
  <2>2. q[j + n].piece = x + (j + n) /\ q[j + n].ack = a
    BY <2>1 DEF Pieces
  <2>3. a - a = 0 /\ Max({0, 0}) = 0 /\ x + (j + n) = (x + n) + j
    BY MaxZero
  <2> QED
    BY <1>2, <2>2, <2>3
<1>4. Len(q) - n = TEST1_BUF_SIZE - (x + n)
  BY <1>1, Sizes
<1> QED
  BY <1>2, <1>3, <1>4 DEF Pieces

\* A queue whose data is older than the last fill.
LEMMA AgedFacts ==
    ASSUME NEW q \in Seq(Piece)
    PROVE  Aged(q) \in Seq(Piece) /\ Len(Aged(q)) = Len(q)
<1> DEFINE f == [i \in DOMAIN q |-> [q[i] EXCEPT !.piece = Old]]
<1>1. \A i \in 1 .. Len(q) : f[i] \in Piece
  <2> TAKE i \in 1 .. Len(q)
  <2>1. q[i] \in Piece
    BY ElementOfSeq
  <2> QED
    BY <2>1 DEF Piece, Old
<1>2. f = [i \in 1 .. Len(q) |-> f[i]] /\ Len(q) \in Nat
  OBVIOUS
<1> HIDE DEF f
<1>3. f \in Seq(Piece) /\ Len(f) = Len(q)
  BY ONLY <1>1, <1>2, TableIsSeq
<1> QED
  BY <1>3 DEF Aged, f

\* A queue after a write; a write of the round's buffer to an empty one.
LEMMA WrittenFacts ==
    ASSUME NEW q \in Seq(Piece), NEW pieces \in [Pos -> Int], NEW a \in Int
    PROVE  /\ Written(q, pieces, a) \in Seq(Piece)
           /\ Len(q) = 0 /\ Holds(pieces, TEST1_BUF_SIZE) => Pieces(Written(q, pieces, a), 0, a)
<1> DEFINE f == [i \in Pos |-> [piece |-> pieces[i], ack |-> a]]
<1>1. \A i \in 1 .. TEST1_BUF_SIZE : f[i] \in Piece /\ f[i].piece = pieces[i] /\ f[i].ack = a
  BY Sizes DEF Piece
<1>2. f = [i \in 1 .. TEST1_BUF_SIZE |-> f[i]]
  BY Sizes
<1> HIDE DEF f
<1>3. f \in Seq(Piece) /\ Len(f) = TEST1_BUF_SIZE
  BY ONLY <1>1, <1>2, Sizes, TableIsSeq
<1>4. Written(q, pieces, a) = q \o f
  BY DEF Written, f
<1>5. q \o f \in Seq(Piece)
  BY <1>3, ConcatProperties
<1>6. ASSUME Len(q) = 0, Holds(pieces, TEST1_BUF_SIZE)
      PROVE  Pieces(q \o f, 0, a)
  <2>1. Len(q \o f) = TEST1_BUF_SIZE
    BY <1>3, <1>6, Sizes, ConcatProperties
  <2>2. \A j \in 1 .. TEST1_BUF_SIZE : (q \o f)[j] = f[j]
    BY <1>3, <1>6, Sizes, ConcatProperties
  <2>3. \A j \in 1 .. TEST1_BUF_SIZE : f[j].piece = 0 + j /\ f[j].ack = a
    BY <1>1, <1>6 DEF Holds
  <2> QED
    <3>1. Len(q \o f) = TEST1_BUF_SIZE - 0
      BY <2>1, Sizes
    <3>2. \A j \in 1 .. Len(q \o f) : (q \o f)[j].piece = 0 + j /\ (q \o f)[j].ack = a
      BY ONLY <2>1, <2>2, <2>3
    <3> QED
      BY ONLY <1>5, <3>1, <3>2 DEF Pieces
<1> QED
  BY <1>4, <1>5, <1>6

\* What the server fills in is the round's buffer.
LEMMA FilledFacts ==
    ASSUME NEW q \in Seq(Piece), NEW a \in Int
    PROVE  Filled(q, a) \in Seq(Piece) /\ (Len(q) = 0 => Pieces(Filled(q, a), 0, a))
<1> DEFINE f == [i \in Pos |-> i]
<1>1. f \in [Pos -> Int] /\ Holds(f, TEST1_BUF_SIZE)
  BY Sizes DEF Holds
<1> HIDE DEF f
<1>2. Filled(q, a) = Written(q, f, a)
  BY DEF Filled, f
<1> QED
  BY <1>1, <1>2, WrittenFacts

\* A buffer after a segment, and how much it holds.
LEMMA ReceivedFacts ==
    ASSUME NEW buffer \in [Pos -> Int], NEW len \in Int, NEW pieces \in Seq(Int)
    PROVE  /\ Received(buffer, len, pieces) \in [Pos -> Int]
           /\ NewLen(len, pieces) \in Int
           /\ \A x \in Nat : /\ len = x /\ x + Len(pieces) <= TEST1_BUF_SIZE /\ Holds(buffer, x)
                             /\ \A j \in 1 .. Len(pieces) : pieces[j] = x + j
                             => /\ NewLen(len, pieces) = x + Len(pieces)
                                /\ Holds(Received(buffer, len, pieces), x + Len(pieces))
<1>1. \A i \in Pos : Received(buffer, len, pieces)[i] =
                        IF i \in len + 1 .. len + Len(pieces) THEN pieces[i - len] ELSE buffer[i]
  BY DEF Received
<1>2. Len(pieces) \in Nat
  OBVIOUS
<1>3. \A i \in Pos : i \in len + 1 .. len + Len(pieces) => i - len \in 1 .. Len(pieces)
  BY <1>2, Sizes
<1>4. Received(buffer, len, pieces) \in [Pos -> Int]
  <2>1. \A i \in Pos : i \in len + 1 .. len + Len(pieces) => pieces[i - len] \in Int
    BY <1>3, ElementOfSeq
  <2> QED
    BY <2>1 DEF Received
<1>5. NewLen(len, pieces) = IF TEST1_BUF_SIZE <= len + Len(pieces) THEN TEST1_BUF_SIZE
                            ELSE len + Len(pieces)
  BY <1>2, Sizes, OfTwo DEF NewLen
<1>6. ASSUME NEW x \in Nat, len = x, x + Len(pieces) <= TEST1_BUF_SIZE, Holds(buffer, x),
             \A j \in 1 .. Len(pieces) : pieces[j] = x + j
      PROVE  /\ NewLen(len, pieces) = x + Len(pieces)
             /\ Holds(Received(buffer, len, pieces), x + Len(pieces))
  <2>1. ASSUME NEW i \in 1 .. x + Len(pieces)
        PROVE  Received(buffer, len, pieces)[i] = i
    <3>1. i \in Pos
      BY <1>2, <1>6, Sizes
    <3>2. CASE i \in len + 1 .. len + Len(pieces)
      <4>1. pieces[i - len] = x + (i - len) /\ x + (i - len) = i
        <5>1. i - len \in 1 .. Len(pieces) /\ i \in Int
          BY <1>3, <3>1, <3>2, Sizes
        <5>2. pieces[i - len] = x + (i - len) /\ x + (i - len) = i
          BY ONLY <1>6, <5>1
        <5> QED
          BY <5>2
      <4> QED
        BY <1>1, <3>1, <3>2, <4>1
    <3>3. CASE ~(i \in len + 1 .. len + Len(pieces))
      <4>1. i \in 1 .. x
        BY <1>2, <1>6, <3>3
      <4> QED
        BY <1>1, <1>6, <3>1, <3>3, <4>1 DEF Holds
    <3> QED
      BY <3>2, <3>3
  <2>2. NewLen(len, pieces) = x + Len(pieces)
    BY <1>2, <1>5, <1>6, Sizes
  <2> QED
    BY <2>1, <2>2 DEF Holds
<1> QED
  BY <1>2, <1>4, <1>5, <1>6, Sizes

\* The records keep their shape.
LEMMA SentTypes ==
    ASSUME NEW p \in SlotState, NEW c \in ClientState, NEW len \in Int
    PROVE  /\ tcp_server_sent(p, len) \in SlotState
           /\ tcp_server_sent(p, len).client_pcb = p.client_pcb
           /\ tcp_server_sent(p, len).status = p.status
           /\ tcp_server_sent(p, len).count = p.count
           /\ tcp_server_sent(p, len).sent_len = p.sent_len + len
           /\ tcp_server_sent(p, len).recv_len =
                IF p.sent_len + len >= TEST1_BUF_SIZE THEN 0 ELSE p.recv_len
           /\ tcp_client_sent(c, len) \in ClientState
           /\ tcp_client_sent(c, len).st = c.st /\ tcp_client_sent(c, len).status = c.status
           /\ IF c.sent_len + len >= TEST1_BUF_SIZE
              THEN /\ tcp_client_sent(c, len).sent_len = 0 /\ tcp_client_sent(c, len).recv_len = 0
                   /\ tcp_client_sent(c, len).count = c.count + 1
              ELSE /\ tcp_client_sent(c, len).sent_len = c.sent_len + len
                   /\ tcp_client_sent(c, len).recv_len = c.recv_len
                   /\ tcp_client_sent(c, len).count = c.count
<1>1. TEST1_BUF_SIZE \in Int
  BY Sizes
<1>2. /\ tcp_server_sent(p, len) \in SlotState
      /\ tcp_server_sent(p, len).client_pcb = p.client_pcb
      /\ tcp_server_sent(p, len).status = p.status
      /\ tcp_server_sent(p, len).count = p.count
      /\ tcp_server_sent(p, len).sent_len = p.sent_len + len
      /\ tcp_server_sent(p, len).recv_len =
           IF p.sent_len + len >= TEST1_BUF_SIZE THEN 0 ELSE p.recv_len
  <2> DEFINE r == IF p.sent_len + len >= TEST1_BUF_SIZE THEN 0 ELSE p.recv_len
  <2>1. r \in Int /\ p.sent_len + len \in Int
    BY DEF SlotState
  <2>2. tcp_server_sent(p, len) = [p EXCEPT !.sent_len = p.sent_len + len, !.recv_len = r]
    BY DEF tcp_server_sent
  <2> HIDE DEF r
  <2>3. /\ tcp_server_sent(p, len) \in SlotState
        /\ tcp_server_sent(p, len).client_pcb = p.client_pcb
        /\ tcp_server_sent(p, len).status = p.status
        /\ tcp_server_sent(p, len).count = p.count
        /\ tcp_server_sent(p, len).sent_len = p.sent_len + len
        /\ tcp_server_sent(p, len).recv_len = r
    BY <2>1, <2>2 DEF SlotState
  <2> QED
    BY <2>3 DEF r
<1> DEFINE d == tcp_client_sent(c, len)
<1>3. c.count + 1 \in Int /\ c.sent_len + len \in Int
  BY DEF ClientState
<1>4. /\ d \in ClientState /\ d.st = c.st /\ d.status = c.status
      /\ IF c.sent_len + len >= TEST1_BUF_SIZE
         THEN d.sent_len = 0 /\ d.recv_len = 0 /\ d.count = c.count + 1
         ELSE d.sent_len = c.sent_len + len /\ d.recv_len = c.recv_len /\ d.count = c.count
  <2>1. CASE c.sent_len + len >= TEST1_BUF_SIZE
    <3>1. d = [c EXCEPT !.sent_len = 0, !.recv_len = 0, !.count = c.count + 1]
      BY <2>1 DEF tcp_client_sent
    <3> HIDE DEF d
    <3>2. d \in ClientState
      <4>1. PICK zero \in Int : zero = 0
        OBVIOUS
      <4>2. d = [c EXCEPT !.sent_len = zero, !.recv_len = zero, !.count = c.count + 1]
        BY ONLY <3>1, <4>1
      <4> QED
        BY ONLY <1>3, <4>2, zero \in Int, c \in ClientState DEF ClientState
    <3>3. d.st = c.st /\ d.status = c.status /\ d.sent_len = 0 /\ d.recv_len = 0 /\ d.count = c.count + 1
      BY ONLY <3>1, c \in ClientState DEF ClientState
    <3> QED
      BY ONLY <2>1, <3>2, <3>3
  <2>2. CASE ~(c.sent_len + len >= TEST1_BUF_SIZE)
    <3>1. d = [c EXCEPT !.sent_len = c.sent_len + len]
      BY <2>2 DEF tcp_client_sent
    <3> HIDE DEF d
    <3> QED
      BY <1>3, <2>2, <3>1 DEF ClientState
  <2> QED
    BY <2>1, <2>2
<1> QED
  BY <1>2, <1>4

\* A link keeps its shape when data arrives, and changes as the segment says.
LEMMA LinkTypes ==
    ASSUME NEW L \in LinkState, NEW n \in Nat, NEW m \in Int
    PROVE  /\ n <= Len(L.c2s) =>
                /\ FromClient(L, n, m) \in LinkState
                /\ FromClient(L, n, m).c2s = Rest(L.c2s, n, m)
                /\ FromClient(L, n, m).toClient = L.toClient + n
                /\ FromClient(L, n, m).toServer = L.toServer - m
                /\ FromClient(L, n, m).s2c = L.s2c /\ FromClient(L, n, m).sOpen = L.sOpen
                /\ FromClient(L, n, m).cOpen = L.cOpen /\ FromClient(L, n, m).lost = L.lost
           /\ n <= Len(L.s2c) =>
                /\ FromServer(L, n, m) \in LinkState
                /\ FromServer(L, n, m).s2c = Rest(L.s2c, n, m)
                /\ FromServer(L, n, m).toServer = L.toServer + n
                /\ FromServer(L, n, m).toClient = L.toClient - m
                /\ FromServer(L, n, m).c2s = L.c2s /\ FromServer(L, n, m).sOpen = L.sOpen
                /\ FromServer(L, n, m).cOpen = L.cOpen /\ FromServer(L, n, m).lost = L.lost
<1>1. L.s2c \in Seq(Piece) /\ L.c2s \in Seq(Piece)
  BY DEF LinkState
<1>2. ASSUME n <= Len(L.c2s)
      PROVE  Rest(L.c2s, n, m) \in Seq(Piece)
  BY ONLY <1>1, <1>2, n \in Nat, m \in Int, RestFacts
<1>3. ASSUME n <= Len(L.s2c)
      PROVE  Rest(L.s2c, n, m) \in Seq(Piece)
  BY ONLY <1>1, <1>3, n \in Nat, m \in Int, RestFacts
<1>4. ASSUME n <= Len(L.c2s)
      PROVE  /\ FromClient(L, n, m) \in LinkState
             /\ FromClient(L, n, m).c2s = Rest(L.c2s, n, m)
             /\ FromClient(L, n, m).toClient = L.toClient + n
             /\ FromClient(L, n, m).toServer = L.toServer - m
             /\ FromClient(L, n, m).s2c = L.s2c /\ FromClient(L, n, m).sOpen = L.sOpen
             /\ FromClient(L, n, m).cOpen = L.cOpen /\ FromClient(L, n, m).lost = L.lost
  <2> DEFINE R == Rest(L.c2s, n, m)
             K == FromClient(L, n, m)
  <2>1. K = [L EXCEPT !.c2s = R, !.toClient = L.toClient + n, !.toServer = L.toServer - m] /\ R \in Seq(Piece)
    BY <1>2, <1>4 DEF FromClient
  <2>2. L.toClient + n \in Int /\ L.toServer - m \in Int /\ L \in LinkState
    BY DEF LinkState
  <2> HIDE DEF K, R
  <2>3. K \in LinkState
    BY ONLY <2>1, <2>2 DEF LinkState
  <2>4. /\ K.c2s = R /\ K.toClient = L.toClient + n /\ K.toServer = L.toServer - m
        /\ K.s2c = L.s2c
        /\ K.sOpen = L.sOpen /\ K.cOpen = L.cOpen /\ K.lost = L.lost
    BY ONLY <2>1, <2>2 DEF LinkState
  <2> QED
    BY ONLY <2>3, <2>4 DEF K, R
<1>5. ASSUME n <= Len(L.s2c)
      PROVE  /\ FromServer(L, n, m) \in LinkState
             /\ FromServer(L, n, m).s2c = Rest(L.s2c, n, m)
             /\ FromServer(L, n, m).toServer = L.toServer + n
             /\ FromServer(L, n, m).toClient = L.toClient - m
             /\ FromServer(L, n, m).c2s = L.c2s /\ FromServer(L, n, m).sOpen = L.sOpen
             /\ FromServer(L, n, m).cOpen = L.cOpen /\ FromServer(L, n, m).lost = L.lost
  <2> DEFINE R == Rest(L.s2c, n, m)
             K == FromServer(L, n, m)
  <2>1. K = [L EXCEPT !.s2c = R, !.toServer = L.toServer + n, !.toClient = L.toClient - m] /\ R \in Seq(Piece)
    BY <1>3, <1>5 DEF FromServer
  <2>2. L.toServer + n \in Int /\ L.toClient - m \in Int /\ L \in LinkState
    BY DEF LinkState
  <2> HIDE DEF K, R
  <2>3. K \in LinkState
    BY ONLY <2>1, <2>2 DEF LinkState
  <2>4. /\ K.s2c = R /\ K.toServer = L.toServer + n /\ K.toClient = L.toClient - m
        /\ K.c2s = L.c2s
        /\ K.sOpen = L.sOpen /\ K.cOpen = L.cOpen /\ K.lost = L.lost
    BY ONLY <2>1, <2>2 DEF LinkState
  <2> QED
    BY ONLY <2>3, <2>4 DEF K, R
<1> QED
  BY ONLY <1>4, <1>5

-----------------------------------------------------------------------------
(* The exchange, seen from the records of one connection *)

\* What the first n pieces of a round are.
First(q, n) == [j \in 1 .. n |-> q[j].piece]

\* Every piece of a round carries the acknowledgement its segment was written with.
LEMMA ArrivedAck ==
    ASSUME NEW q, NEW x \in Nat, NEW a, Pieces(q, x, a), NEW n \in Pos, n <= Len(q)
    PROVE  q[n].ack = a
<1>1. n \in 1 .. Len(q)
  BY Sizes DEF Pieces
<1> QED
  BY <1>1 DEF Pieces

\* The first pieces of a round are the next positions of the buffer, and fit in it.
LEMMA Arrived ==
    ASSUME NEW q, NEW x \in Nat, NEW a \in Int, Pieces(q, x, a), NEW n \in Pos, n <= Len(q)
    PROVE  /\ First(q, n) \in Seq(Int) /\ Len(First(q, n)) = n
           /\ \A j \in 1 .. Len(First(q, n)) : First(q, n)[j] = x + j
           /\ x + n <= TEST1_BUF_SIZE
<1> DEFINE pieces == First(q, n)
<1>1. n \in Nat /\ n >= 1 /\ n \in 1 .. Len(q) /\ Len(q) \in Nat
  BY Sizes DEF Pieces
<1>2. \A j \in 1 .. n : pieces[j] = x + j /\ pieces[j] \in Int
  BY <1>1 DEF Pieces, First
<1>3. pieces = [j \in 1 .. n |-> pieces[j]]
  BY DEF First
<1> HIDE DEF pieces
<1>4. pieces \in Seq(Int) /\ Len(pieces) = n
  BY ONLY <1>1, <1>2, <1>3, TableIsSeq
<1>5. x + n <= TEST1_BUF_SIZE
  BY <1>1, Sizes DEF Pieces
<1> QED
  BY <1>1, <1>2, <1>4, <1>5 DEF pieces

\* Data reaches the client.
LEMMA ClientGets ==
    ASSUME NEW c \in ClientState, NEW p \in SlotState, NEW L \in LinkState,
           NEW buffer \in [Pos -> Int], NEW x \in Nat, Down(c, p, L, x, buffer),
           NEW n \in Pos, n <= Len(L.s2c),
           NEW m, m = L.s2c[n].ack,
           NEW e, m > 0 => e = tcp_client_sent(c, m), ~(m > 0) => e = c,
           NEW pieces, pieces = First(L.s2c, n),
           NEW got, got = Received(buffer, e.recv_len, pieces),
           NEW K, K = FromServer(L, n, m)
    PROVE  /\ e.count = p.count /\ x + n <= TEST1_BUF_SIZE
           /\ e.st = c.st /\ e.status = c.status /\ e.sent_len = 0
           /\ NewLen(e.recv_len, pieces) = x + n
           /\ K.toClient = 0 /\ Pieces(K.s2c, x + n, 0) /\ Len(K.c2s) = 0
           /\ p.sent_len + K.toServer = x + n /\ K.toServer > 0
           /\ Holds(got, x + n)
<1>0. /\ n \in Nat /\ n >= 1 /\ L.s2c \in Seq(Piece) /\ L.toServer \in Int /\ L.toClient \in Int
      /\ c.sent_len \in Int /\ c.count \in Int /\ p.count \in Int /\ p.sent_len \in Int
  BY Sizes DEF LinkState, ClientState, SlotState
<1>1. x <= TEST1_BUF_SIZE - 1 /\ Len(L.c2s) = 0 /\ p.sent_len + L.toServer = x /\ L.toServer >= 0
      /\ Holds(buffer, x)
  BY Sizes DEF Down
<1>2. /\ e \in ClientState /\ e.st = c.st /\ e.status = c.status
      /\ e.count = p.count /\ e.recv_len = x /\ e.sent_len = 0
      /\ m = L.toClient /\ m \in Nat /\ Pieces(L.s2c, x, m)
  <2>1. CASE /\ c.count = p.count /\ c.recv_len = x /\ c.sent_len = 0
             /\ L.toClient = 0 /\ Pieces(L.s2c, x, 0)
    <3>1. m = 0
      BY ONLY <2>1, x \in Nat, n \in Pos, n <= Len(L.s2c), m = L.s2c[n].ack, ArrivedAck
    <3>2. e = c
      BY <3>1
    <3> QED
      BY <2>1, <3>1, <3>2
  <2>2. CASE /\ x = 0 /\ c.count = p.count - 1
             /\ c.sent_len + L.toClient = TEST1_BUF_SIZE /\ L.toClient > 0
             /\ Pieces(L.s2c, 0, L.toClient)
    <3>1. m = L.toClient
      BY ONLY <1>0, <2>2, x \in Nat, n \in Pos, n <= Len(L.s2c), m = L.s2c[n].ack, ArrivedAck
    <3>2. e = tcp_client_sent(c, m) /\ m \in Int /\ c.sent_len + m >= TEST1_BUF_SIZE
      BY <1>0, <2>2, <3>1, Sizes
    <3>3. /\ e \in ClientState /\ e.st = c.st /\ e.status = c.status
          /\ e.sent_len = 0 /\ e.recv_len = 0 /\ e.count = c.count + 1
      BY ONLY <3>2, c \in ClientState, p \in SlotState, SentTypes
    <3> QED
      BY <1>0, <2>2, <3>1, <3>3
  <2> QED
    BY <2>1, <2>2 DEF Down
<1>3. /\ pieces \in Seq(Int) /\ Len(pieces) = n /\ \A j \in 1 .. Len(pieces) : pieces[j] = x + j
      /\ x + n <= TEST1_BUF_SIZE
  <2>1. x \in Nat /\ m \in Int /\ n \in Pos /\ n <= Len(L.s2c) /\ Pieces(L.s2c, x, m)
    BY <1>2
  <2>2. pieces = First(L.s2c, n)
    OBVIOUS
  <2> QED
    BY ONLY <2>1, <2>2, Arrived
<1>4. NewLen(x, pieces) = x + n /\ Holds(got, x + n)
  <2>1. /\ x \in Nat /\ x \in Int /\ buffer \in [Pos -> Int] /\ Holds(buffer, x)
        /\ got = Received(buffer, x, pieces)
    BY <1>1, <1>2
  <2>2. x + Len(pieces) = x + n /\ x + Len(pieces) <= TEST1_BUF_SIZE
    BY <1>3
  <2> QED
    BY ONLY <1>3, <2>1, <2>2, ReceivedFacts
<1>5. NewLen(e.recv_len, pieces) = x + n
  BY <1>2, <1>4
<1>6. /\ K.s2c = Rest(L.s2c, n, m) /\ K.toServer = L.toServer + n /\ K.toClient = L.toClient - m
      /\ K.c2s = L.c2s
  <2>1. n <= Len(L.s2c) /\ K = FromServer(L, n, m) /\ L \in LinkState /\ n \in Nat /\ m \in Int
    BY <1>0, <1>2
  <2> QED
    BY ONLY <2>1, LinkTypes
<1>7. Pieces(K.s2c, x + n, 0)
  <2>1. x \in Nat /\ n <= Len(L.s2c)
    OBVIOUS
  <2> QED
    BY ONLY <1>0, <1>2, <1>6, <2>1, PiecesRest
<1>8. /\ p.sent_len + K.toServer = x + n /\ K.toServer > 0 /\ K.toClient = 0 /\ Len(K.c2s) = 0
  <2>1. /\ K.toServer = L.toServer + n /\ K.toClient = L.toClient - m /\ m = L.toClient /\ m \in Int
        /\ n \in Nat /\ n >= 1 /\ L.toServer \in Int /\ L.toServer >= 0 /\ p.sent_len \in Int /\ x \in Nat
        /\ p.sent_len + L.toServer = x /\ Len(L.c2s) = 0 /\ K.c2s = L.c2s
    BY <1>0, <1>1, <1>2, <1>6
  <2> QED
    BY ONLY <2>1
<1> QED
  BY <1>2, <1>3, <1>4, <1>5, <1>7, <1>8

\* Data reaches the server.
LEMMA ServerGets ==
    ASSUME NEW c \in ClientState, NEW p \in SlotState, NEW L \in LinkState,
           NEW buffer \in [Pos -> Int], NEW y \in Nat, Up(c, p, L, y, buffer),
           NEW n \in Pos, n <= Len(L.c2s),
           NEW m, m = L.c2s[n].ack,
           NEW e, m > 0 => e = tcp_server_sent(p, m), ~(m > 0) => e = p,
           NEW pieces, pieces = First(L.c2s, n),
           NEW got, got = Received(buffer, e.recv_len, pieces),
           NEW K, K = FromClient(L, n, m)
    PROVE  /\ y + n <= TEST1_BUF_SIZE
           /\ e.status = p.status /\ e.client_pcb = p.client_pcb
           /\ e.count = p.count /\ e.sent_len = TEST1_BUF_SIZE
           /\ NewLen(e.recv_len, pieces) = y + n
           /\ K.toServer = 0 /\ Pieces(K.c2s, y + n, 0) /\ Len(K.s2c) = 0
           /\ c.sent_len + K.toClient = y + n /\ K.toClient > 0
           /\ Holds(got, y + n)
<1>0. /\ n \in Nat /\ n >= 1 /\ L.c2s \in Seq(Piece) /\ L.toServer \in Int /\ L.toClient \in Int
      /\ c.sent_len \in Int /\ c.count \in Int /\ p.count \in Int /\ p.sent_len \in Int
  BY Sizes DEF LinkState, ClientState, SlotState
<1>1. y <= TEST1_BUF_SIZE - 1 /\ Len(L.s2c) = 0 /\ c.sent_len + L.toClient = y /\ L.toClient >= 0
  BY Sizes DEF Up
<1>2. /\ e \in SlotState /\ e.client_pcb = p.client_pcb /\ e.status = p.status
      /\ e.count = p.count /\ e.recv_len = y /\ e.sent_len = TEST1_BUF_SIZE
      /\ m = L.toServer /\ m \in Nat /\ Pieces(L.c2s, y, m) /\ Holds(buffer, y)
  <2>1. CASE /\ p.sent_len = TEST1_BUF_SIZE /\ p.recv_len = y /\ Holds(buffer, y)
             /\ L.toServer = 0 /\ Pieces(L.c2s, y, 0)
    <3>1. m = 0
      BY ONLY <2>1, y \in Nat, n \in Pos, n <= Len(L.c2s), m = L.c2s[n].ack, ArrivedAck
    <3>2. e = p
      BY <3>1
    <3> QED
      BY <2>1, <3>1, <3>2
  <2>2. CASE /\ y = 0
             /\ p.sent_len + L.toServer = TEST1_BUF_SIZE /\ L.toServer > 0
             /\ Pieces(L.c2s, 0, L.toServer)
    <3>1. m = L.toServer
      BY ONLY <1>0, <2>2, y \in Nat, n \in Pos, n <= Len(L.c2s), m = L.c2s[n].ack, ArrivedAck
    <3>2. e = tcp_server_sent(p, m) /\ m \in Int /\ p.sent_len + m = TEST1_BUF_SIZE
      BY <1>0, <2>2, <3>1, Sizes
    <3>3. /\ e \in SlotState /\ e.client_pcb = p.client_pcb /\ e.status = p.status
          /\ e.sent_len = TEST1_BUF_SIZE /\ e.recv_len = 0 /\ e.count = p.count
      <4>1. p \in SlotState /\ c \in ClientState /\ TEST1_BUF_SIZE \in Int
        BY Sizes
      <4> QED
        BY ONLY <3>2, <4>1, SentTypes
    <3>4. Holds(buffer, 0)
      BY DEF Holds
    <3> QED
      BY <1>0, <2>2, <3>1, <3>3, <3>4
  <2> QED
    BY <2>1, <2>2 DEF Up
<1>3. /\ pieces \in Seq(Int) /\ Len(pieces) = n /\ \A j \in 1 .. Len(pieces) : pieces[j] = y + j
      /\ y + n <= TEST1_BUF_SIZE
  <2>1. y \in Nat /\ m \in Int /\ n \in Pos /\ n <= Len(L.c2s) /\ Pieces(L.c2s, y, m)
    BY <1>2
  <2>2. pieces = First(L.c2s, n)
    OBVIOUS
  <2> QED
    BY ONLY <2>1, <2>2, Arrived
<1>4. NewLen(y, pieces) = y + n /\ Holds(got, y + n)
  <2>1. /\ y \in Nat /\ y \in Int /\ buffer \in [Pos -> Int] /\ Holds(buffer, y)
        /\ got = Received(buffer, y, pieces)
    BY <1>1, <1>2
  <2>2. y + Len(pieces) = y + n /\ y + Len(pieces) <= TEST1_BUF_SIZE
    BY <1>3
  <2> QED
    BY ONLY <1>3, <2>1, <2>2, ReceivedFacts
<1>5. NewLen(e.recv_len, pieces) = y + n
  BY <1>2, <1>4
<1>6. /\ K.c2s = Rest(L.c2s, n, m) /\ K.toClient = L.toClient + n /\ K.toServer = L.toServer - m
      /\ K.s2c = L.s2c
  <2>1. n <= Len(L.c2s) /\ K = FromClient(L, n, m) /\ L \in LinkState /\ n \in Nat /\ m \in Int
    BY <1>0, <1>2
  <2> QED
    BY ONLY <2>1, LinkTypes
<1>7. Pieces(K.c2s, y + n, 0)
  <2>1. y \in Nat /\ n <= Len(L.c2s)
    OBVIOUS
  <2> QED
    BY ONLY <1>0, <1>2, <1>6, <2>1, PiecesRest
<1>8. /\ c.sent_len + K.toClient = y + n /\ K.toClient > 0 /\ K.toServer = 0 /\ Len(K.s2c) = 0
  <2>1. /\ K.toClient = L.toClient + n /\ K.toServer = L.toServer - m /\ m = L.toServer /\ m \in Int
        /\ n \in Nat /\ n >= 1 /\ L.toClient \in Int /\ L.toClient >= 0 /\ c.sent_len \in Int /\ y \in Nat
        /\ c.sent_len + L.toClient = y /\ Len(L.s2c) = 0 /\ K.s2c = L.s2c
    BY <1>0, <1>1, <1>2, <1>6
  <2> QED
    BY ONLY <2>1
<1> QED
  BY <1>2, <1>3, <1>4, <1>5, <1>7, <1>8

\* An acknowledgement alone reaches the client, while the server's buffer is on
\* its way, while its own is, or after the server's last round.
LEMMA ClientHears ==
    ASSUME NEW c \in ClientState, NEW L \in LinkState, L.toClient > 0,
           NEW m, m = L.toClient, NEW e, e = tcp_client_sent(c, m), NEW K, K = FromServer(L, 0, m), NEW buffer
    PROVE  /\ \A p \in SlotState, x \in Nat : Down(c, p, L, x, buffer) =>
                e.count = p.count /\ Down(e, p, K, x, buffer)
           /\ \A p \in SlotState, y \in Nat : Up(c, p, L, y, buffer) =>
                e.count = p.count /\ Up(e, p, K, y, buffer)
           /\ \A v : Over(c, L, v) => e.count = TEST_ITERATIONS /\ v = TEST_ITERATIONS
<1>1. /\ m \in Int /\ m > 0 /\ L.toServer \in Int /\ L.s2c \in Seq(Piece) /\ Len(L.s2c) \in Nat
      /\ c.sent_len \in Int /\ c.count \in Int
      /\ TEST1_BUF_SIZE \in Int /\ TEST_ITERATIONS \in Int
  BY Sizes DEF LinkState, ClientState
<1>2. /\ e.st = c.st /\ e.status = c.status
      /\ IF c.sent_len + m >= TEST1_BUF_SIZE
         THEN e.sent_len = 0 /\ e.recv_len = 0 /\ e.count = c.count + 1
         ELSE e.sent_len = c.sent_len + m /\ e.recv_len = c.recv_len /\ e.count = c.count
  <2>1. SlotState # {}
    <3>1. [client_pcb |-> NoPcb, status |-> "ok", count |-> 0, recv_len |-> 0, sent_len |-> 0] \in SlotState
      BY DEF SlotState, Result
    <3> QED
      BY <3>1
  <2>2. PICK p : p \in SlotState
    BY <2>1
  <2> QED
    BY ONLY <1>1, <2>2, c \in ClientState, e = tcp_client_sent(c, m), SentTypes, SMTT(30)
<1>3. /\ K.s2c = Rest(L.s2c, 0, m) /\ K.toServer = L.toServer + 0 /\ K.toClient = L.toClient - m
      /\ K.c2s = L.c2s
  <2>1. 0 <= Len(L.s2c) /\ K = FromServer(L, 0, m) /\ L \in LinkState /\ 0 \in Nat /\ m \in Int
    BY <1>1
  <2> QED
    BY ONLY <2>1, LinkTypes
<1>4. K.toServer = L.toServer /\ K.toClient = 0
  BY ONLY <1>1, <1>3, m = L.toClient
<1>5. Len(K.s2c) = Len(L.s2c)
  <2>1. 0 \in Nat /\ 0 <= Len(L.s2c)
    BY <1>1
  <2>2. Len(K.s2c) = Len(L.s2c) - 0
    BY ONLY <1>1, <1>3, <2>1, RestFacts
  <2> QED
    BY ONLY <1>1, <2>2
<1>6. ASSUME NEW p \in SlotState, NEW x \in Nat, Down(c, p, L, x, buffer)
      PROVE  e.count = p.count /\ Down(e, p, K, x, buffer)
  <2>1. /\ x = 0 /\ c.count = p.count - 1
        /\ c.sent_len + L.toClient = TEST1_BUF_SIZE /\ Pieces(L.s2c, 0, m)
    BY <1>6 DEF Down
  <2>2. x \in 0 .. TEST1_BUF_SIZE - 1 /\ Len(L.c2s) = 0 /\ p.sent_len + L.toServer = x
        /\ L.toServer >= 0 /\ Holds(buffer, x)
    BY <1>6 DEF Down
  <2>3. p.count \in Int
    BY DEF SlotState
  <2>4. e.count = p.count /\ e.recv_len = 0 /\ e.sent_len = 0
    BY <1>1, <1>2, <2>1, <2>3
  <2>5. Pieces(K.s2c, 0, 0)
    <3>1. m \in Nat /\ 0 \in Nat /\ 0 <= Len(L.s2c) /\ 0 + 0 = 0
      BY <1>1
    <3> QED
      BY ONLY <1>3, <2>1, <3>1, PiecesRest
  <2> QED
    BY ONLY <1>3, <1>4, <2>1, <2>2, <2>4, <2>5 DEF Down
<1>7. ASSUME NEW p \in SlotState, NEW y \in Nat, Up(c, p, L, y, buffer)
      PROVE  e.count = p.count /\ Up(e, p, K, y, buffer)
  <2>1. /\ y \in 0 .. TEST1_BUF_SIZE - 1 /\ Len(L.s2c) = 0
        /\ c.sent_len + L.toClient = y /\ c.count = p.count /\ c.recv_len = TEST1_BUF_SIZE
    BY <1>7 DEF Up
  <2>2. e.sent_len = y /\ e.count = p.count /\ e.recv_len = TEST1_BUF_SIZE
    BY <1>1, <1>2, <2>1
  <2>3. e.sent_len + K.toClient = y /\ K.toClient >= 0 /\ Len(K.s2c) = 0
    BY <1>4, <1>5, <2>1, <2>2
  <2> QED
    BY <1>3, <1>4, <1>7, <2>1, <2>2, <2>3 DEF Up
<1>8. ASSUME NEW v, Over(c, L, v)
      PROVE  e.count = TEST_ITERATIONS /\ v = TEST_ITERATIONS
  BY <1>1, <1>2, <1>8 DEF Over
<1> QED
  BY <1>6, <1>7, <1>8

\* An acknowledgement alone reaches the server.
LEMMA ServerHears ==
    ASSUME NEW c \in ClientState, NEW p \in SlotState, NEW L \in LinkState, L.toServer > 0,
           NEW m, m = L.toServer, NEW e, e = tcp_server_sent(p, m), NEW K, K = FromClient(L, 0, m), NEW buffer
    PROVE  /\ \A x \in Nat : Down(c, p, L, x, buffer) => Down(c, e, K, x, buffer)
           /\ \A y \in Nat : Up(c, p, L, y, buffer) => Up(c, e, K, y, buffer)
<1>1. /\ m \in Int /\ m > 0 /\ L.toClient \in Int /\ L.c2s \in Seq(Piece) /\ Len(L.c2s) \in Nat
      /\ p.sent_len \in Int /\ p.count \in Int /\ TEST1_BUF_SIZE \in Int
  BY Sizes DEF LinkState, SlotState
<1>2. /\ e.count = p.count /\ e.sent_len = p.sent_len + m
      /\ e.recv_len = IF p.sent_len + m >= TEST1_BUF_SIZE THEN 0 ELSE p.recv_len
  BY <1>1, SentTypes
<1>3. /\ K.c2s = Rest(L.c2s, 0, m) /\ K.toClient = L.toClient + 0 /\ K.toServer = L.toServer - m
      /\ K.s2c = L.s2c
  <2>1. 0 <= Len(L.c2s) /\ K = FromClient(L, 0, m) /\ L \in LinkState /\ 0 \in Nat /\ m \in Int
    BY <1>1
  <2> QED
    BY ONLY <2>1, LinkTypes
<1>4. K.toClient = L.toClient /\ K.toServer = 0
  BY ONLY <1>1, <1>3, m = L.toServer
<1>5. Len(K.c2s) = Len(L.c2s)
  <2>1. 0 \in Nat /\ 0 <= Len(L.c2s)
    BY <1>1
  <2>2. Len(K.c2s) = Len(L.c2s) - 0
    BY ONLY <1>1, <1>3, <2>1, RestFacts
  <2> QED
    BY ONLY <1>1, <2>2
<1>6. ASSUME NEW x \in Nat, Down(c, p, L, x, buffer)
      PROVE  Down(c, e, K, x, buffer)
  <2>1. p.sent_len + L.toServer = x /\ x \in 0 .. TEST1_BUF_SIZE - 1 /\ Len(L.c2s) = 0
    BY <1>6 DEF Down
  <2>2. e.sent_len + K.toServer = x /\ K.toServer >= 0 /\ Len(K.c2s) = 0
    BY <1>1, <1>2, <1>4, <1>5, <2>1
  <2> QED
    BY <1>2, <1>3, <1>4, <1>6, <2>1, <2>2 DEF Down
<1>7. ASSUME NEW y \in Nat, Up(c, p, L, y, buffer)
      PROVE  Up(c, e, K, y, buffer)
  <2>1. y = 0 /\ p.sent_len + L.toServer = TEST1_BUF_SIZE /\ Pieces(L.c2s, 0, m)
    BY <1>7 DEF Up
  <2>2. e.sent_len = TEST1_BUF_SIZE /\ e.recv_len = 0 /\ Holds(buffer, 0)
    BY <1>1, <1>2, <2>1 DEF Holds
  <2>3. Pieces(K.c2s, 0, 0)
    <3>1. m \in Nat /\ 0 \in Nat /\ 0 <= Len(L.c2s) /\ 0 + 0 = 0
      BY <1>1
    <3> QED
      BY ONLY <1>3, <2>1, <3>1, PiecesRest
  <2>4. /\ y \in 0 .. TEST1_BUF_SIZE - 1 /\ Len(L.s2c) = 0
        /\ c.sent_len + L.toClient = y /\ L.toClient >= 0
        /\ c.count = p.count /\ c.recv_len = TEST1_BUF_SIZE
    BY <1>7 DEF Up
  <2> QED
    BY ONLY <1>2, <1>3, <1>4, <2>1, <2>2, <2>3, <2>4 DEF Up
<1> QED
  BY <1>6, <1>7

-----------------------------------------------------------------------------
(* The invariant and the other connections *)

\* The slot of a connection.
LEMMA SlotInUse ==
    ASSUME NEW k \in InUse
    PROVE  /\ SlotOf(k) \in Slots /\ slot[SlotOf(k)].client_pcb = k
           /\ \A i \in Slots : (\A j \in Slots : slot[j].client_pcb = k => j = i) => SlotOf(k) = i
<1>1. \E i \in Slots : slot[i].client_pcb = k
  BY DEF InUse
<1>2. SlotOf(k) \in Slots /\ slot[SlotOf(k)].client_pcb = k
  BY <1>1 DEF SlotOf
<1> QED
  BY <1>2

\* While k has its connection, or waits for one, its steps touch nobody who is
\* not disturbed: it is enough that they go well for k.
LEMMA OneActs ==
    ASSUME Inv, NEW k \in Client, ~Idle(k), TypeOK', wrong' = {}, disturbed \subseteq disturbed',
           \A j \in Client \ {k} : client'[j] = client[j] /\ (j \in InUse' => j \in InUse),
           k \notin disturbed' => GoesWell(k)'
    PROVE  Inv'
<1>1. ASSUME NEW j \in Client \ {k}, Idle(j)
      PROVE  Idle(j)'
  BY <1>1 DEF Idle
<1>2. ASSUME NEW j \in Client \ disturbed', j # k
      PROVE  Idle(j)'
  <2>1. Idle(j)
    BY <1>2 DEF Inv
  <2> QED
    BY <1>1, <1>2, <2>1
<1>3. \A j \in Client \ disturbed' : GoesWell(j)'
  BY <1>2 DEF GoesWell
<1>4. ASSUME NEW j \in Client \ disturbed', ~Idle(j)', NEW x \in Client \ {j}
      PROVE  Idle(x)'
  <2>1. j = k
    BY <1>2, <1>4
  <2>2. Idle(x)
    BY <1>4, <2>1 DEF Inv
  <2> QED
    BY <1>1, <2>1, <2>2
<1> QED
  BY <1>3, <1>4 DEF Inv

\* What a send leaves of a record.
LEMMA SendTypes ==
    ASSUME NEW p \in SlotState, NEW c \in ClientState, NEW w \in Result
    PROVE  /\ [p EXCEPT !.sent_len = 0, !.status = Noted(p, w)] \in SlotState
           /\ [c EXCEPT !.status = Noted(c, w)] \in ClientState
           /\ w = "ok" => Noted(p, w) = p.status /\ Noted(c, w) = c.status
<1>1. PICK zero \in Int : zero = 0
  OBVIOUS
<1>2. Noted(p, w) \in Result /\ Noted(c, w) \in Result
  BY DEF Noted, SlotState, ClientState, Result
<1>3. [p EXCEPT !.sent_len = zero, !.status = Noted(p, w)] \in SlotState
  BY ONLY <1>2, zero \in Int, p \in SlotState DEF SlotState
<1>4. [c EXCEPT !.status = Noted(c, w)] \in ClientState
  BY ONLY <1>2, c \in ClientState DEF ClientState
<1>5. w = "ok" => Noted(p, w) = p.status /\ Noted(c, w) = c.status
  BY DEF Noted
<1> QED
  BY <1>1, <1>3, <1>4, <1>5

\* A record of a slot that its connection has left.
LEMMA ClosedType ==
    ASSUME NEW p \in SlotState, NEW pcb \in {NoPcb, DeadPcb}
    PROVE  Closed(p, pcb) \in SlotState /\ Closed(p, pcb).client_pcb = pcb
<1>1. PICK zero \in Int : zero = 0
  OBVIOUS
<1>2. Closed(p, pcb) = [p EXCEPT !.client_pcb = pcb, !.count = zero, !.sent_len = zero]
  BY <1>1 DEF Closed
<1> QED
  BY ONLY <1>2, zero \in Int, pcb \in {NoPcb, DeadPcb}, p \in SlotState DEF SlotState

\* Links whose data is older than the last fill.
LEMMA AllAgedType ==
    ASSUME TypeOK
    PROVE  /\ AllAged \in [Client -> LinkState]
           /\ \A k \in Client : /\ Len(AllAged[k].s2c) = Len(link[k].s2c)
                                /\ Len(AllAged[k].c2s) = Len(link[k].c2s)
                                /\ AllAged[k].toServer = link[k].toServer
                                /\ AllAged[k].toClient = link[k].toClient
                                /\ AllAged[k].sOpen = link[k].sOpen
                                /\ AllAged[k].cOpen = link[k].cOpen /\ AllAged[k].lost = link[k].lost
<1> SUFFICES ASSUME NEW k \in Client
             PROVE  /\ AllAged[k] \in LinkState
                    /\ Len(AllAged[k].s2c) = Len(link[k].s2c)
                    /\ Len(AllAged[k].c2s) = Len(link[k].c2s)
                    /\ AllAged[k].toServer = link[k].toServer
                    /\ AllAged[k].toClient = link[k].toClient
                    /\ AllAged[k].sOpen = link[k].sOpen
                    /\ AllAged[k].cOpen = link[k].cOpen /\ AllAged[k].lost = link[k].lost
  BY DEF AllAged
<1>1. link[k] \in LinkState
  BY DEF TypeOK
<1>2. /\ Aged(link[k].s2c) \in Seq(Piece) /\ Len(Aged(link[k].s2c)) = Len(link[k].s2c)
      /\ Aged(link[k].c2s) \in Seq(Piece) /\ Len(Aged(link[k].c2s)) = Len(link[k].c2s)
  <2>1. link[k].s2c \in Seq(Piece) /\ link[k].c2s \in Seq(Piece)
    BY <1>1 DEF LinkState
  <2> QED
    BY ONLY <2>1, AgedFacts
<1>3. AllAged[k] = [link[k] EXCEPT !.s2c = Aged(link[k].s2c), !.c2s = Aged(link[k].c2s)]
  BY DEF AllAged
<1>4. AllAged[k] \in LinkState
  BY ONLY <1>1, <1>2, <1>3 DEF LinkState
<1>5. AllAged[k].s2c = Aged(link[k].s2c) /\ AllAged[k].c2s = Aged(link[k].c2s)
  BY ONLY <1>1, <1>3 DEF LinkState
<1>6. /\ AllAged[k].toServer = link[k].toServer /\ AllAged[k].toClient = link[k].toClient
      /\ AllAged[k].sOpen = link[k].sOpen
      /\ AllAged[k].cOpen = link[k].cOpen /\ AllAged[k].lost = link[k].lost
  BY ONLY <1>1, <1>3 DEF LinkState
<1> QED
  BY <1>2, <1>4, <1>5, <1>6

\* What a handler of the server leads to.
LEMMA ServerDoes ==
    ASSUME TypeOK, NEW k \in Client, NEW i \in Slots, slot[i].client_pcb = k,
           NEW p \in SlotState, p.client_pcb = k, NEW L \in LinkState, NEW r \in [Pos -> Int],
           NEW do \in {"wait", "result", "send"}, NEW w \in Result, ServerDo(i, p, L, r, do, w)
    PROVE  /\ slot' \in [Slots -> SlotState] /\ link' \in [Client -> LinkState]
           /\ r_buffer' \in [Pos -> Int] /\ test1_buffer' \in [Pos -> Int]
           /\ disturbed \subseteq disturbed' /\ disturbed' \subseteq Client
           /\ \A j \in Slots \ {i} : slot'[j] = slot[j]
           /\ \A j \in Client \ {k} : j \in InUse' => j \in InUse
           /\ do = "wait" => /\ slot'[i] = p /\ link'[k] = L /\ r_buffer' = r
                             /\ test1_buffer' = test1_buffer /\ disturbed' = disturbed
           /\ do = "result" => /\ slot'[i].client_pcb = NoPcb /\ disturbed' = disturbed
                               /\ link'[k].s2c = L.s2c /\ link'[k].c2s = L.c2s
                               /\ link'[k].toClient = L.toClient
                               /\ link'[k].cOpen = L.cOpen /\ link'[k].lost = L.lost
           /\ do = "send" /\ w = "mem" => k \in disturbed'
           /\ do = "send" /\ w = "ok" =>
                /\ slot'[i].client_pcb = k /\ slot'[i].status = p.status
                /\ slot'[i].count = p.count /\ slot'[i].sent_len = 0
                /\ link'[k].s2c = Filled(Aged(L.s2c), L.toClient) /\ Len(link'[k].c2s) = Len(L.c2s)
                /\ link'[k].toServer = L.toServer /\ link'[k].toClient = L.toClient
                /\ link'[k].sOpen = L.sOpen /\ link'[k].cOpen = L.cOpen /\ link'[k].lost = L.lost
<1>1. /\ slot \in [Slots -> SlotState] /\ link \in [Client -> LinkState] /\ disturbed \subseteq Client
      /\ test1_buffer \in [Pos -> Int] /\ AllOld \in [Pos -> Int]
  BY DEF TypeOK, AllOld, Old
<1>2. ASSUME NEW s \in SlotState, slot' = [slot EXCEPT ![i] = s], s.client_pcb \in {k, NoPcb}
      PROVE  /\ slot' \in [Slots -> SlotState] /\ slot'[i] = s
             /\ \A j \in Slots \ {i} : slot'[j] = slot[j]
             /\ \A j \in Client \ {k} : j \in InUse' => j \in InUse
  <2>1. /\ slot' \in [Slots -> SlotState] /\ slot'[i] = s
        /\ \A j \in Slots \ {i} : slot'[j] = slot[j]
    BY ONLY <1>1, <1>2, i \in Slots
  <2>2. ASSUME NEW j \in Client \ {k}, j \in InUse'
        PROVE  j \in InUse
    <3>1. PICK e \in Slots : slot'[e].client_pcb = j
      BY <2>2 DEF InUse
    <3>2. e # i
      BY <1>2, <2>1, <2>2, <3>1, ClientAssumption
    <3> QED
      BY <2>1, <3>1, <3>2 DEF InUse
  <2> QED
    BY <2>1, <2>2
<1>3. ASSUME NEW K \in LinkState, NEW M \in [Client -> LinkState], link' = [M EXCEPT ![k] = K]
      PROVE  link' \in [Client -> LinkState] /\ link'[k] = K
  BY <1>3
<1>4. CASE do = "wait"
  <2>1. /\ slot' = [slot EXCEPT ![i] = p] /\ link' = [link EXCEPT ![k] = L] /\ r_buffer' = r
        /\ disturbed' = disturbed /\ test1_buffer' = test1_buffer
    BY <1>4 DEF ServerDo, NoWrite
  <2> QED
    BY <1>1, <1>2, <1>3, <1>4, <2>1
<1>5. CASE do = "result"
  <2> DEFINE s == Closed(p, NoPcb)
             K == [L EXCEPT !.sOpen = FALSE]
  <2>1. /\ slot' = [slot EXCEPT ![i] = s] /\ link' = [link EXCEPT ![k] = K] /\ r_buffer' = r
        /\ disturbed' = disturbed /\ test1_buffer' = test1_buffer
    BY <1>5, Zenon DEF ServerDo, NoWrite
  <2>2. s \in SlotState /\ s.client_pcb = NoPcb
    BY ClosedType
  <2>3. K \in LinkState
    BY DEF LinkState
  <2>4. /\ K.s2c = L.s2c /\ K.c2s = L.c2s /\ K.toClient = L.toClient /\ K.cOpen = L.cOpen
        /\ K.lost = L.lost
    BY DEF LinkState
  <2> HIDE DEF s, K
  <2>5. /\ slot' \in [Slots -> SlotState] /\ slot'[i] = s
        /\ \A j \in Slots \ {i} : slot'[j] = slot[j]
        /\ \A j \in Client \ {k} : j \in InUse' => j \in InUse
    BY <1>2, <2>1, <2>2
  <2>6. link' \in [Client -> LinkState] /\ link'[k] = K
    BY <1>1, <1>3, <2>1, <2>3
  <2> QED
    BY <1>1, <1>5, <2>1, <2>2, <2>4, <2>5, <2>6
<1>6. CASE do = "send"
  <2> DEFINE s == [p EXCEPT !.sent_len = 0, !.status = Noted(p, w)]
             q == IF w = "mem" THEN Aged(L.s2c) ELSE Filled(Aged(L.s2c), L.toClient)
             K == [L EXCEPT !.s2c = q, !.c2s = Aged(L.c2s)]
  <2>1. /\ slot' = [slot EXCEPT ![i] = s] /\ link' = [AllAged EXCEPT ![k] = K]
        /\ r_buffer' = AllOld /\ test1_buffer' = AllOld
        /\ WriteResult(slot[i].client_pcb, Room(L.s2c, L.toServer), w)
    BY <1>6, Zenon DEF ServerDo
  <2>2. disturbed' = IF w = "mem" THEN disturbed \cup {k} ELSE disturbed
    BY <2>1 DEF WriteResult
  <2>3. NoClient \in ClientState
    BY DEF NoClient, ClientState, Result
  <2>4. s \in SlotState /\ (w = "ok" => Noted(p, w) = p.status)
    BY <2>3, SendTypes
  <2>5. s.client_pcb = k /\ s.count = p.count /\ s.sent_len = 0 /\ s.status = Noted(p, w)
    BY DEF SlotState
  <2>6. L.s2c \in Seq(Piece) /\ L.c2s \in Seq(Piece) /\ L.toClient \in Int
    BY DEF LinkState
  <2>7. q \in Seq(Piece) /\ Aged(L.c2s) \in Seq(Piece) /\ Len(Aged(L.c2s)) = Len(L.c2s)
    BY <2>6, AgedFacts, FilledFacts
  <2> HIDE DEF s, q
  <2>8. K \in LinkState
    BY ONLY <2>7, L \in LinkState DEF LinkState
  <2>9. /\ K.s2c = q /\ K.c2s = Aged(L.c2s) /\ K.toServer = L.toServer /\ K.toClient = L.toClient
        /\ K.sOpen = L.sOpen /\ K.cOpen = L.cOpen /\ K.lost = L.lost
    BY ONLY L \in LinkState DEF LinkState
  <2> HIDE DEF K
  <2>10. /\ slot' \in [Slots -> SlotState] /\ slot'[i] = s
         /\ \A j \in Slots \ {i} : slot'[j] = slot[j]
         /\ \A j \in Client \ {k} : j \in InUse' => j \in InUse
    BY <1>2, <2>1, <2>4, <2>5
  <2>11. link' \in [Client -> LinkState] /\ link'[k] = K
    BY <1>3, <2>1, <2>8, AllAgedType
  <2>12. w = "ok" => q = Filled(Aged(L.s2c), L.toClient)
    BY DEF q
  <2> QED
    BY ONLY <1>1, <1>6, <2>1, <2>2, <2>4, <2>5, <2>7, <2>9, <2>10, <2>11, <2>12, k \in Client
<1> QED
  BY ONLY <1>4, <1>5, <1>6, do \in {"wait", "result", "send"}

\* What a handler of the client leads to.
LEMMA ClientDoes ==
    ASSUME TypeOK, NEW k \in Client, NEW c \in ClientState, NEW L \in LinkState,
           NEW do \in {"wait", "result", "send"}, NEW w \in Result, ClientDo(k, c, L, do, w),
           test1_buffer' \in [Pos -> Int]
    PROVE  /\ client' \in [Client -> ClientState] /\ link' \in [Client -> LinkState]
           /\ disturbed \subseteq disturbed' /\ disturbed' \subseteq Client
           /\ \A j \in Client \ {k} : client'[j] = client[j]
           /\ do = "wait" => client'[k] = c /\ link'[k] = L /\ disturbed' = disturbed
           /\ do = "result" => client'[k] = NoClient /\ disturbed' = disturbed
           /\ do = "send" /\ w = "mem" => k \in disturbed'
           /\ do = "send" /\ w = "ok" =>
                /\ client'[k].st = c.st /\ client'[k].status = c.status
                /\ client'[k].count = c.count /\ client'[k].recv_len = c.recv_len
                /\ client'[k].sent_len = c.sent_len
                /\ link'[k].c2s = Written(L.c2s, test1_buffer', L.toServer)
                /\ link'[k].s2c = L.s2c
                /\ link'[k].toServer = L.toServer /\ link'[k].toClient = L.toClient
                /\ link'[k].sOpen = L.sOpen /\ link'[k].cOpen = L.cOpen /\ link'[k].lost = L.lost
<1>1. /\ client \in [Client -> ClientState] /\ link \in [Client -> LinkState]
      /\ disturbed \subseteq Client
  BY DEF TypeOK
<1>2. ASSUME NEW e \in ClientState, client' = [client EXCEPT ![k] = e],
             NEW K \in LinkState, link' = [link EXCEPT ![k] = K]
      PROVE  /\ client' \in [Client -> ClientState] /\ client'[k] = e
             /\ link' \in [Client -> LinkState] /\ link'[k] = K
             /\ \A j \in Client \ {k} : client'[j] = client[j]
  BY ONLY <1>1, <1>2, k \in Client
<1>3. CASE do = "wait"
  <2>1. client' = [client EXCEPT ![k] = c] /\ link' = [link EXCEPT ![k] = L] /\ disturbed' = disturbed
    BY <1>3 DEF ClientDo, NoWrite
  <2> QED
    BY ONLY <1>1, <1>2, <1>3, <2>1, c \in ClientState, L \in LinkState
<1>4. CASE do = "result"
  <2> DEFINE K == [L EXCEPT !.cOpen = FALSE, !.s2c = <<>>]
  <2>1. /\ client' = [client EXCEPT ![k] = NoClient] /\ link' = [link EXCEPT ![k] = K]
        /\ disturbed' = disturbed
    BY <1>4, Zenon DEF ClientDo, NoWrite
  <2>2. NoClient \in ClientState
    BY DEF NoClient, ClientState, Result
  <2>3. K \in LinkState
    <3>1. <<>> \in Seq(Piece)
      BY EmptySeq
    <3> QED
      BY ONLY <3>1, L \in LinkState DEF LinkState
  <2> HIDE DEF K
  <2> QED
    BY ONLY <1>1, <1>2, <1>4, <2>1, <2>2, <2>3
<1>5. CASE do = "send"
  <2> DEFINE e == [c EXCEPT !.status = Noted(c, w)]
             q == Written(L.c2s, test1_buffer', L.toServer)
             K == IF w = "mem" THEN L ELSE [L EXCEPT !.c2s = q]
  <2>1. /\ client' = [client EXCEPT ![k] = e] /\ link' = [link EXCEPT ![k] = K]
        /\ WriteResult(k, Room(L.c2s, L.toClient), w)
    BY <1>5, Zenon DEF ClientDo
  <2>2. disturbed' = IF w = "mem" THEN disturbed \cup {k} ELSE disturbed
    BY <2>1 DEF WriteResult
  <2>3. \E p : p \in SlotState
    <3>1. [client_pcb |-> NoPcb, status |-> "ok", count |-> 0, recv_len |-> 0, sent_len |-> 0] \in SlotState
      BY DEF SlotState, Result
    <3> QED
      BY <3>1
  <2>4. e \in ClientState /\ (w = "ok" => Noted(c, w) = c.status)
    BY <2>3, SendTypes
  <2>5. /\ e.st = c.st /\ e.status = Noted(c, w) /\ e.count = c.count /\ e.recv_len = c.recv_len
        /\ e.sent_len = c.sent_len
    BY DEF ClientState
  <2>6. q \in Seq(Piece)
    <3>1. L.c2s \in Seq(Piece) /\ L.toServer \in Int
      BY DEF LinkState
    <3> QED
      BY ONLY <3>1, test1_buffer' \in [Pos -> Int], WrittenFacts
  <2> HIDE DEF q
  <2>7. K \in LinkState
    BY ONLY <2>6, L \in LinkState DEF LinkState
  <2>8. w = "ok" => /\ K.c2s = q /\ K.s2c = L.s2c /\ K.toServer = L.toServer /\ K.toClient = L.toClient
                    /\ K.sOpen = L.sOpen /\ K.cOpen = L.cOpen /\ K.lost = L.lost
    BY ONLY L \in LinkState DEF LinkState
  <2> HIDE DEF e, K
  <2>9. /\ client' \in [Client -> ClientState] /\ client'[k] = e
        /\ link' \in [Client -> LinkState] /\ link'[k] = K
        /\ \A j \in Client \ {k} : client'[j] = client[j]
    BY ONLY <1>2, <2>1, <2>4, <2>7
  <2> QED
    BY ONLY <1>1, <1>5, <2>2, <2>4, <2>5, <2>8, <2>9, k \in Client DEF q
<1> QED
  BY ONLY <1>3, <1>4, <1>5, do \in {"wait", "result", "send"}

-----------------------------------------------------------------------------
(* The steps *)

\* What is known of an undisturbed connection that the server, or the client, has.
LEMMA ServerHas ==
    ASSUME Inv, NEW k \in Client \ disturbed, k \in InUse
    PROVE  Running(k, SlotOf(k)) /\ SlotOf(k) \in Slots
<1>1. GoesWell(k)
  BY DEF Inv
<1>2. PICK i \in Slots : Running(k, i)
  BY <1>1 DEF GoesWell, Idle, Opening, Ending
<1>3. SlotOf(k) = i
  BY <1>2, SlotInUse DEF Running
<1> QED
  BY <1>2, <1>3

\* The client has a connection that the server has too, or has just left.
LEMMA ClientHas ==
    ASSUME Inv, NEW k \in Client \ disturbed, client[k].st = "open"
    PROVE  (\E i \in Slots : Running(k, i)) \/ Ending(k)
  BY DEF Inv, GoesWell, Idle, Opening

\* A handler of the server keeps the invariant, if it goes well for the connection
\* it is about.
LEMMA ServerStep ==
    ASSUME Inv, NEW k \in Client, k \in InUse,
           NEW p \in SlotState, p.client_pcb = k, NEW L \in LinkState, NEW r \in [Pos -> Int],
           NEW do \in {"wait", "result", "send"}, NEW w \in Result,
           ServerDo(SlotOf(k), p, L, r, do, w),
           client' = client, verified' \in [Client -> Int], wrong' = {},
           k \notin disturbed \cup disturbed' => GoesWell(k)'
    PROVE  Inv'
<1>1. SlotOf(k) \in Slots /\ slot[SlotOf(k)].client_pcb = k
  BY SlotInUse
<1>2. TypeOK /\ client \in [Client -> ClientState]
  BY DEF Inv, TypeOK
<1>3. /\ slot' \in [Slots -> SlotState] /\ link' \in [Client -> LinkState]
      /\ r_buffer' \in [Pos -> Int] /\ test1_buffer' \in [Pos -> Int]
      /\ disturbed \subseteq disturbed' /\ disturbed' \subseteq Client
      /\ \A j \in Client \ {k} : j \in InUse' => j \in InUse
  <2> PICK i \in Slots : i = SlotOf(k)
    BY <1>1
  <2>1. slot[i].client_pcb = k /\ ServerDo(i, p, L, r, do, w)
    BY <1>1
  <2> QED
    BY <1>2, <2>1, ServerDoes
<1>4. TypeOK'
  BY <1>2, <1>3 DEF TypeOK
<1>5. ~Idle(k)
  BY DEF Idle
<1>6. \A j \in Client \ {k} : client'[j] = client[j] /\ (j \in InUse' => j \in InUse)
  BY <1>3
<1> QED
  BY <1>3, <1>4, <1>5, <1>6, OneActs

\* What makes a connection go well after a step: its slot and its client agree, or
\* the server is done with it.
LEMMA RunsOn ==
    ASSUME NEW k \in Client, NEW i \in Slots, slot'[i].client_pcb = k,
           \A j \in Slots \ {i} : slot'[j].client_pcb # k,
           Sound(client'[k], link'[k]), link'[k].sOpen, slot'[i].status = "ok",
           verified'[k] = slot'[i].count, slot'[i].count >= 0, slot'[i].count < TEST_ITERATIONS,
           \/ \E x \in Nat : Down(client'[k], slot'[i], link'[k], x, test1_buffer')
           \/ \E y \in Nat : Up(client'[k], slot'[i], link'[k], y, r_buffer')
    PROVE  GoesWell(k)'
<1>1. \A j \in Slots : slot'[j].client_pcb = k => j = i
  OBVIOUS
<1>2. Running(k, i)'
  BY <1>1 DEF Running
<1> QED
  BY <1>2 DEF GoesWell

\* A connection goes well when only the last acknowledgement is missing.
LEMMA EndsSo ==
    ASSUME NEW k \in Client, \A j \in Slots : slot'[j].client_pcb # k,
           Sound(client'[k], link'[k]), Over(client'[k], link'[k], verified'[k])
    PROVE  GoesWell(k)'
<1>1. k \notin InUse'
  BY DEF InUse
<1> QED
  BY <1>1 DEF GoesWell, Ending

\* A link before it is used.
LEMMA NoLinkFacts ==
    /\ NoLink \in LinkState /\ Len(NoLink.s2c) = 0 /\ Len(NoLink.c2s) = 0
    /\ NoLink.toServer = 0 /\ NoLink.toClient = 0 /\ ~NoLink.lost
<1>1. PICK zero \in Int : zero = 0
  OBVIOUS
<1>2. <<>> \in Seq(Piece)
  BY EmptySeq
<1>3. NoLink = [s2c |-> <<>>, c2s |-> <<>>, toServer |-> zero, toClient |-> zero,
                sOpen |-> FALSE, cOpen |-> FALSE, lost |-> FALSE]
  BY <1>1 DEF NoLink
<1>4. NoLink \in LinkState
  BY ONLY <1>2, <1>3, zero \in Int DEF LinkState
<1> QED
  BY <1>1, <1>3, <1>4

\* At the start nobody is connected.
LEMMA InitInv ==
    Init => Inv
<1> SUFFICES ASSUME Init
             PROVE  Inv
  OBVIOUS
<1>1. budget.dead \subseteq Slots
  BY ScenarioAssumption DEF Init, Scenario
<1>2. PICK zero \in Int : zero = 0
  OBVIOUS
<1>3. slot \in [Slots -> SlotState]
  <2>1. \A i \in Slots : (IF i \in budget.dead THEN DeadPcb ELSE NoPcb) \in Client \cup {NoPcb, DeadPcb}
    OBVIOUS
  <2>2. slot = [i \in Slots |-> [client_pcb |-> IF i \in budget.dead THEN DeadPcb ELSE NoPcb,
                                 status |-> "ok", count |-> zero, recv_len |-> zero, sent_len |-> zero]]
    BY <1>2 DEF Init
  <2> QED
    BY ONLY <2>1, <2>2, zero \in Int DEF SlotState, Result
<1>4. \A k \in Client : k \notin InUse
  BY ClientAssumption DEF Init, InUse
<1>5. NoClient \in ClientState /\ NoClient.st = "free"
  BY DEF NoClient, ClientState, Result
<1>6. NoLink \in LinkState
  BY NoLinkFacts
<1>7. client \in [Client -> ClientState] /\ link \in [Client -> LinkState]
  BY <1>5, <1>6 DEF Init
<1>8. /\ r_buffer \in [Pos -> Int] /\ test1_buffer \in [Pos -> Int]
      /\ verified \in [Client -> Int] /\ disturbed \subseteq Client /\ wrong = {}
  BY DEF Init, AllOld, Old
<1>9. \A k \in Client : Idle(k)
  BY <1>4, <1>5 DEF Idle, Init
<1> QED
  BY <1>3, <1>7, <1>8, <1>9 DEF Inv, TypeOK, GoesWell

\* A segment at the server: what it leaves of the slot and the link is well formed.
LEMMA SegmentTypes ==
    ASSUME NEW L \in LinkState, NEW p \in SlotState, NEW c \in ClientState, NEW n \in Pos,
           NEW buffer \in [Pos -> Int], NEW q \in {L.c2s, L.s2c}, n <= Len(q)
    PROVE  /\ n \in Nat /\ n >= 1
           /\ q[n].ack \in Int
           /\ First(q, n) \in Seq(Int)
           /\ \A len \in Int : /\ Received(buffer, len, First(q, n)) \in [Pos -> Int]
                               /\ NewLen(len, First(q, n)) \in Int
<1>1. q \in Seq(Piece) /\ n \in Nat /\ n >= 1 /\ n \in 1 .. Len(q)
  BY Sizes DEF LinkState
<1>2. \A j \in 1 .. Len(q) : q[j] \in Piece
  BY <1>1, ElementOfSeq
<1>3. q[n].ack \in Int
  BY <1>1, <1>2 DEF Piece
<1>4. First(q, n) \in Seq(Int)
  <2> DEFINE f == First(q, n)
  <2>1. \A j \in 1 .. n : f[j] \in Int
    BY <1>1, <1>2 DEF First, Piece
  <2>2. f = [j \in 1 .. n |-> f[j]]
    BY DEF First
  <2> HIDE DEF f
  <2>3. f \in Seq(Int)
    BY ONLY <1>1, <2>1, <2>2, TableIsSeq
  <2> QED
    BY <2>3 DEF f
<1>5. ASSUME NEW len \in Int
      PROVE  /\ Received(buffer, len, First(q, n)) \in [Pos -> Int]
             /\ NewLen(len, First(q, n)) \in Int
  BY ONLY <1>4, len \in Int, buffer \in [Pos -> Int], ReceivedFacts
<1> QED
  BY <1>1, <1>3, <1>4, <1>5

\* tcp_server_recv: data that makes the buffer whole is the buffer of the round.
LEMMA RecvInv ==
    ASSUME Inv, NEW k \in Client, NEW n \in Pos, NEW w \in Result, tcp_server_recv(k, n, w)
    PROVE  Inv'
<1> DEFINE i == SlotOf(k)
           m == link[k].c2s[n].ack
           pieces == First(link[k].c2s, n)
           L == FromClient(link[k], n, m)
           p == IF m > 0 THEN tcp_server_sent(slot[i], m) ELSE slot[i]
           r == Received(r_buffer, p.recv_len, pieces)
           q == [p EXCEPT !.recv_len = NewLen(p.recv_len, pieces)]
           whole == q.recv_len = TEST1_BUF_SIZE
           match == \A j \in Pos : r[j] = j
           last == q.count + 1 >= TEST_ITERATIONS
           do == CASE ~whole -> "wait"
                   [] whole /\ match /\ ~last -> "send"
                   [] OTHER -> "result"
           s == [q EXCEPT !.count = IF whole /\ match THEN q.count + 1 ELSE q.count]
<1>1. /\ k \in InUse /\ n <= Len(link[k].c2s)
      /\ do = "send" \/ w = "ok"
      /\ ServerDo(i, s, L, r, do, w)
      /\ verified' = IF whole /\ match THEN [verified EXCEPT ![k] = verified[k] + 1] ELSE verified
      /\ wrong' = IF whole /\ ~match /\ k \notin disturbed THEN wrong \cup {k} ELSE wrong
      /\ client' = client
  BY DEF tcp_server_recv, First
<1>2. i \in Slots /\ slot[i].client_pcb = k
  BY <1>1, SlotInUse
<1>3. /\ slot[i] \in SlotState /\ link[k] \in LinkState /\ client[k] \in ClientState
      /\ r_buffer \in [Pos -> Int] /\ test1_buffer \in [Pos -> Int]
      /\ verified \in [Client -> Int] /\ wrong = {} /\ TypeOK
  BY <1>2 DEF Inv, TypeOK
<1>4. /\ n \in Nat /\ n >= 1 /\ m \in Int /\ pieces \in Seq(Int)
      /\ \A len \in Int : /\ Received(r_buffer, len, pieces) \in [Pos -> Int]
                          /\ NewLen(len, pieces) \in Int
  BY <1>1, <1>3, SegmentTypes
<1>5. p \in SlotState /\ p.client_pcb = k
  <2>1. /\ tcp_server_sent(slot[i], m) \in SlotState
        /\ tcp_server_sent(slot[i], m).client_pcb = slot[i].client_pcb
    <3>1. PICK z \in SlotState : z = slot[i]
      BY <1>3
    <3>2. client[k] \in ClientState /\ m \in Int
      BY <1>3, <1>4
    <3>3. /\ tcp_server_sent(z, m) \in SlotState
          /\ tcp_server_sent(z, m).client_pcb = z.client_pcb
      BY ONLY <3>2, z \in SlotState, SentTypes
    <3> QED
      BY ONLY <3>1, <3>3
  <2> QED
    BY <1>2, <1>3, <2>1
<1>6. L \in LinkState
  BY <1>1, <1>3, <1>4, LinkTypes
<1> HIDE DEF i, pieces, L, p, r
<1>7. /\ q \in SlotState /\ q.client_pcb = k /\ q.recv_len = NewLen(p.recv_len, pieces)
      /\ q.status = p.status /\ q.count = p.count /\ q.sent_len = p.sent_len /\ q.count \in Int
  BY <1>4, <1>5 DEF SlotState
<1> HIDE DEF q
<1>8. /\ s \in SlotState /\ s.client_pcb = k /\ s.status = q.status /\ s.recv_len = q.recv_len
      /\ s.sent_len = q.sent_len /\ s.count = IF whole /\ match THEN q.count + 1 ELSE q.count
  BY <1>7 DEF SlotState
<1>9. r \in [Pos -> Int]
  BY <1>4, <1>5 DEF r, SlotState
<1>10. do \in {"wait", "result", "send"}
  OBVIOUS
<1>11. verified' \in [Client -> Int]
  BY <1>1, <1>3
<1>12. ASSUME k \notin disturbed
       PROVE  wrong' = {} /\ (k \notin disturbed' => GoesWell(k)')
  <2>0. TEST1_BUF_SIZE \in Nat /\ TEST1_BUF_SIZE >= 1 /\ TEST_ITERATIONS \in Nat
    BY Sizes
  <2>1. Running(k, i)
    BY <1>1, <1>12, ServerHas DEF i
  <2>2. ~(\E x \in Nat : Down(client[k], slot[i], link[k], x, test1_buffer))
    BY <1>1, <1>4 DEF Down
  <2>3. PICK y \in Nat : Up(client[k], slot[i], link[k], y, r_buffer)
    BY <2>1, <2>2 DEF Running
  <2>4. /\ m > 0 => p = tcp_server_sent(slot[i], m)
        /\ ~(m > 0) => p = slot[i]
        /\ pieces = First(link[k].c2s, n) /\ L = FromClient(link[k], n, m)
        /\ r = Received(r_buffer, p.recv_len, pieces)
    BY DEF p, pieces, L, r
  <2>5. /\ y + n <= TEST1_BUF_SIZE
        /\ p.status = slot[i].status
        /\ p.count = slot[i].count /\ p.sent_len = TEST1_BUF_SIZE
        /\ NewLen(p.recv_len, pieces) = y + n
        /\ L.toServer = 0 /\ Pieces(L.c2s, y + n, 0) /\ Len(L.s2c) = 0
        /\ client[k].sent_len + L.toClient = y + n /\ L.toClient > 0
        /\ Holds(r, y + n)
    <3>1. /\ n <= Len(link[k].c2s) /\ n \in Pos /\ y \in Nat
          /\ client[k] \in ClientState /\ slot[i] \in SlotState /\ link[k] \in LinkState
          /\ r_buffer \in [Pos -> Int]
      BY <1>1, <1>3
    <3> QED
      BY ONLY <2>3, <2>4, <3>1, ServerGets, SMTT(30)
  <2>6. whole => match
    BY <1>7, <2>5, Sizes DEF Holds
  <2>7. wrong' = {}
    BY <1>1, <1>3, <2>6
  <2>8. /\ \A j \in Slots \ {i} : slot'[j] = slot[j] /\ slot[j].client_pcb # k
        /\ do = "wait" => /\ slot'[i] = s /\ link'[k] = L /\ r_buffer' = r
        /\ do = "result" => /\ slot'[i].client_pcb = NoPcb
                            /\ link'[k].s2c = L.s2c /\ link'[k].c2s = L.c2s
                            /\ link'[k].toClient = L.toClient
                            /\ link'[k].cOpen = L.cOpen /\ link'[k].lost = L.lost
        /\ do = "send" /\ w = "mem" => k \in disturbed'
        /\ do = "send" /\ w = "ok" =>
             /\ slot'[i].client_pcb = k /\ slot'[i].status = s.status
             /\ slot'[i].count = s.count /\ slot'[i].sent_len = 0
             /\ link'[k].s2c = Filled(Aged(L.s2c), L.toClient) /\ Len(link'[k].c2s) = Len(L.c2s)
             /\ link'[k].toServer = L.toServer /\ link'[k].toClient = L.toClient
             /\ link'[k].sOpen = L.sOpen /\ link'[k].cOpen = L.cOpen /\ link'[k].lost = L.lost
    <3> HIDE DEF s, do
    <3>1. \A j \in Slots \ {i} : slot[j].client_pcb # k
      BY <2>1 DEF Running
    <3>2. /\ ServerDo(i, s, L, r, do, w) /\ s \in SlotState /\ s.client_pcb = k /\ L \in LinkState
          /\ r \in [Pos -> Int] /\ do \in {"wait", "result", "send"} /\ TypeOK
          /\ i \in Slots /\ slot[i].client_pcb = k /\ k \in Client /\ w \in Result
      BY <1>1, <1>2, <1>3, <1>6, <1>8, <1>9, <1>10
    <3> QED
      BY ONLY <3>1, <3>2, ServerDoes
  <2>9. /\ L.sOpen /\ L.cOpen /\ ~L.lost /\ link[k].cOpen /\ ~link[k].lost
        /\ client[k].st = "open" /\ client[k].status = "ok" /\ slot[i].status = "ok"
        /\ verified[k] = slot[i].count /\ slot[i].count >= 0 /\ slot[i].count < TEST_ITERATIONS
        /\ client[k].count = slot[i].count
    <3>1. L.sOpen = link[k].sOpen /\ L.cOpen = link[k].cOpen /\ L.lost = link[k].lost
      BY <1>1, <1>3, <1>4, LinkTypes, SMTT(30) DEF L
    <3> QED
      BY <2>1, <2>3, <3>1 DEF Running, Sound, Up
  <2>10. CASE ~whole
    <3>1. do = "wait" /\ s.count = q.count /\ verified' = verified
      BY <1>1, <1>8, <2>10
    <3>2. slot'[i] = s /\ link'[k] = L /\ r_buffer' = r /\ client'[k] = client[k]
      BY <1>1, <2>8, <3>1
    <3>3. /\ y + n \in Nat /\ y + n \in 0 .. TEST1_BUF_SIZE - 1
          /\ s.sent_len = TEST1_BUF_SIZE /\ s.recv_len = y + n /\ s.count = slot[i].count
          /\ s.status = "ok" /\ s.client_pcb = k /\ client[k].recv_len = TEST1_BUF_SIZE
          /\ L.toClient >= 0
      <4>1. y + n # TEST1_BUF_SIZE
        BY <1>7, <2>5, <2>10
      <4>2. client[k].recv_len = TEST1_BUF_SIZE
        BY <2>3 DEF Up
      <4>3. L.toClient \in Int
        BY <1>6 DEF LinkState
      <4>4. y + n \in Nat /\ y + n \in 0 .. TEST1_BUF_SIZE - 1
        BY <1>4, <2>0, <2>5, <4>1
      <4> QED
        BY <1>7, <1>8, <2>5, <2>9, <3>1, <4>2, <4>3, <4>4
    <3>4. Up(client'[k], slot'[i], link'[k], y + n, r_buffer')
      BY ONLY <2>5, <2>9, <3>2, <3>3 DEF Up
    <3>5. Sound(client'[k], link'[k]) /\ link'[k].sOpen
      BY <2>9, <3>2 DEF Sound
    <3>6. GoesWell(k)'
      <4> HIDE DEF s
      <4>1. /\ slot'[i].client_pcb = k /\ slot'[i].status = "ok" /\ verified'[k] = slot'[i].count
            /\ slot'[i].count >= 0 /\ slot'[i].count < TEST_ITERATIONS
            /\ k \in Client /\ i \in Slots /\ \A j \in Slots \ {i} : slot'[j].client_pcb # k
        BY <1>2, <2>8, <2>9, <3>1, <3>2, <3>3
      <4>2. \E z \in Nat : Up(client'[k], slot'[i], link'[k], z, r_buffer')
        BY <3>3, <3>4
      <4> QED
        BY ONLY <3>5, <4>1, <4>2, RunsOn
    <3> QED
      BY <2>7, <3>6
  <2>11. CASE whole /\ last
    <3>1. do = "result" /\ verified'[k] = verified[k] + 1
      BY <1>1, <1>3, <2>6, <2>11
    <3>2. /\ slot'[i].client_pcb = NoPcb /\ client'[k] = client[k]
          /\ link'[k].s2c = L.s2c /\ link'[k].c2s = L.c2s /\ link'[k].toClient = L.toClient
          /\ link'[k].cOpen = L.cOpen /\ link'[k].lost = L.lost
      BY <1>1, <2>8, <3>1
    <3>3. y + n = TEST1_BUF_SIZE /\ q.count = slot[i].count /\ q.count \in Int
      BY <1>7, <2>5, <2>11
    <3>4. slot[i].count = TEST_ITERATIONS - 1
      BY <2>0, <2>9, <2>11, <3>3
    <3>5. Len(L.c2s) = 0
      BY <2>0, <2>5, <3>3 DEF Pieces
    <3>6. Over(client'[k], link'[k], verified'[k])
      BY ONLY <2>0, <2>5, <2>9, <3>1, <3>2, <3>3, <3>4, <3>5 DEF Over
    <3>7. Sound(client'[k], link'[k])
      BY <2>9, <3>2 DEF Sound
    <3>8. \A j \in Slots : slot'[j].client_pcb # k
      BY <2>8, <3>2, ClientAssumption
    <3> QED
      BY <2>7, <3>6, <3>7, <3>8, EndsSo
  <2>12. CASE whole /\ ~last
    <3>1. do = "send" /\ verified'[k] = verified[k] + 1 /\ s.count = q.count + 1
      BY <1>1, <1>3, <1>8, <2>6, <2>12
    <3>2. CASE w = "mem"
      BY <2>7, <2>8, <3>1, <3>2
    <3>3. CASE w = "ok"
      <4>1. /\ slot'[i].client_pcb = k /\ slot'[i].status = s.status
            /\ slot'[i].count = s.count /\ slot'[i].sent_len = 0 /\ client'[k] = client[k]
            /\ link'[k].s2c = Filled(Aged(L.s2c), L.toClient) /\ Len(link'[k].c2s) = Len(L.c2s)
            /\ link'[k].toServer = L.toServer /\ link'[k].toClient = L.toClient
            /\ link'[k].sOpen = L.sOpen /\ link'[k].cOpen = L.cOpen /\ link'[k].lost = L.lost
        BY <1>1, <2>8, <3>1, <3>3
      <4>2. y + n = TEST1_BUF_SIZE /\ q.count = slot[i].count /\ q.count \in Int /\ s.status = "ok"
        BY <1>7, <1>8, <2>5, <2>9, <2>12
      <4>3. Len(L.c2s) = 0
        BY <2>0, <2>5, <4>2 DEF Pieces
      <4>4. Pieces(Filled(Aged(L.s2c), L.toClient), 0, L.toClient)
        <5>1. L.s2c \in Seq(Piece) /\ L.toClient \in Int
          BY <1>6 DEF LinkState
        <5>2. Aged(L.s2c) \in Seq(Piece) /\ Len(Aged(L.s2c)) = 0
          BY <2>5, <5>1, AgedFacts
        <5> QED
          BY <5>1, <5>2, FilledFacts
      <4>5. Holds(test1_buffer', 0)
        BY DEF Holds
      <4>6. /\ 0 \in 0 .. TEST1_BUF_SIZE - 1 /\ 0 + L.toServer = 0 /\ L.toServer >= 0
            /\ client[k].count = s.count - 1
            /\ client[k].sent_len + L.toClient = TEST1_BUF_SIZE
        BY <2>0, <2>5, <2>9, <3>1, <4>2
      <4>7. Down(client'[k], slot'[i], link'[k], 0, test1_buffer')
        BY ONLY <2>5, <4>1, <4>3, <4>4, <4>5, <4>6 DEF Down
      <4>8. Sound(client'[k], link'[k]) /\ link'[k].sOpen
        BY <2>9, <4>1 DEF Sound
      <4>9. /\ slot'[i].client_pcb = k /\ slot'[i].status = "ok" /\ verified'[k] = slot'[i].count
            /\ slot'[i].count >= 0 /\ slot'[i].count < TEST_ITERATIONS
            /\ k \in Client /\ i \in Slots /\ \A j \in Slots \ {i} : slot'[j].client_pcb # k
        BY <1>2, <2>0, <2>8, <2>9, <2>12, <3>1, <4>1, <4>2
      <4>10. \E z \in Nat : Down(client'[k], slot'[i], link'[k], z, test1_buffer')
        BY <4>7
      <4> QED
        BY ONLY <2>7, <4>8, <4>9, <4>10, RunsOn
    <3> QED
      BY <3>2, <3>3 DEF Result
  <2> QED
    BY <2>7, <2>10, <2>11, <2>12
<1>13. wrong' = {}
  BY <1>1, <1>3, <1>12
<1> HIDE DEF s, do
<1>14. /\ ServerDo(SlotOf(k), s, L, r, do, w) /\ s \in SlotState /\ s.client_pcb = k
       /\ L \in LinkState /\ r \in [Pos -> Int] /\ do \in {"wait", "result", "send"}
       /\ k \in Client /\ k \in InUse /\ w \in Result /\ Inv /\ client' = client
  BY <1>1, <1>6, <1>8, <1>9, <1>10 DEF i
<1>15. k \notin disturbed \cup disturbed' => GoesWell(k)'
  BY <1>12
<1> QED
  BY ONLY <1>11, <1>13, <1>14, <1>15, ServerStep

\* An acknowledgement alone at the server.
LEMMA ServerAckInv ==
    ASSUME Inv, NEW k \in Client, ServerAck(k)
    PROVE  Inv'
<1> DEFINE i == SlotOf(k)
           m == link[k].toServer
           e == tcp_server_sent(slot[i], m)
           K == FromClient(link[k], 0, m)
<1>1. /\ k \in InUse /\ m > 0
      /\ ServerDo(SlotOf(k), e, K, r_buffer, "wait", "ok")
      /\ client' = client /\ verified' = verified /\ wrong' = wrong
  BY DEF ServerAck
<1>2. i \in Slots /\ slot[i].client_pcb = k
  BY <1>1, SlotInUse
<1>3. /\ slot[i] \in SlotState /\ link[k] \in LinkState /\ client[k] \in ClientState
      /\ r_buffer \in [Pos -> Int] /\ verified \in [Client -> Int] /\ wrong = {} /\ TypeOK
  BY <1>2 DEF Inv, TypeOK
<1>4. m \in Int /\ link[k].c2s \in Seq(Piece) /\ 0 \in Nat /\ 0 <= Len(link[k].c2s)
  BY <1>3 DEF LinkState
<1>5. /\ e \in SlotState /\ e.client_pcb = k /\ e.status = slot[i].status
      /\ e.count = slot[i].count
  <2>1. PICK p \in SlotState : p = slot[i]
    BY <1>3
  <2>2. /\ tcp_server_sent(p, m) \in SlotState /\ tcp_server_sent(p, m).client_pcb = p.client_pcb
        /\ tcp_server_sent(p, m).status = p.status /\ tcp_server_sent(p, m).count = p.count
    <3>1. client[k] \in ClientState /\ m \in Int
      BY <1>3, <1>4
    <3> QED
      BY ONLY <3>1, p \in SlotState, SentTypes
  <2> QED
    BY <1>2, <2>1, <2>2
<1>6. /\ K \in LinkState /\ K.sOpen = link[k].sOpen /\ K.cOpen = link[k].cOpen
      /\ K.lost = link[k].lost
  BY <1>3, <1>4, LinkTypes
<1>7. /\ e = tcp_server_sent(slot[i], link[k].toServer)
      /\ K = FromClient(link[k], 0, link[k].toServer)
  OBVIOUS
<1> HIDE DEF e, K, i
<1>8. /\ slot'[i] = e /\ link'[k] = K /\ r_buffer' = r_buffer /\ test1_buffer' = test1_buffer
      /\ \A j \in Slots \ {i} : slot'[j] = slot[j]
  <2>1. ServerDo(i, e, K, r_buffer, "wait", "ok") /\ "wait" \in {"wait", "result", "send"} /\ "ok" \in Result
    BY <1>1 DEF i, Result
  <2> QED
    BY ONLY <1>2, <1>3, <1>5, <1>6, <2>1, k \in Client, ServerDoes
<1>9. ASSUME k \notin disturbed
      PROVE  GoesWell(k)'
  <2>1. Running(k, i)
    BY <1>1, <1>9, ServerHas DEF i
  <2>2. /\ Sound(client'[k], link'[k]) /\ link'[k].sOpen
        /\ slot'[i].client_pcb = k /\ slot'[i].status = "ok" /\ verified'[k] = slot'[i].count
        /\ slot'[i].count >= 0 /\ slot'[i].count < TEST_ITERATIONS
    BY <1>1, <1>5, <1>6, <1>8, <2>1 DEF Running, Sound
  <2>3. \A j \in Slots \ {i} : slot'[j].client_pcb # k
    BY <1>8, <2>1 DEF Running
  <2>4. ASSUME NEW x \in Nat, Down(client[k], slot[i], link[k], x, test1_buffer)
        PROVE  Down(client'[k], slot'[i], link'[k], x, test1_buffer')
    <3>1. Down(client[k], e, K, x, test1_buffer)
      BY ONLY <1>1, <1>3, <1>7, <2>4, ServerHears
    <3> QED
      BY <1>1, <1>8, <3>1
  <2>5. ASSUME NEW y \in Nat, Up(client[k], slot[i], link[k], y, r_buffer)
        PROVE  Up(client'[k], slot'[i], link'[k], y, r_buffer')
    <3>1. Up(client[k], e, K, y, r_buffer)
      BY ONLY <1>1, <1>3, <1>7, <2>5, ServerHears
    <3> QED
      BY <1>1, <1>8, <3>1
  <2>6. \/ \E x \in Nat : Down(client'[k], slot'[i], link'[k], x, test1_buffer')
        \/ \E y \in Nat : Up(client'[k], slot'[i], link'[k], y, r_buffer')
    BY <2>1, <2>4, <2>5 DEF Running
  <2> QED
    BY ONLY <1>2, <2>2, <2>3, <2>6, k \in Client, RunsOn
<1> QED
  <2>1. "wait" \in {"wait", "result", "send"} /\ "ok" \in Result /\ verified' \in [Client -> Int]
        /\ wrong' = {} /\ (k \notin disturbed \cup disturbed' => GoesWell(k)')
    BY <1>1, <1>3, <1>9 DEF Result
  <2> QED
    BY ONLY <1>1, <1>3, <1>5, <1>6, <2>1, Inv, k \in Client, ServerStep

\* The client closes only a connection that is disturbed, or that the server has
\* left.
LEMMA ServerFinInv ==
    ASSUME Inv, NEW k \in Client, ServerFin(k)
    PROVE  Inv'
<1>1. /\ k \in InUse /\ ~link[k].cOpen
      /\ ServerDo(SlotOf(k), slot[SlotOf(k)], link[k], r_buffer, "result", "ok")
      /\ client' = client /\ verified' = verified /\ wrong' = wrong
  BY DEF ServerFin
<1>2. k \in disturbed
  BY <1>1, ServerHas DEF Running, Sound
<1>3. SlotOf(k) \in Slots /\ slot[SlotOf(k)].client_pcb = k
  BY <1>1, SlotInUse
<1>4. /\ slot[SlotOf(k)] \in SlotState /\ link[k] \in LinkState /\ r_buffer \in [Pos -> Int]
      /\ verified' \in [Client -> Int] /\ wrong' = {} /\ "ok" \in Result
      /\ "result" \in {"wait", "result", "send"}
  BY <1>1, <1>3 DEF Inv, TypeOK, Result
<1> QED
  BY ONLY <1>1, <1>2, <1>3, <1>4, Inv, k \in Client, ServerStep

\* The server only repeats a send on a connection that is disturbed.
LEMMA ServerPollInv ==
    ASSUME Inv, NEW k \in Client, NEW w \in Result, tcp_server_poll(k, w)
    PROVE  Inv'
<1>1. /\ k \in InUse /\ slot[SlotOf(k)].status = "mem"
      /\ ServerDo(SlotOf(k), slot[SlotOf(k)], link[k], r_buffer, "send", w)
      /\ client' = client /\ verified' = verified /\ wrong' = wrong
  BY DEF tcp_server_poll, RetriesSend
<1>2. k \in disturbed
  BY <1>1, ServerHas DEF Running
<1>3. SlotOf(k) \in Slots /\ slot[SlotOf(k)].client_pcb = k
  BY <1>1, SlotInUse
<1>4. /\ slot[SlotOf(k)] \in SlotState /\ link[k] \in LinkState /\ r_buffer \in [Pos -> Int]
      /\ verified' \in [Client -> Int] /\ wrong' = {} /\ w \in Result
      /\ "send" \in {"wait", "result", "send"}
  BY <1>1, <1>3 DEF Inv, TypeOK
<1> QED
  BY ONLY <1>1, <1>2, <1>3, <1>4, Inv, k \in Client, ServerStep

\* lwIP gives up only on a connection that is disturbed, in the model through Lose.
LEMMA ServerErrInv ==
    ASSUME Inv, NEW k \in Client, tcp_server_err(k)
    PROVE  Inv'
<1>1. PICK pcb \in {NoPcb, DeadPcb} :
        slot' = [slot EXCEPT ![SlotOf(k)] = Closed(slot[SlotOf(k)], pcb)]
  BY DEF tcp_server_err
<1>2. /\ k \in InUse /\ link[k].lost
      /\ UNCHANGED <<r_buffer, client, test1_buffer, link, budget, disturbed, verified, wrong>>
  BY DEF tcp_server_err
<1>3. k \in disturbed
  BY <1>2, ServerHas DEF Running, Sound
<1>4. SlotOf(k) \in Slots /\ slot \in [Slots -> SlotState]
  BY <1>2, SlotInUse DEF Inv, TypeOK
<1>5. PICK i \in Slots : i = SlotOf(k)
  BY <1>4
<1>6. /\ slot' \in [Slots -> SlotState] /\ slot'[i].client_pcb = pcb
      /\ \A j \in Slots \ {i} : slot'[j] = slot[j]
  BY <1>1, <1>4, <1>5, ClosedType
<1>7. TypeOK'
  BY <1>2, <1>6 DEF Inv, TypeOK
<1>8. \A j \in Client \ {k} : client'[j] = client[j] /\ (j \in InUse' => j \in InUse)
  BY <1>2, <1>6, ClientAssumption DEF InUse
<1>9. ~Idle(k) /\ wrong' = {} /\ disturbed \subseteq disturbed' /\ k \in disturbed'
  BY <1>2, <1>3 DEF Idle, Inv
<1> QED
  BY ONLY <1>7, <1>8, <1>9, Inv, k \in Client, OneActs

\* A connection arrives: the first round starts.
LEMMA AcceptInv ==
    ASSUME Inv, NEW k \in Client, NEW w \in Result, tcp_server_accept(k, w)
    PROVE  Inv'
<1> DEFINE free == {i \in Slots : slot[i].client_pcb = NoPcb}
           C == [client[k] EXCEPT !.st = "open"]
<1>1. client[k].st = "syn" /\ client' = [client EXCEPT ![k] = C] /\ wrong' = wrong
  BY DEF tcp_server_accept
<1>2. /\ client \in [Client -> ClientState] /\ link \in [Client -> LinkState]
      /\ slot \in [Slots -> SlotState] /\ wrong = {} /\ verified \in [Client -> Int]
      /\ r_buffer \in [Pos -> Int] /\ test1_buffer \in [Pos -> Int] /\ disturbed \subseteq Client
      /\ client[k] \in ClientState /\ link[k] \in LinkState /\ TypeOK
  BY DEF Inv, TypeOK
<1>3. /\ C \in ClientState /\ C.st = "open" /\ C.status = client[k].status
      /\ C.count = client[k].count /\ C.recv_len = client[k].recv_len
      /\ C.sent_len = client[k].sent_len
  BY <1>2 DEF ClientState
<1> HIDE DEF C
<1>4. /\ client' \in [Client -> ClientState] /\ client'[k] = C
      /\ \A j \in Client \ {k} : client'[j] = client[j]
  BY ONLY <1>1, <1>2, <1>3, k \in Client
<1>5. ~Idle(k) /\ wrong' = {}
  BY <1>1, <1>2 DEF Idle
<1>6. CASE free = {}
  <2> DEFINE K == [link[k] EXCEPT !.sOpen = FALSE]
  <2>1. /\ link' = [link EXCEPT ![k] = K] /\ disturbed' = disturbed \cup {k}
        /\ UNCHANGED <<slot, r_buffer, test1_buffer, budget, verified>>
    BY <1>6 DEF tcp_server_accept
  <2>2. K \in LinkState
    BY <1>2 DEF LinkState
  <2> HIDE DEF K
  <2>3. link' \in [Client -> LinkState]
    BY <1>2, <2>1, <2>2
  <2>4. TypeOK'
    BY <1>2, <1>4, <2>1, <2>3 DEF TypeOK
  <2>5. \A j \in Client \ {k} : client'[j] = client[j] /\ (j \in InUse' => j \in InUse)
    BY <1>4, <2>1 DEF InUse
  <2>6. disturbed \subseteq disturbed' /\ (k \notin disturbed' => GoesWell(k)')
    BY <2>1
  <2> QED
    BY ONLY <1>5, <2>4, <2>5, <2>6, Inv, k \in Client, OneActs
<1>7. CASE free # {}
  <2>1. PICK i : i = Min(free)
    OBVIOUS
  <2>2. i \in Slots /\ slot[i].client_pcb = NoPcb
    <3>1. i \in free
      <4>1. free \subseteq Nat
        BY SlotAssumption
      <4> HIDE DEF free
      <4>2. PICK least \in free : \A j \in free : least <= j
        BY <1>7, <4>1, LeastElement
      <4> QED
        BY <2>1, <4>2 DEF Min
    <3> QED
      BY <3>1
  <2> DEFINE S == [slot[i] EXCEPT !.client_pcb = k, !.count = 0, !.sent_len = 0,
                                  !.status = Noted(slot[i], w)]
             K == [AllAged[k] EXCEPT !.s2c = Filled(AllAged[k].s2c, 0)]
  <2>3. /\ slot' = [slot EXCEPT ![i] = S]
        /\ link' = IF w = "mem" THEN AllAged ELSE [AllAged EXCEPT ![k] = K]
        /\ r_buffer' = AllOld /\ test1_buffer' = AllOld
        /\ disturbed' = IF w = "mem" \/ slot[i].status = "mem" THEN disturbed \cup {k}
                        ELSE disturbed
        /\ verified' = [verified EXCEPT ![k] = 0]
    BY <1>7, <2>1 DEF tcp_server_accept
  <2>4. slot[i] \in SlotState
    BY <1>2, <2>2
  <2>5. /\ S \in SlotState /\ S.client_pcb = k /\ S.count = 0 /\ S.sent_len = 0
        /\ S.status = Noted(slot[i], w)
    <3>1. PICK zero \in Int : zero = 0
      OBVIOUS
    <3>2. Noted(slot[i], w) \in Result
      BY <2>4 DEF Noted, SlotState, Result
    <3>3. S = [slot[i] EXCEPT !.client_pcb = k, !.count = zero, !.sent_len = zero,
                              !.status = Noted(slot[i], w)]
      BY <3>1
    <3> HIDE DEF S
    <3>4. /\ S \in SlotState /\ S.client_pcb = k /\ S.count = zero /\ S.sent_len = zero
          /\ S.status = Noted(slot[i], w)
      BY ONLY <2>4, <3>2, <3>3, zero \in Int, k \in Client DEF SlotState
    <3> QED
      BY <3>1, <3>4
  <2> HIDE DEF S
  <2>6. /\ slot' \in [Slots -> SlotState] /\ slot'[i] = S
        /\ \A j \in Slots \ {i} : slot'[j] = slot[j]
    BY ONLY <1>2, <2>2, <2>3, <2>5
  <2>7. /\ AllAged \in [Client -> LinkState] /\ AllAged[k] \in LinkState
        /\ Len(AllAged[k].s2c) = Len(link[k].s2c) /\ Len(AllAged[k].c2s) = Len(link[k].c2s)
        /\ AllAged[k].toServer = link[k].toServer /\ AllAged[k].toClient = link[k].toClient
        /\ AllAged[k].sOpen = link[k].sOpen
        /\ AllAged[k].cOpen = link[k].cOpen /\ AllAged[k].lost = link[k].lost
    BY <1>2, AllAgedType
  <2>8. AllAged[k].s2c \in Seq(Piece)
    BY <2>7 DEF LinkState
  <2>9. Filled(AllAged[k].s2c, 0) \in Seq(Piece)
        /\ (Len(AllAged[k].s2c) = 0 => Pieces(Filled(AllAged[k].s2c, 0), 0, 0))
    BY ONLY <2>8, 0 \in Int, FilledFacts
  <2>10. /\ K \in LinkState /\ K.s2c = Filled(AllAged[k].s2c, 0) /\ K.c2s = AllAged[k].c2s
         /\ K.toServer = AllAged[k].toServer /\ K.toClient = AllAged[k].toClient
         /\ K.sOpen = AllAged[k].sOpen /\ K.cOpen = AllAged[k].cOpen /\ K.lost = AllAged[k].lost
    BY ONLY <2>7, <2>9 DEF LinkState
  <2> HIDE DEF K
  <2>11. link' \in [Client -> LinkState] /\ (w # "mem" => link'[k] = K)
    BY ONLY <2>3, <2>7, <2>10, k \in Client
  <2>12. TypeOK'
    <3>1. AllOld \in [Pos -> Int]
      BY DEF AllOld, Old
    <3>2. verified' \in [Client -> Int] /\ disturbed' \subseteq Client
      BY <1>2, <2>3
    <3> QED
      BY <1>4, <2>3, <2>6, <2>11, <3>1, <3>2 DEF TypeOK
  <2>13. \A j \in Client \ {k} : client'[j] = client[j] /\ (j \in InUse' => j \in InUse)
    <3>1. ASSUME NEW j \in Client \ {k}, j \in InUse'
          PROVE  j \in InUse
      <4>1. PICK e \in Slots : slot'[e].client_pcb = j
        BY <3>1 DEF InUse
      <4>2. e # i
        BY <2>5, <2>6, <3>1, <4>1
      <4> QED
        BY <2>6, <4>1, <4>2 DEF InUse
    <3> QED
      BY <1>4, <3>1
  <2>14. disturbed \subseteq disturbed'
    BY <2>3
  <2>15. ASSUME k \notin disturbed'
         PROVE  GoesWell(k)'
    <3>1. k \notin disturbed /\ w = "ok" /\ slot[i].status = "ok" /\ Noted(slot[i], w) = "ok"
      BY <2>3, <2>4, <2>15 DEF Noted, SlotState, Result
    <3>2. Opening(k)
      BY <1>1, <3>1 DEF Inv, GoesWell, Idle, Running, Ending, Sound
    <3>3. /\ client[k].status = "ok" /\ client[k].count = 0 /\ client[k].recv_len = 0
          /\ client[k].sent_len = 0
          /\ Len(link[k].s2c) = 0 /\ Len(link[k].c2s) = 0 /\ link[k].toServer = 0
          /\ link[k].toClient = 0 /\ link[k].sOpen /\ link[k].cOpen /\ ~link[k].lost
      BY <3>2 DEF Opening
    <3>4. \A j \in Slots \ {i} : slot'[j].client_pcb # k
      BY <2>6, <3>2 DEF Opening, InUse
    <3>5. client'[k] = C /\ slot'[i] = S /\ link'[k] = K
      BY <1>4, <2>6, <2>11, <3>1
    <3>6. Sound(client'[k], link'[k]) /\ link'[k].sOpen
      BY <1>3, <2>7, <2>10, <3>3, <3>5 DEF Sound
    <3>7. Down(client'[k], slot'[i], link'[k], 0, test1_buffer')
      <4>1. Holds(test1_buffer', 0)
        BY DEF Holds
      <4>2. 0 \in 0 .. TEST1_BUF_SIZE - 1 /\ 0 + 0 = 0 /\ 0 >= 0
        BY Sizes
      <4>3. Pieces(K.s2c, 0, 0) /\ Len(K.c2s) = 0 /\ K.toServer = 0 /\ K.toClient = 0
        BY <2>7, <2>9, <2>10, <3>3
      <4> QED
        BY ONLY <1>3, <2>5, <3>3, <3>5, <4>1, <4>2, <4>3 DEF Down
    <3>8. /\ slot'[i].client_pcb = k /\ slot'[i].status = "ok" /\ verified'[k] = slot'[i].count
          /\ slot'[i].count >= 0 /\ slot'[i].count < TEST_ITERATIONS
      BY <1>2, <2>3, <2>5, <3>1, <3>5, Sizes
    <3>9. \E x \in Nat : Down(client'[k], slot'[i], link'[k], x, test1_buffer')
      BY <3>7
    <3> QED
      BY ONLY <2>2, <3>4, <3>6, <3>8, <3>9, k \in Client, RunsOn
  <2> QED
    BY ONLY <1>5, <2>12, <2>13, <2>14, <2>15, Inv, k \in Client, OneActs
<1> QED
  BY <1>6, <1>7

\* A handler of the client keeps the invariant, if it goes well for the connection
\* it is about.
LEMMA ClientStep ==
    ASSUME Inv, NEW k \in Client, client[k].st = "open",
           NEW c \in ClientState, NEW L \in LinkState,
           NEW do \in {"wait", "result", "send"}, NEW w \in Result,
           ClientDo(k, c, L, do, w), test1_buffer' \in [Pos -> Int],
           slot' = slot, r_buffer' = r_buffer, verified' = verified, wrong' = {},
           k \notin disturbed \cup disturbed' => GoesWell(k)'
    PROVE  Inv'
<1>1. TypeOK
  BY DEF Inv
<1>2. /\ client' \in [Client -> ClientState] /\ link' \in [Client -> LinkState]
      /\ disturbed \subseteq disturbed' /\ disturbed' \subseteq Client
      /\ \A j \in Client \ {k} : client'[j] = client[j]
  BY <1>1, ClientDoes
<1>3. TypeOK'
  BY <1>1, <1>2 DEF TypeOK
<1>4. ~Idle(k)
  BY DEF Idle
<1>5. \A j \in Client \ {k} : client'[j] = client[j] /\ (j \in InUse' => j \in InUse)
  BY <1>2 DEF InUse
<1> QED
  BY <1>2, <1>3, <1>4, <1>5, OneActs

\* An acknowledgement alone at the client: the test ends, with success, only after
\* the server has found every round right.
LEMMA ClientAckInv ==
    ASSUME Inv, NEW k \in Client, ClientAck(k)
    PROVE  Inv'
<1> DEFINE m == link[k].toClient
           e == tcp_client_sent(client[k], m)
           K == FromServer(link[k], 0, m)
           do == IF Completed(e) THEN "result" ELSE "wait"
<1>1. /\ client[k].st = "open" /\ m > 0
      /\ ClientDo(k, e, K, do, "ok")
      /\ IF Completed(e) THEN Success(k) ELSE UNCHANGED wrong
      /\ slot' = slot /\ r_buffer' = r_buffer /\ test1_buffer' = test1_buffer /\ verified' = verified
  BY DEF ClientAck
<1>2. /\ link[k] \in LinkState /\ client[k] \in ClientState /\ slot \in [Slots -> SlotState]
      /\ test1_buffer \in [Pos -> Int] /\ wrong = {} /\ TypeOK
  BY DEF Inv, TypeOK
<1>3. m \in Int /\ link[k].s2c \in Seq(Piece) /\ 0 \in Nat /\ 0 <= Len(link[k].s2c)
  BY <1>2 DEF LinkState
<1>4. e \in ClientState /\ e.st = client[k].st /\ e.status = client[k].status
  <2>1. [client_pcb |-> NoPcb, status |-> "ok", count |-> 0, recv_len |-> 0, sent_len |-> 0] \in SlotState
    BY DEF SlotState, Result
  <2>2. PICK p : p \in SlotState
    BY <2>1
  <2> QED
    BY ONLY <1>2, <1>3, <2>2, SentTypes
<1>5. /\ K \in LinkState /\ K.sOpen = link[k].sOpen /\ K.cOpen = link[k].cOpen
      /\ K.lost = link[k].lost
  BY <1>2, <1>3, LinkTypes
<1>6. e = tcp_client_sent(client[k], link[k].toClient) /\ K = FromServer(link[k], 0, link[k].toClient)
  OBVIOUS
<1>7. do \in {"wait", "result", "send"} /\ "ok" \in Result
  BY DEF Result
<1> HIDE DEF e, K, do
<1>8. /\ do = "wait" => client'[k] = e /\ link'[k] = K
      /\ do = "result" => client'[k] = NoClient
  BY ONLY <1>1, <1>2, <1>4, <1>5, <1>7, k \in Client, ClientDoes
<1>9. /\ link[k] \in LinkState /\ client[k] \in ClientState /\ link[k].toClient > 0
      /\ e = tcp_client_sent(client[k], link[k].toClient)
      /\ K = FromServer(link[k], 0, link[k].toClient)
  BY <1>1, <1>2, <1>6
<1>10. ASSUME k \notin disturbed
       PROVE  wrong' = {} /\ GoesWell(k)'
  <2>1. CASE Ending(k)
    <3>1. Over(client[k], link[k], verified[k])
      BY <2>1 DEF Ending
    <3>2. e.count = TEST_ITERATIONS /\ verified[k] = TEST_ITERATIONS
      <4>1. PICK v : v = verified[k]
        OBVIOUS
      <4>2. Over(client[k], link[k], v)
        BY <3>1, <4>1
      <4>3. e.count = TEST_ITERATIONS /\ v = TEST_ITERATIONS
        BY ONLY <1>9, <4>2, ClientHears
      <4> QED
        BY <4>1, <4>3
    <3>3. Completed(e) /\ do = "result"
      BY <3>2, Sizes DEF Completed, do
    <3>4. wrong' = {}
      BY <1>1, <1>2, <3>2, <3>3, Sizes DEF Success
    <3>5. client'[k].st = "free" /\ k \notin InUse'
      BY <1>1, <1>8, <2>1, <3>3 DEF NoClient, Ending, InUse
    <3> QED
      BY <3>4, <3>5 DEF GoesWell, Idle
  <2>2. CASE \E i \in Slots : Running(k, i)
    <3>1. PICK i \in Slots : Running(k, i)
      BY <2>2
    <3>2. slot[i] \in SlotState /\ slot[i].count < TEST_ITERATIONS /\ slot[i].count \in Int
      BY <1>2, <3>1 DEF Running, SlotState
    <3>3. \A x \in Nat : Down(client[k], slot[i], link[k], x, test1_buffer) =>
            e.count = slot[i].count /\ Down(e, slot[i], K, x, test1_buffer)
      BY ONLY <1>9, <3>2, ClientHears
    <3>4. \A y \in Nat : Up(client[k], slot[i], link[k], y, r_buffer) =>
            e.count = slot[i].count /\ Up(e, slot[i], K, y, r_buffer)
      BY ONLY <1>9, <3>2, ClientHears
    <3>5. e.count = slot[i].count
      BY <3>1, <3>3, <3>4 DEF Running
    <3>6. ~Completed(e) /\ do = "wait"
      BY <3>2, <3>5, Sizes DEF Completed, do
    <3>7. wrong' = {} /\ client'[k] = e /\ link'[k] = K
      BY <1>1, <1>2, <1>8, <3>6
    <3>8. /\ slot'[i].client_pcb = k /\ slot'[i].status = "ok" /\ verified'[k] = slot'[i].count
          /\ slot'[i].count >= 0 /\ slot'[i].count < TEST_ITERATIONS
          /\ Sound(client'[k], link'[k]) /\ link'[k].sOpen
          /\ \A j \in Slots \ {i} : slot'[j].client_pcb # k
      BY <1>1, <1>4, <1>5, <3>1, <3>7 DEF Running, Sound
    <3>9. \/ \E x \in Nat : Down(client'[k], slot'[i], link'[k], x, test1_buffer')
          \/ \E y \in Nat : Up(client'[k], slot'[i], link'[k], y, r_buffer')
      BY <1>1, <3>1, <3>3, <3>4, <3>7 DEF Running
    <3> QED
      BY ONLY <3>7, <3>8, <3>9, k \in Client, i \in Slots, RunsOn
  <2> QED
    BY <1>1, <1>10, <2>1, <2>2, ClientHas
<1>11. wrong' = {}
  BY <1>1, <1>2, <1>10 DEF Success
<1>12. test1_buffer' \in [Pos -> Int] /\ (k \notin disturbed \cup disturbed' => GoesWell(k)')
  BY <1>1, <1>2, <1>10
<1> QED
  BY ONLY <1>1, <1>4, <1>5, <1>7, <1>11, <1>12, Inv, k \in Client, ClientStep

\* tcp_client_recv: the client sends back the buffer of the round once it has all
\* of it, and not before.
LEMMA ClientRecvInv ==
    ASSUME Inv, NEW k \in Client, NEW n \in Pos, NEW w \in Result, tcp_client_recv(k, n, w)
    PROVE  Inv'
<1> DEFINE m == link[k].s2c[n].ack
           pieces == First(link[k].s2c, n)
           L == FromServer(link[k], n, m)
           c == IF m > 0 THEN tcp_client_sent(client[k], m) ELSE client[k]
           got == Received(test1_buffer, c.recv_len, pieces)
           d == [c EXCEPT !.recv_len = NewLen(c.recv_len, pieces)]
           do == CASE Completed(c) -> "result"
                   [] ~Completed(c) /\ d.recv_len = TEST1_BUF_SIZE -> "send"
                   [] OTHER -> "wait"
<1>1. /\ client[k].st = "open" /\ n <= Len(link[k].s2c)
      /\ test1_buffer' = IF Completed(c) THEN test1_buffer ELSE got
      /\ ClientDo(k, d, L, do, w)
      /\ IF Completed(c) THEN Success(k) ELSE UNCHANGED wrong
      /\ slot' = slot /\ r_buffer' = r_buffer /\ verified' = verified
  BY DEF tcp_client_recv, First
<1>2. /\ link[k] \in LinkState /\ client[k] \in ClientState /\ slot \in [Slots -> SlotState]
      /\ test1_buffer \in [Pos -> Int] /\ wrong = {} /\ TypeOK
  BY DEF Inv, TypeOK
<1>3. \E p : p \in SlotState
  <2>1. [client_pcb |-> NoPcb, status |-> "ok", count |-> 0, recv_len |-> 0, sent_len |-> 0] \in SlotState
    BY DEF SlotState, Result
  <2> QED
    BY <2>1
<1>4. /\ n \in Nat /\ n >= 1 /\ m \in Int /\ pieces \in Seq(Int)
      /\ \A len \in Int : /\ Received(test1_buffer, len, pieces) \in [Pos -> Int]
                          /\ NewLen(len, pieces) \in Int
  <2>1. PICK p : p \in SlotState
    BY <1>3
  <2> QED
    BY <1>1, <1>2, <2>1, SegmentTypes
<1>5. c \in ClientState
  <2>1. tcp_client_sent(client[k], m) \in ClientState
    <3>1. PICK p \in SlotState : TRUE
      BY <1>3
    <3>2. m \in Int /\ client[k] \in ClientState
      BY <1>2, <1>4
    <3> QED
      BY ONLY <3>2, p \in SlotState, SentTypes
  <2> QED
    BY <1>2, <2>1
<1>6. L \in LinkState
  BY <1>1, <1>2, <1>4, LinkTypes
<1>7. /\ m > 0 => c = tcp_client_sent(client[k], m)
      /\ ~(m > 0) => c = client[k]
      /\ pieces = First(link[k].s2c, n) /\ L = FromServer(link[k], n, m)
      /\ got = Received(test1_buffer, c.recv_len, pieces)
  OBVIOUS
<1> HIDE DEF pieces, L, c, got
<1>8. /\ d \in ClientState /\ d.st = c.st /\ d.status = c.status /\ d.count = c.count
      /\ d.sent_len = c.sent_len /\ d.recv_len = NewLen(c.recv_len, pieces)
  BY <1>4, <1>5 DEF ClientState
<1>9. test1_buffer' \in [Pos -> Int]
  <2>1. got \in [Pos -> Int]
    BY <1>4, <1>5, <1>7 DEF ClientState
  <2> QED
    BY <1>1, <1>2, <2>1
<1> HIDE DEF d
<1>10. do \in {"wait", "result", "send"}
  OBVIOUS
<1>11. /\ do = "wait" => client'[k] = d /\ link'[k] = L
       /\ do = "send" /\ w = "mem" => k \in disturbed'
       /\ do = "send" /\ w = "ok" =>
            /\ client'[k].st = d.st /\ client'[k].status = d.status
            /\ client'[k].count = d.count /\ client'[k].recv_len = d.recv_len
            /\ client'[k].sent_len = d.sent_len
            /\ link'[k].c2s = Written(L.c2s, test1_buffer', L.toServer)
            /\ link'[k].s2c = L.s2c
            /\ link'[k].toServer = L.toServer /\ link'[k].toClient = L.toClient
            /\ link'[k].sOpen = L.sOpen /\ link'[k].cOpen = L.cOpen /\ link'[k].lost = L.lost
  <2> HIDE DEF do
  <2>1. ClientDo(k, d, L, do, w)
    BY <1>1
  <2> QED
    BY ONLY <1>2, <1>6, <1>8, <1>9, <1>10, <2>1, k \in Client, w \in Result, ClientDoes
<1>12. ASSUME k \notin disturbed
       PROVE  wrong' = {} /\ (k \notin disturbed' => GoesWell(k)')
  <2>0. TEST1_BUF_SIZE \in Nat /\ TEST1_BUF_SIZE >= 1 /\ TEST_ITERATIONS \in Nat
    BY Sizes
  <2>1. ~Ending(k)
    BY <1>1, <1>4 DEF Ending, Over
  <2>2. PICK i \in Slots : Running(k, i)
    BY <1>1, <1>12, <2>1, ClientHas
  <2>3. ~(\E y \in Nat : Up(client[k], slot[i], link[k], y, r_buffer))
    BY <1>1, <1>4 DEF Up
  <2>4. PICK x \in Nat : Down(client[k], slot[i], link[k], x, test1_buffer)
    BY <2>2, <2>3 DEF Running
  <2>5. /\ c.count = slot[i].count /\ x + n <= TEST1_BUF_SIZE
        /\ c.st = client[k].st /\ c.status = client[k].status /\ c.sent_len = 0
        /\ NewLen(c.recv_len, pieces) = x + n
        /\ L.toClient = 0 /\ Pieces(L.s2c, x + n, 0) /\ Len(L.c2s) = 0
        /\ slot[i].sent_len + L.toServer = x + n /\ L.toServer > 0
        /\ Holds(got, x + n)
    <3>1. /\ n <= Len(link[k].s2c) /\ n \in Pos /\ x \in Nat
          /\ client[k] \in ClientState /\ slot[i] \in SlotState /\ link[k] \in LinkState
          /\ test1_buffer \in [Pos -> Int]
      BY <1>1, <1>2
    <3> QED
      BY ONLY <1>7, <2>4, <3>1, ClientGets, SMTT(30)
  <2>6. /\ slot[i].count < TEST_ITERATIONS /\ slot[i].count >= 0 /\ slot[i].count \in Int
        /\ slot[i].status = "ok" /\ slot[i].client_pcb = k /\ verified[k] = slot[i].count
        /\ \A j \in Slots \ {i} : slot[j].client_pcb # k
    BY <1>2, <2>2 DEF Running, SlotState
  <2>7. ~Completed(c)
    BY <2>0, <2>5, <2>6 DEF Completed
  <2>8. wrong' = {} /\ test1_buffer' = got
    BY <1>1, <1>2, <2>7
  <2>9. /\ L.sOpen /\ L.cOpen /\ ~L.lost
        /\ c.st = "open" /\ c.status = "ok"
    <3>1. L.sOpen = link[k].sOpen /\ L.cOpen = link[k].cOpen /\ L.lost = link[k].lost
      BY <1>1, <1>2, <1>4, LinkTypes DEF L
    <3> QED
      BY <2>2, <2>5, <3>1 DEF Running, Sound
  <2>10. /\ slot'[i].client_pcb = k /\ slot'[i].status = "ok" /\ verified'[k] = slot'[i].count
         /\ slot'[i].count >= 0 /\ slot'[i].count < TEST_ITERATIONS
         /\ i \in Slots /\ \A j \in Slots \ {i} : slot'[j].client_pcb # k
    BY <1>1, <2>6
  <2>11. CASE x + n # TEST1_BUF_SIZE
    <3>1. do = "wait"
      BY <1>8, <2>5, <2>7, <2>11
    <3>2. client'[k] = d /\ link'[k] = L
      BY <1>11, <3>1
    <3>3. Sound(client'[k], link'[k]) /\ link'[k].sOpen
      BY <1>8, <2>9, <3>2 DEF Sound
    <3>4. x + n \in Nat /\ x + n \in 0 .. TEST1_BUF_SIZE - 1 /\ L.toServer >= 0
      <4>1. L.toServer \in Int
        BY <1>6 DEF LinkState
      <4>2. n \in Nat /\ x \in Nat /\ x + n <= TEST1_BUF_SIZE /\ L.toServer > 0
        BY <1>4, <2>5
      <4> QED
        BY ONLY <2>0, <2>11, <4>1, <4>2
    <3>5. Down(client'[k], slot'[i], link'[k], x + n, test1_buffer')
      BY ONLY <1>1, <1>8, <2>5, <2>8, <3>2, <3>4 DEF Down
    <3>6. \E z \in Nat : Down(client'[k], slot'[i], link'[k], z, test1_buffer')
      BY <3>4, <3>5
    <3>7. GoesWell(k)'
      BY ONLY <2>10, <3>3, <3>6, k \in Client, RunsOn
    <3> QED
      BY <2>8, <3>7
  <2>12. CASE x + n = TEST1_BUF_SIZE
    <3>1. do = "send"
      BY <1>8, <2>5, <2>7, <2>12
    <3>2. CASE w = "mem"
      BY <1>11, <2>8, <3>1, <3>2
    <3>3. CASE w = "ok"
      <4>1. /\ client'[k].st = "open" /\ client'[k].status = "ok"
            /\ client'[k].count = slot'[i].count /\ client'[k].recv_len = TEST1_BUF_SIZE
            /\ client'[k].sent_len = 0
            /\ link'[k].c2s = Written(L.c2s, test1_buffer', L.toServer)
            /\ link'[k].s2c = L.s2c
            /\ link'[k].toServer = L.toServer /\ link'[k].toClient = 0
            /\ link'[k].sOpen /\ link'[k].cOpen /\ ~link'[k].lost
        BY <1>1, <1>8, <1>11, <2>5, <2>9, <2>12, <3>1, <3>3
      <4>2. Pieces(link'[k].c2s, 0, L.toServer)
        <5>1. L.c2s \in Seq(Piece) /\ L.toServer \in Int
          BY <1>6 DEF LinkState
        <5> QED
          BY <1>9, <2>5, <2>8, <2>12, <4>1, <5>1, WrittenFacts
      <4>3. Len(L.s2c) = 0
        BY <2>0, <2>5, <2>12 DEF Pieces
      <4>4. /\ 0 \in 0 .. TEST1_BUF_SIZE - 1 /\ 0 + 0 = 0 /\ 0 >= 0
            /\ slot'[i].sent_len + L.toServer = TEST1_BUF_SIZE
        BY <1>1, <2>0, <2>5, <2>12
      <4>5. Up(client'[k], slot'[i], link'[k], 0, r_buffer')
        BY ONLY <2>5, <4>1, <4>2, <4>3, <4>4 DEF Up
      <4>6. \E z \in Nat : Up(client'[k], slot'[i], link'[k], z, r_buffer')
        BY <4>5
      <4>7. Sound(client'[k], link'[k]) /\ link'[k].sOpen
        BY <4>1 DEF Sound
      <4>8. GoesWell(k)'
        BY ONLY <2>10, <4>6, <4>7, k \in Client, RunsOn
      <4> QED
        BY <2>8, <4>8
    <3> QED
      BY <3>2, <3>3 DEF Result
  <2> QED
    BY <2>11, <2>12
<1>13. wrong' = {} /\ (k \notin disturbed \cup disturbed' => GoesWell(k)')
  BY <1>1, <1>2, <1>12 DEF Success
<1> HIDE DEF do
<1>14. client[k].st = "open" /\ ClientDo(k, d, L, do, w) /\ slot' = slot /\ r_buffer' = r_buffer
       /\ verified' = verified
  BY <1>1
<1> QED
  BY ONLY <1>6, <1>8, <1>9, <1>10, <1>13, <1>14, Inv, k \in Client, w \in Result, ClientStep

\* The server closes only a connection that is disturbed, or one that still has
\* something to tell the client.
LEMMA ClientFinInv ==
    ASSUME Inv, NEW k \in Client, ClientFin(k)
    PROVE  Inv'
<1>1. /\ client[k].st = "open" /\ ~link[k].sOpen /\ link[k].toClient = 0
      /\ ClientDo(k, client[k], link[k], "result", "ok")
      /\ wrong' = IF k \notin disturbed THEN wrong \cup {k} ELSE wrong
      /\ slot' = slot /\ r_buffer' = r_buffer /\ test1_buffer' = test1_buffer /\ verified' = verified
  BY DEF ClientFin
<1>2. k \in disturbed
  BY <1>1, ClientHas DEF Running, Ending, Over
<1>3. /\ client[k] \in ClientState /\ link[k] \in LinkState /\ test1_buffer' \in [Pos -> Int]
      /\ wrong' = {} /\ "ok" \in Result /\ "result" \in {"wait", "result", "send"}
  BY <1>1, <1>2 DEF Inv, TypeOK, Result
<1> QED
  BY ONLY <1>1, <1>2, <1>3, Inv, k \in Client, ClientStep

\* The client only repeats a send on a connection that is disturbed.
LEMMA ClientPollInv ==
    ASSUME Inv, NEW k \in Client, NEW w \in Result, tcp_client_poll(k, w)
    PROVE  Inv'
<1>1. /\ client[k].st = "open" /\ client[k].status = "mem"
      /\ ClientDo(k, client[k], link[k], "send", w)
      /\ wrong' = wrong
      /\ slot' = slot /\ r_buffer' = r_buffer /\ test1_buffer' = test1_buffer /\ verified' = verified
  BY DEF tcp_client_poll
<1>2. k \in disturbed
  BY <1>1, ClientHas DEF Running, Ending, Sound
<1>3. /\ client[k] \in ClientState /\ link[k] \in LinkState /\ test1_buffer' \in [Pos -> Int]
      /\ wrong' = {} /\ w \in Result /\ "send" \in {"wait", "result", "send"}
  BY <1>1 DEF Inv, TypeOK
<1> QED
  BY ONLY <1>1, <1>2, <1>3, Inv, k \in Client, ClientStep

\* The steps that only concern a client object.
LEMMA ClientErrInv ==
    ASSUME Inv, NEW k \in Client, tcp_client_err(k)
    PROVE  Inv'
<1>1. PICK st \in {"free", "stuck"} : client' = [client EXCEPT ![k] = [NoClient EXCEPT !.st = st]]
  BY DEF tcp_client_err
<1>2. /\ client[k].st = "open" /\ link[k].lost
      /\ UNCHANGED <<slot, r_buffer, test1_buffer, link, budget, disturbed, verified, wrong>>
  BY DEF tcp_client_err
<1>3. k \in disturbed /\ k \in disturbed'
  BY <1>2, ClientHas DEF Running, Ending, Sound
<1>4. [NoClient EXCEPT !.st = st] \in ClientState
  BY DEF NoClient, ClientState, Result
<1>5. client' \in [Client -> ClientState] /\ \A j \in Client \ {k} : client'[j] = client[j]
  BY <1>1, <1>4 DEF Inv, TypeOK
<1>6. TypeOK'
  BY <1>2, <1>5 DEF Inv, TypeOK
<1>7. \A j \in Client \ {k} : client'[j] = client[j] /\ (j \in InUse' => j \in InUse)
  BY <1>2, <1>5 DEF InUse
<1>8. ~Idle(k) /\ wrong' = {} /\ disturbed \subseteq disturbed'
  BY <1>2 DEF Idle, Inv
<1> QED
  BY ONLY <1>3, <1>6, <1>7, <1>8, Inv, k \in Client, OneActs

\* dns_found: the client goes on to connect, gives up, or is left waiting.
LEMMA DnsInv ==
    ASSUME Inv, NEW k \in Client, dns_found(k)
    PROVE  Inv'
<1>1. PICK st \in {"syn", "stuck", "free"} : client' = [client EXCEPT ![k].st = st]
  BY DEF dns_found
<1>2. /\ client[k].st = "dns"
      /\ UNCHANGED <<slot, r_buffer, test1_buffer, link, budget, disturbed, verified, wrong>>
  BY DEF dns_found
<1> DEFINE C == [client[k] EXCEPT !.st = st]
<1>3. client \in [Client -> ClientState] /\ client[k] \in ClientState
  BY DEF Inv, TypeOK
<1>4. /\ C \in ClientState /\ C.st = st /\ C.status = client[k].status /\ C.count = client[k].count
      /\ C.recv_len = client[k].recv_len /\ C.sent_len = client[k].sent_len
  BY <1>3 DEF ClientState
<1>5. client' = [client EXCEPT ![k] = C]
  BY <1>1
<1> HIDE DEF C
<1>6. /\ client' \in [Client -> ClientState] /\ client'[k] = C
      /\ \A j \in Client \ {k} : client'[j] = client[j]
  BY ONLY <1>3, <1>4, <1>5, k \in Client
<1>7. TypeOK'
  BY <1>2, <1>6 DEF Inv, TypeOK
<1>8. \A j \in Client \ {k} : client'[j] = client[j] /\ (j \in InUse' => j \in InUse)
  BY <1>2, <1>6 DEF InUse
<1>9. ~Idle(k) /\ wrong' = {} /\ disturbed \subseteq disturbed'
  BY <1>2 DEF Idle, Inv
<1>10. ASSUME k \notin disturbed'
       PROVE  GoesWell(k)'
  <2>1. Opening(k)
    BY <1>2, <1>10 DEF Inv, GoesWell, Idle, Running, Ending, Sound
  <2>2. k \notin InUse'
    BY <1>2, <2>1 DEF Opening, InUse
  <2>3. CASE st = "free"
    BY <1>4, <1>6, <2>2, <2>3 DEF GoesWell, Idle
  <2>4. CASE st \in {"syn", "stuck"}
    <3>1. link'[k] = link[k]
      BY <1>2
    <3>2. Opening(k)'
      BY ONLY <1>4, <1>6, <2>1, <2>2, <2>4, <3>1 DEF Opening
    <3> QED
      BY <3>2 DEF GoesWell
  <2> QED
    BY <2>3, <2>4
<1> QED
  BY ONLY <1>7, <1>8, <1>9, <1>10, Inv, k \in Client, OneActs

\* A connection that is lost is disturbed.
LEMMA LoseInv ==
    ASSUME Inv, NEW k \in Client, Lose(k)
    PROVE  Inv'
<1> DEFINE K == [NoLink EXCEPT !.lost = TRUE]
<1>1. /\ client[k].st = "open" /\ disturbed' = disturbed \cup {k}
      /\ link' = [link EXCEPT ![k] = K]
      /\ UNCHANGED <<slot, r_buffer, client, test1_buffer, verified, wrong>>
  BY DEF Lose
<1>2. K \in LinkState
  BY NoLinkFacts DEF LinkState
<1> HIDE DEF K
<1>3. TypeOK'
  BY <1>1, <1>2 DEF Inv, TypeOK
<1>4. \A j \in Client \ {k} : client'[j] = client[j] /\ (j \in InUse' => j \in InUse)
  BY <1>1 DEF InUse
<1>5. ~Idle(k) /\ wrong' = {} /\ disturbed \subseteq disturbed' /\ k \in disturbed'
  BY <1>1 DEF Idle, Inv
<1> QED
  BY ONLY <1>3, <1>4, <1>5, Inv, k \in Client, OneActs

\* main opens a client: it is alone, or everybody is disturbed.
LEMMA OpenInv ==
    ASSUME Inv, NEW k \in Client, tcp_client_sendtest_init_open(k)
    PROVE  Inv'
<1> DEFINE K == [NoLink EXCEPT !.sOpen = TRUE, !.cOpen = TRUE]
           others == {j \in Client \ {k} : client[j].st # "free"} \cup InUse
<1>1. PICK st \in {"dns", "syn", "stuck"} :
        /\ client' = [client EXCEPT ![k] = [NoClient EXCEPT !.st = st]]
        /\ link' = [link EXCEPT ![k] = K]
  BY DEF tcp_client_sendtest_init_open
<1>2. /\ client[k].st = "free" /\ k \notin InUse
      /\ disturbed' = (disturbed \ {k}) \cup IF others = {} THEN {} ELSE others \cup {k}
      /\ UNCHANGED <<slot, r_buffer, test1_buffer, budget, verified, wrong>>
  BY DEF tcp_client_sendtest_init_open
<1> DEFINE C == [NoClient EXCEPT !.st = st]
<1>3. /\ C \in ClientState /\ C.st = st /\ C.status = "ok" /\ C.count = 0 /\ C.recv_len = 0
      /\ C.sent_len = 0
  BY DEF NoClient, ClientState, Result
<1>4. /\ K \in LinkState /\ Len(K.s2c) = 0 /\ Len(K.c2s) = 0 /\ K.toServer = 0 /\ K.toClient = 0
      /\ K.sOpen /\ K.cOpen /\ ~K.lost
  BY NoLinkFacts DEF LinkState
<1> HIDE DEF K
<1>5. client' = [client EXCEPT ![k] = C]
  BY <1>1
<1> HIDE DEF C
<1>6. /\ client \in [Client -> ClientState] /\ link \in [Client -> LinkState] /\ wrong' = {}
  BY <1>2 DEF Inv, TypeOK
<1>7. /\ client' \in [Client -> ClientState] /\ client'[k] = C
      /\ \A j \in Client \ {k} : client'[j] = client[j]
  BY ONLY <1>3, <1>5, <1>6, k \in Client
<1>8. link' \in [Client -> LinkState] /\ link'[k] = K
  BY ONLY <1>1, <1>4, <1>6, k \in Client
<1>9. InUse' = InUse
  BY <1>2 DEF InUse
<1>10. TypeOK'
  <2>1. disturbed' \subseteq Client
    BY <1>2 DEF Inv, TypeOK, InUse
  <2> QED
    BY <1>2, <1>7, <1>8, <2>1 DEF Inv, TypeOK
<1>11. ASSUME NEW j \in Client \ {k}, j \notin others
       PROVE  Idle(j)'
  BY <1>7, <1>9, <1>11 DEF Idle
<1>12. ASSUME NEW j \in Client \ disturbed', j # k
       PROVE  Idle(j)'
  <2>1. j \notin others
    BY <1>2, <1>12
  <2> QED
    BY <1>11, <1>12, <2>1
<1>13. ASSUME k \notin disturbed'
       PROVE  Opening(k)' /\ \A j \in Client \ {k} : Idle(j)'
  <2>1. others = {}
    BY <1>2, <1>13
  <2>2. \A j \in Client \ {k} : Idle(j)'
    BY <1>11, <2>1
  <2>3. Opening(k)'
    BY ONLY <1>2, <1>3, <1>4, <1>7, <1>8, <1>9, st \in {"dns", "syn", "stuck"} DEF Opening
  <2> QED
    BY <2>2, <2>3
<1> HIDE DEF others
<1>14. \A j \in Client \ disturbed' : GoesWell(j)'
  BY <1>12, <1>13 DEF GoesWell
<1>15. \A j \in Client \ disturbed' : ~Idle(j)' => \A x \in Client \ {j} : Idle(x)'
  BY <1>12, <1>13
<1> QED
  BY <1>6, <1>10, <1>14, <1>15 DEF Inv

-----------------------------------------------------------------------------
\* Every step keeps the invariant.
LEMMA StepInv ==
    Inv /\ [Next]_vars => Inv'
<1> SUFFICES ASSUME Inv, [Next]_vars
             PROVE  Inv'
  OBVIOUS
<1>1. CASE UNCHANGED vars
  <2>1. UNCHANGED <<slot, r_buffer, client, test1_buffer, link, disturbed, verified, wrong>>
    BY <1>1 DEF vars
  <2> QED
    BY <2>1 DEF Inv, TypeOK, GoesWell, Idle, Opening, Running, Ending, InUse
<1>2. ASSUME NEW k \in Client,
             \/ ServerData(k) \/ ClientData(k) \/ ServerSignal(k) \/ ClientSignal(k)
             \/ Arrival(k) \/ ServerPoll(k) \/ ClientPoll(k)
             \/ tcp_client_sendtest_init_open(k) \/ Lose(k)
      PROVE  Inv'
  <2>1. CASE ServerData(k)
    BY <2>1, RecvInv DEF ServerData
  <2>2. CASE ClientData(k)
    BY <2>2, ClientRecvInv DEF ClientData
  <2>3. CASE ServerSignal(k)
    BY <2>3, ServerAckInv, ServerFinInv, ServerErrInv DEF ServerSignal
  <2>4. CASE ClientSignal(k)
    BY <2>4, ClientAckInv, ClientFinInv, ClientErrInv DEF ClientSignal
  <2>5. CASE Arrival(k)
    BY <2>5, DnsInv, AcceptInv DEF Arrival
  <2>6. CASE ServerPoll(k)
    BY <2>6, ServerPollInv DEF ServerPoll
  <2>7. CASE ClientPoll(k)
    BY <2>7, ClientPollInv DEF ClientPoll
  <2> QED
    BY <1>2, <2>1, <2>2, <2>3, <2>4, <2>5, <2>6, <2>7, OpenInv, LoseInv
<1> QED
  BY <1>1, <1>2 DEF Next

\* A test that is alone and never short of memory succeeds at both ends: for any
\* size of the buffer, any number of rounds, slots and clients, and however lwIP cuts
\* the data into segments and delays acknowledgements, tcp_server_recv finds the
\* buffer it sent, and tcp_client_sent counts the last round only after the server
\* has found every round right.
THEOREM AloneIsRight == Spec => []AloneSucceeds
<1>1. Inv => AloneSucceeds
  BY DEF Inv, AloneSucceeds
<1> QED
  BY <1>1, InitInv, StepInv, PTL DEF Spec
=============================================================================
