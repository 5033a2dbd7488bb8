---------------------------- MODULE FlashIoProofs ----------------------------
(***************************************************************************)
(* What flash_io keeps and finds, for any number of sectors and records,   *)
(* any names, passwords and calls, as long as the ring has not been full   *)
(* and callbacks use other names than the ssids that main stores.          *)
(***************************************************************************)
EXTENDS FlashIo, FiniteSetTheorems, WellFoundedInduction, TLAPS

(* Numbers *)

\* Every set of natural numbers has a least element.
LEMMA LeastElement ==
    ASSUME NEW T, T \subseteq Nat, T # {}
    PROVE  \E x \in T : \A y \in T : x <= y
<1> DEFINE R == {p \in Nat \X Nat : p[1] < p[2]}
<1>1. IsWellFoundedOn(R, Nat)
  BY NatLessThanWellFounded DEF OpToRel
<1>2. PICK x \in T : \A y \in T : ~(<<y, x>> \in R)
  <2> HIDE DEF R
  <2> QED
    BY <1>1, WFMin
<1>3. \A y \in T : y < x => <<y, x>> \in R
  BY <1>2
<1>4. \A y \in T : ~(y < x)
  BY <1>2, <1>3
<1>5. \A y \in T : x <= y
  BY <1>4
<1> QED
  BY <1>5

\* Remainders of numbers one range below and one range above.
LEMMA ModNear ==
    ASSUME NEW m \in Nat, m >= 1, NEW x \in Int
    PROVE  /\ x >= 0 /\ x < m => x % m = x
           /\ x < 0 /\ x >= -m => x % m = x + m
           /\ x >= m /\ x < 2 * m => x % m = x - m
           /\ x % m \in 0 .. m - 1
  OBVIOUS

\* What the CHOOSE of Min finds.
LEMMA MinIsLeast ==
    ASSUME NEW T, T \subseteq Nat, T # {}
    PROVE  Min(T) \in T /\ \A y \in T : Min(T) <= y
<1>1. \E x \in T : \A y \in T : x <= y
  BY LeastElement
<1> QED
  BY <1>1 DEF Min

\* The geometry: slots, positions behind a slot, the start of its sector.
LEMMA Geometry ==
    /\ Size \in Nat /\ Size >= 2 /\ 0 \in Slot
    /\ \A p \in Slot : \A d \in Nat : p + d < Size => At(p, d) = p + d
    /\ \A p, d \in Nat : At(p, d) \in Slot
    /\ \A p \in Slot : SectorStart(p) \in Slot /\ SectorStart(p) <= p
<1>1. Size \in Nat /\ Size >= 2
  <2>1. \A x, m \in Nat : x >= 2 /\ m >= 1 => x * m >= 2 * m /\ x * m \in Nat
    OBVIOUS
  <2> QED
    BY <2>1, RingAssumption DEF Size
<1>2. ASSUME NEW p \in Slot, NEW d \in Nat, p + d < Size
      PROVE  At(p, d) = p + d
  <2>1. p + d \in Int /\ p + d >= 0
    BY <1>1 DEF Slot
  <2> QED
    BY <1>1, <1>2, <2>1 DEF At
<1>3. \A p, d \in Nat : At(p, d) \in Slot
  BY <1>1, ModNear DEF At, Slot
<1>4. \A p \in Slot : p % K \in 0 .. K - 1 /\ p % K <= p
  BY <1>1, RingAssumption DEF Slot
<1>5. \A p \in Slot : SectorStart(p) \in Slot /\ SectorStart(p) <= p
  BY <1>1, <1>4, RingAssumption DEF SectorStart, Slot
<1> QED
  BY <1>1, <1>2, <1>3, <1>5 DEF Slot

LEMMA SlotFacts == /\ 0 \in Slot /\ Size \in Nat
                   /\ \A i \in Slot : i \in Int /\ i \in Nat /\ 0 <= i /\ i < Size
  BY Geometry DEF Slot

-----------------------------------------------------------------------------
(* What the invariant says of a ring R that has not been full *)

\* What a slot holds.
Rec == [id : {"ssid", "host"}, name : Name, pw : Password \cup {NoPassword},
        live : BOOLEAN]

\* The records are in the slots below t, the others are blank.
IsLog(R, t) == t \in 0 .. Size - 1 /\ \A i \in Slot : R[i] = Blank <=> i >= t

CopiesIn(R, n) == {i \in Slot : R[i] # Blank /\ R[i].id = "ssid" /\ R[i].name = n}
LiveIn(R, n) == {i \in CopiesIn(R, n) : R[i].live}
HostsIn(R) == {i \in Slot : R[i] # Blank /\ R[i].id = "host"}
IsLast(S, p) == p \in S /\ \A q \in S : q <= p

\* The records of an id in the slots from a below b, as rb_read counts them.
Between(R, id, a, b) ==
    {i \in Slot : a <= i /\ i < b /\ R[i] # Blank /\ R[i].id = id /\ R[i].live}
Count(R, id, a, b) == Cardinality(Between(R, id, a, b))

\* The last copy of every ssid lives, and so does every host name.
Sound(R) ==
    /\ R \in [Slot -> Rec \cup {Blank}]
    /\ \E t \in Slot : IsLog(R, t)
    /\ \A n \in Name : \A p \in Slot : IsLast(CopiesIn(R, n), p) => R[p].live
    /\ \A p \in HostsIn(R) : R[p].live

(* What it says of a context: l is where it is, k its call, f its frame *)

Stored(R, k) == \A p \in Slot : IsLast(CopiesIn(R, k.name), p) => R[p].pw = k.pw
Alone(R, n) == \A p, q \in LiveIn(R, n) : p = q
FromOn(R, n, x) == \A p \in LiveIn(R, n) : x <= p

\* Counting and reading ssids: the record read in the end is no copy of this
\* ssid but the last one.
SsidsCounted(l, k, f, R) ==
    /\ l = "idsread" /\ LiveIn(R, k.name) # {} =>
          /\ \A i \in Slot : i < f.next => R[i] # Blank
          /\ Count(R, "ssid", 0, f.next) <= f.count
    /\ l = "nth" =>
          \A p, q \in LiveIn(R, k.name) : p < q => Count(R, "ssid", 0, p) + 2 <= f.count
    /\ l = "nthread" =>
          \A p, q \in LiveIn(R, k.name) :
             p < q /\ f.next <= p => Count(R, "ssid", f.next, p) + 2 <= f.count

\* Counting and reading host names: as many are left to read as there are.
HostsCounted(l, f, R) ==
    /\ l = "idsread" =>
          /\ \A i \in Slot : i < f.next => R[i] # Blank
          /\ f.count = Count(R, "host", 0, f.next)
    /\ l = "nth" => f.count = Count(R, "host", 0, Size) /\ f.count > 0
    /\ l = "nthread" => f.count = Count(R, "host", f.next, Size) /\ f.count > 0
    /\ l = "done" =>
          IF f.found THEN \E p \in Slot : IsLast(HostsIn(R), p) /\ f.value = R[p].name
                     ELSE HostsIn(R) = {}

\* Removing the redundant copies of a name, front to back.
Redundant(l, n, f, R) ==
    /\ l = "find1" => FromOn(R, n, f.next)
    /\ l \in {"find2", "delete"} =>
          \/ CopiesIn(R, n) = {}
          \/ f.first \in LiveIn(R, n) /\ FromOn(R, n, f.first)
    /\ l = "find2" /\ CopiesIn(R, n) # {} => f.next = f.first + 1
    /\ l = "delete" /\ CopiesIn(R, n) # {} => \E q \in LiveIn(R, n) : f.first < q

\* Looking for the password of an ssid whose redundant copies are gone.
Searched(l, n, f, R) ==
    /\ l \in {"match", "search", "take", "password"} => Alone(R, n)
    /\ l \in {"search", "take"} => FromOn(R, n, f.next)
    /\ l = "take" => R[f.next] # Blank /\ R[f.next].id = "ssid" /\ R[f.next].live
    /\ l = "done" =>
          IF f.found THEN \E p \in Slot : IsLast(CopiesIn(R, n), p) /\ f.value = R[p].pw
                     ELSE CopiesIn(R, n) = {}

FrameOK(l, k, f, R) ==
    /\ k.fn = "write_ssid" =>
          /\ SsidsCounted(l, k, f, R)
          /\ l \in {"redundant", "find1", "find2", "delete", "done"} => Stored(R, k)
          /\ l = "done" /\ f.found => Alone(R, k.name)
    /\ k.fn = "read_host" => HostsCounted(l, f, R)
    /\ l \in {"find1", "find2", "delete"} => Redundant(l, k.name, f, R)
    /\ k.fn = "find" => Searched(l, k.name, f, R)

\* What it says of the page buffer b, where a context is about to use it.
Harmless(R, n, b) ==
    b.id = "ssid" /\ b.name = n =>
        \A p \in Slot : IsLast(CopiesIn(R, n), p) => R[p].pw = b.pw
BufferOK(l, k, f, R, b) ==
    /\ l = "compare" /\ k.fn = "write_ssid" => Harmless(R, k.name, b)
    /\ l = "copy" => \E p \in Slot : IsLast(HostsIn(R), p) /\ b = R[p]
    /\ l = "password" =>
          \E p \in Slot : /\ f.next = p + 1 /\ b = R[p] /\ FromOn(R, k.name, p)
                          /\ R[p] # Blank /\ R[p].id = "ssid" /\ R[p].live

\* Where a callback uses the page buffer without having put it right for main.
Unsettled(l, k) ==
    \/ k.fn = "write_ssid" /\ l \in {"idsread", "nth", "nthread", "compare", "append", "write"}
    \/ k.fn = "find" /\ l \in {"search", "password"}

Labels(fn) ==
    CASE fn = "write_ssid" ->
            {"ids", "idsread", "nth", "nthread", "compare", "append", "write",
             "redundant", "find1", "find2", "delete", "done"}
      [] fn = "write_host" ->
            {"ids", "idsread", "nth", "nthread", "compare", "append", "write",
             "redundant", "find1", "find2", "delete", "done"}
      [] fn = "read_host" -> {"ids", "idsread", "nth", "nthread", "copy", "done"}
      [] fn = "find" ->
            {"redundant", "find1", "find2", "delete", "match", "search", "take",
             "password", "done"}
      [] OTHER -> {"wipe", "done"}
CallsOf(c) == IF c = "main" THEN MainCalls ELSE IrqCalls
Frame == [next : Slot, first : Slot, count : Nat]

\* The contexts: labels that belong to their calls; a callback finds main idle or
\* storing an ssid, and main does not go on before the callback has ended.
Control ==
    /\ oldest \in 0 .. N - 1
    /\ DOMAIN pc = Ctx /\ DOMAIN call = Ctx /\ DOMAIN fr = Ctx
    /\ \A c \in Ctx : pc[c] # "idle" => call[c] \in CallsOf(c) /\ pc[c] \in Labels(call[c].fn)
    /\ \A c \in Ctx : pc[c] # "done" => fr[c] \in Frame
    /\ pc["irq"] # "idle" => pc["main"] = "idle" \/ call["main"].fn = "write_ssid"

RingInv ==
    ~filled =>
        /\ oldest = 0
        /\ Sound(ring)
        /\ \A c \in Ctx : pc[c] # "idle" => FrameOK(pc[c], call[c], fr[c], ring)
        /\ pc["irq"] # "idle" => BufferOK(pc["irq"], call["irq"], fr["irq"], ring, pagebuff)
        /\ pc["main"] # "idle" /\ ~Unsettled(pc["irq"], call["irq"]) =>
              BufferOK(pc["main"], call["main"], fr["main"], ring, pagebuff)

Inv == Control /\ RingInv

-----------------------------------------------------------------------------

(* Reading and searching such a ring *)

\* rb_read stops somewhere.
LEMMA ReadStays ==
    ASSUME NEW p \in Slot, NEW id
    PROVE  /\ RbRead(p, id).next \in Slot /\ RbRead(p, id).at \in Slot
           /\ RbRead(p, id).ok \in BOOLEAN
<1> DEFINE stop(d) == \/ ring[At(p, d)] = Blank
                      \/ Mine(At(p, d), id)
                      \/ d > 0 /\ At(p, d) = SectorStart(p)
           T == {e \in 0 .. Size : stop(e)}
           back == Size - (p - SectorStart(p))
<1>1. /\ SectorStart(p) \in 0 .. Size - 1 /\ SectorStart(p) <= p
      /\ p \in 0 .. Size - 1 /\ Size \in Nat
  BY Geometry DEF Slot
<1>2. back \in 0 .. Size /\ back > 0 /\ p + back = SectorStart(p) + Size
  BY <1>1
<1>3. \A x \in Slot : (x + Size) % Size = x
  BY Geometry DEF Slot
<1>4. At(p, back) = SectorStart(p)
  BY <1>1, <1>2, <1>3 DEF At
<1>5. back \in T
  BY <1>2, <1>4
<1>6. Min(T) \in T
  <2>1. T \subseteq Nat
    BY <1>1
  <2> HIDE DEF T
  <2> QED
    BY <1>5, <2>1, MinIsLeast
<1>7. Min(T) \in Nat
  BY <1>6, Geometry
<1>8. At(p, Min(T)) \in Slot
  BY <1>1, <1>7, Geometry DEF Slot
<1>9. At(At(p, Min(T)), 1) \in Slot
  <2>1. At(p, Min(T)) \in Nat /\ 1 \in Nat
    BY <1>8, <1>1 DEF Slot
  <2> QED
    BY <2>1, Geometry
<1>10. /\ RbRead(p, id).at = At(p, Min(T)) /\ RbRead(p, id).ok \in BOOLEAN
       /\ RbRead(p, id).next \in {At(p, Min(T)), At(At(p, Min(T)), 1)}
  BY DEF RbRead
<1> QED
  BY <1>8, <1>9, <1>10

\* rb_read in a log: the next record of the id, or there is none.
LEMMA ReadFinds ==
    ASSUME NEW t, IsLog(ring, t), NEW p \in Slot, NEW id
    PROVE  /\ RbRead(p, id).ok \in BOOLEAN
           /\ RbRead(p, id).ok =>
                 /\ RbRead(p, id).at \in p .. t - 1
                 /\ RbRead(p, id).next = RbRead(p, id).at + 1
                 /\ Mine(RbRead(p, id).at, id)
                 /\ \A j \in Slot : p <= j /\ j < RbRead(p, id).at => ~Mine(j, id)
           /\ ~RbRead(p, id).ok => \A j \in Slot : p <= j => ~Mine(j, id)
<1> DEFINE stop(d) == \/ ring[At(p, d)] = Blank
                      \/ Mine(At(p, d), id)
                      \/ d > 0 /\ At(p, d) = SectorStart(p)
           T == {e \in 0 .. Size : stop(e)}
           d == Min(T)
           q == At(p, d)
<1>1. /\ p \in 0 .. Size - 1 /\ t \in 0 .. Size - 1 /\ Size \in Nat
      /\ SectorStart(p) \in Slot /\ SectorStart(p) <= p
  BY Geometry DEF Slot, IsLog
<1>2. PICK m \in 0 .. Size - 1 : p + m < Size /\ p + m >= t
  <2>1. CASE p <= t
    <3>1. t - p \in 0 .. Size - 1 /\ p + (t - p) = t
      BY <1>1, <2>1
    <3> QED
      BY <1>1, <3>1
  <2>2. CASE p > t
    BY <1>1, <2>2
  <2> QED
    BY <1>1, <2>1, <2>2
<1>3. At(p, m) = p + m /\ p + m \in Slot /\ p + m >= t
  <2>1. At(p, m) = p + m
    BY <1>1, <1>2, Geometry
  <2> QED
    BY <1>1, <1>2, <2>1 DEF Slot
<1>4. m \in T
  BY <1>1, <1>3 DEF IsLog
<1>5. d \in T /\ \A e \in T : d <= e
  <2> HIDE DEF stop
  <2> QED
    BY <1>4, <1>1, MinIsLeast
<1>6. d \in 0 .. m /\ d \in Nat
  BY <1>4, <1>5, <1>1
<1> HIDE DEF d
<1>7. \A e \in 0 .. m : At(p, e) = p + e /\ p + e \in Slot /\ ~(e > 0 /\ At(p, e) = SectorStart(p))
  <2> SUFFICES ASSUME NEW e \in 0 .. m
               PROVE  At(p, e) = p + e /\ p + e \in Slot /\ ~(e > 0 /\ At(p, e) = SectorStart(p))
    OBVIOUS
  <2>1. p + e < Size /\ e \in Nat
    BY <1>1, <1>2
  <2>2. At(p, e) = p + e
    BY <2>1, Geometry
  <2> QED
    BY <1>1, <2>1, <2>2 DEF Slot
<1>8. q = p + d /\ q \in Slot /\ ~(d > 0 /\ q = SectorStart(p))
  BY <1>6, <1>7
<1>9. ring[q] = Blank \/ Mine(q, id)
  BY <1>5, <1>8
<1>10. \A j \in Slot : p <= j /\ j < q => ~Mine(j, id)
  <2> SUFFICES ASSUME NEW j \in Slot, p <= j, j < q, Mine(j, id)
               PROVE  FALSE
    OBVIOUS
  <2>1. j - p \in 0 .. m /\ j - p < d /\ p + (j - p) = j
    BY <1>1, <1>6, <1>8 DEF Slot
  <2>2. At(p, j - p) = j
    BY <1>7, <2>1
  <2>3. j - p \in T
    BY <2>1, <2>2, <1>1
  <2> QED
    BY <1>5, <2>1, <2>3, <1>6
<1>11. RbRead(p, id) = IF NothingRead(p, d) THEN [ok |-> FALSE, at |-> q, next |-> q]
                                            ELSE [ok |-> TRUE, at |-> q, next |-> At(q, 1)]
  BY DEF RbRead, d
<1>12. NothingRead(p, d) <=> ring[q] = Blank
  BY <1>8 DEF NothingRead
<1>13. CASE ring[q] = Blank
  <2>1. ~RbRead(p, id).ok /\ RbRead(p, id).ok \in BOOLEAN
    BY <1>11, <1>12, <1>13
  <2>2. q >= t
    BY <1>8, <1>13 DEF IsLog
  <2>3. \A j \in Slot : j >= t => ~Mine(j, id)
    BY DEF IsLog, Mine
  <2>4. \A j \in Slot : j < q \/ j >= t
    BY <2>2, <1>8, <1>1 DEF Slot
  <2> QED
    BY <2>1, <2>3, <2>4, <1>10
<1>14. CASE ring[q] # Blank
  <2>1. RbRead(p, id).ok = TRUE /\ RbRead(p, id).at = q /\ RbRead(p, id).next = At(q, 1)
    BY <1>11, <1>12, <1>14
  <2>2. q < t
    BY <1>8, <1>14, <1>1 DEF IsLog, Slot
  <2>3. At(q, 1) = q + 1
    BY <1>8, <2>2, <1>1, Geometry DEF Slot
  <2>4. q \in p .. t - 1 /\ Mine(q, id)
    BY <2>2, <1>8, <1>9, <1>14, <1>1, <1>6
  <2> QED
    BY <2>1, <2>3, <2>4, <1>10
<1> QED
  BY <1>13, <1>14

\* A record that rb_find takes.
Hit(p, id, names) == Mine(p, id) /\ ring[p].name \in names

\* rb_find stops in the ring, if it stops.
LEMMA FindStays ==
    ASSUME NEW p \in Slot, NEW id, NEW names, FindEnds(p, id, names)
    PROVE  /\ RbFind(p, id, names).next \in Slot
           /\ RbFind(p, id, names).at \in Slot
           /\ RbFind(p, id, names).ok \in BOOLEAN
<1> DEFINE T == FindStops(p, id, names)
<1>1. p \in Nat /\ 1 \in Nat /\ Size \in Nat
  BY Geometry DEF Slot
<1>2. T \subseteq Nat /\ T # {}
  BY <1>1 DEF FindEnds, FindStops
<1>3. Min(T) \in Nat
  <2> HIDE DEF T
  <2> QED
    BY <1>2, MinIsLeast
<1>4. At(p, Min(T)) \in Slot
  BY <1>1, <1>3, Geometry
<1>5. At(p, Min(T)) \in Nat
  BY <1>1, <1>4 DEF Slot
<1>6. At(At(p, Min(T)), 1) \in Slot
  BY <1>1, <1>5, Geometry
<1>7. /\ RbFind(p, id, names).at = At(p, Min(T)) /\ RbFind(p, id, names).ok \in BOOLEAN
      /\ RbFind(p, id, names).next \in {At(p, Min(T)), At(At(p, Min(T)), 1)}
  BY DEF RbFind
<1> QED
  BY <1>4, <1>6, <1>7

\* rb_find in a log: the next record of the id with such a name, or there is none.
LEMMA FindFinds ==
    ASSUME NEW t, IsLog(ring, t), NEW p \in Slot, NEW id, NEW names
    PROVE  /\ RbFind(p, id, names).ok \in BOOLEAN
           /\ RbFind(p, id, names).ok =>
                 /\ RbFind(p, id, names).at \in p .. t - 1
                 /\ RbFind(p, id, names).next = RbFind(p, id, names).at + 1
                 /\ Hit(RbFind(p, id, names).at, id, names)
                 /\ \A j \in Slot : p <= j /\ j < RbFind(p, id, names).at => ~Hit(j, id, names)
           /\ ~RbFind(p, id, names).ok => \A j \in Slot : p <= j => ~Hit(j, id, names)
<1> DEFINE T == FindStops(p, id, names)
           d == Min(T)
           q == At(p, d)
<1>1. /\ p \in 0 .. Size - 1 /\ t \in 0 .. Size - 1 /\ Size \in Nat
      /\ SectorStart(p) \in Slot /\ SectorStart(p) <= p
  BY Geometry DEF Slot, IsLog
<1>2. PICK m \in 0 .. Size - 1 : p + m < Size /\ p + m >= t
  <2>1. CASE p <= t
    <3>1. t - p \in 0 .. Size - 1 /\ p + (t - p) = t
      BY <1>1, <2>1
    <3> QED
      BY <1>1, <3>1
  <2>2. CASE p > t
    BY <1>1, <2>2
  <2> QED
    BY <1>1, <2>1, <2>2
<1>3. At(p, m) = p + m /\ p + m \in Slot /\ p + m >= t
  <2>1. At(p, m) = p + m
    BY <1>1, <1>2, Geometry
  <2> QED
    BY <1>1, <1>2, <2>1 DEF Slot
<1>4. m \in T
  BY <1>1, <1>3 DEF IsLog, FindStops
<1>5. d \in T /\ \A e \in T : d <= e
  <2>1. T \subseteq Nat
    BY <1>1 DEF FindStops
  <2> HIDE DEF T
  <2> QED
    BY <1>4, <2>1, MinIsLeast
<1>6. d \in 0 .. m /\ d \in Nat
  BY <1>4, <1>5, <1>1 DEF FindStops
<1> HIDE DEF d
<1>7. \A e \in 0 .. m : At(p, e) = p + e /\ p + e \in Slot /\ ~(e > 0 /\ At(p, e) = SectorStart(p))
  <2> SUFFICES ASSUME NEW e \in 0 .. m
               PROVE  At(p, e) = p + e /\ p + e \in Slot /\ ~(e > 0 /\ At(p, e) = SectorStart(p))
    OBVIOUS
  <2>1. p + e < Size /\ e \in Nat
    BY <1>1, <1>2
  <2>2. At(p, e) = p + e
    BY <2>1, Geometry
  <2> QED
    BY <1>1, <2>1, <2>2 DEF Slot
<1>8. q = p + d /\ q \in Slot /\ ~(d > 0 /\ q = SectorStart(p))
  BY <1>6, <1>7
<1>9. ring[q] = Blank \/ Hit(q, id, names)
  BY <1>5, <1>8 DEF FindStops, Hit
<1>10. \A j \in Slot : p <= j /\ j < q => ~Hit(j, id, names)
  <2> SUFFICES ASSUME NEW j \in Slot, p <= j, j < q, Hit(j, id, names)
               PROVE  FALSE
    OBVIOUS
  <2>1. j - p \in 0 .. m /\ j - p < d /\ p + (j - p) = j
    BY <1>1, <1>6, <1>8 DEF Slot
  <2>2. At(p, j - p) = j
    BY <1>7, <2>1
  <2>3. j - p \in T
    BY <2>1, <2>2, <1>1 DEF FindStops, Hit
  <2> QED
    BY <1>5, <2>1, <2>3, <1>6
<1>11. RbFind(p, id, names) =
         IF \/ ring[q] = Blank
            \/ d > 0 /\ q = SectorStart(p) /\ ~Mine(At(p, d - 1), id)
         THEN [ok |-> FALSE, at |-> q, next |-> q]
         ELSE [ok |-> TRUE, at |-> q, next |-> At(q, 1)]
  BY DEF RbFind, d
<1>13. CASE ring[q] = Blank
  <2>1. ~RbFind(p, id, names).ok /\ RbFind(p, id, names).ok \in BOOLEAN
    BY <1>11, <1>8, <1>13
  <2>2. q >= t
    BY <1>8, <1>13 DEF IsLog
  <2>3. \A j \in Slot : j >= t => ~Hit(j, id, names)
    BY DEF IsLog, Hit, Mine
  <2>4. \A j \in Slot : j < q \/ j >= t
    BY <2>2, <1>8, <1>1 DEF Slot
  <2> QED
    BY <2>1, <2>3, <2>4, <1>10
<1>14. CASE ring[q] # Blank
  <2>1. RbFind(p, id, names).ok = TRUE /\ RbFind(p, id, names).at = q /\ RbFind(p, id, names).next = At(q, 1)
    BY <1>11, <1>8, <1>14
  <2>2. q < t
    BY <1>8, <1>14, <1>1 DEF IsLog, Slot
  <2>3. At(q, 1) = q + 1
    BY <1>8, <2>2, <1>1, Geometry DEF Slot
  <2>4. q \in p .. t - 1 /\ Hit(q, id, names)
    BY <2>2, <1>8, <1>9, <1>14, <1>1, <1>6
  <2> QED
    BY <2>1, <2>3, <2>4, <1>10
<1> QED
  BY <1>13, <1>14

-----------------------------------------------------------------------------
(* Counting records *)

IsMine(R, p, id) == R[p] # Blank /\ R[p].id = id /\ R[p].live

LEMMA CountIsNat ==
    ASSUME NEW R, NEW id, NEW a, NEW b
    PROVE  /\ IsFiniteSet(Between(R, id, a, b))
           /\ Count(R, id, a, b) \in Nat
           /\ Count(R, id, a, b) <= Size
<1>1. Size \in Nat /\ Size - 1 \in Int
  BY Geometry
<1>2. IsFiniteSet(Slot) /\ Cardinality(Slot) = Size
  BY <1>1, FS_Interval, Geometry DEF Slot
<1>3. Between(R, id, a, b) \in SUBSET Slot
  BY DEF Between
<1>4. IsFiniteSet(Between(R, id, a, b)) /\ Cardinality(Between(R, id, a, b)) <= Size
  BY <1>2, <1>3, FS_Subset
<1>5. Cardinality(Between(R, id, a, b)) \in Nat
  BY <1>4, FS_CardinalityType
<1> QED
  BY <1>4, <1>5 DEF Count

LEMMA CountSubset ==
    ASSUME NEW R, NEW Q, NEW id, NEW a, NEW b, NEW c, NEW d,
           Between(R, id, a, b) \subseteq Between(Q, id, c, d)
    PROVE  Count(R, id, a, b) <= Count(Q, id, c, d)
<1>1. IsFiniteSet(Between(Q, id, c, d))
  BY CountIsNat
<1>2. Between(R, id, a, b) \in SUBSET Between(Q, id, c, d)
  OBVIOUS
<1> QED
  BY <1>1, <1>2, FS_Subset DEF Count

LEMMA CountOneMore ==
    ASSUME NEW R, NEW id, NEW a, NEW b, NEW c, NEW d, NEW q,
           q \notin Between(R, id, a, b),
           Between(R, id, c, d) = Between(R, id, a, b) \cup {q}
    PROVE  Count(R, id, c, d) = Count(R, id, a, b) + 1
<1>1. IsFiniteSet(Between(R, id, a, b))
  BY CountIsNat
<1> QED
  BY <1>1, FS_AddElement DEF Count

\* A record q that is next from x on is one more to the records before x.
LEMMA CountNext ==
    ASSUME NEW R, NEW id, NEW x \in Slot, NEW q \in Slot, x <= q, IsMine(R, q, id),
           \A j \in Slot : x <= j /\ j < q => ~IsMine(R, j, id)
    PROVE  Count(R, id, 0, q + 1) = Count(R, id, 0, x) + 1
<1>1. Slot \subseteq Int /\ \A i \in Slot : 0 <= i
  BY Geometry DEF Slot
<1>2. Count(R, id, 0, q + 1) = Count(R, id, 0, x) + 1
  <2>1. \A i \in Slot : /\ i < q + 1 <=> (i < x \/ (x <= i /\ i < q) \/ i = q)
                        /\ i < x => i < q
    BY <1>1
  <2>2. \A i : i \in Between(R, id, 0, q + 1) <=> i \in Between(R, id, 0, x) \cup {q}
    BY <1>1, <2>1 DEF Between, IsMine
  <2>3. Between(R, id, 0, q + 1) = Between(R, id, 0, x) \cup {q}
    BY <2>2
  <2>4. q \notin Between(R, id, 0, x)
    BY <1>1 DEF Between
  <2> QED
    BY <2>3, <2>4, CountOneMore
<1> QED
  BY <1>2

\* It is one less of those that come.
LEMMA CountLess ==
    ASSUME NEW R, NEW id, NEW x \in Slot, NEW q \in Slot, x <= q, IsMine(R, q, id),
           \A j \in Slot : x <= j /\ j < q => ~IsMine(R, j, id), NEW b \in Int, b > q
    PROVE  Count(R, id, x, b) = Count(R, id, q + 1, b) + 1
<1>1. Slot \subseteq Int /\ \A i \in Slot : 0 <= i
  BY Geometry DEF Slot
<1>2. \A i \in Slot : x <= i <=> (q + 1 <= i \/ (x <= i /\ i < q) \/ i = q)
  BY <1>1
<1>3. \A i : i \in Between(R, id, x, b) <=> i \in Between(R, id, q + 1, b) \cup {q}
  BY <1>1, <1>2 DEF Between, IsMine
<1>4. Between(R, id, x, b) = Between(R, id, q + 1, b) \cup {q}
  BY <1>3
<1>5. q \notin Between(R, id, q + 1, b)
  BY <1>1 DEF Between
<1> QED
  BY <1>4, <1>5, CountOneMore

\* Nothing from x on: all were counted.
LEMMA CountRest ==
    ASSUME NEW R, NEW id, NEW x \in Slot,
           \A j \in Slot : x <= j => ~IsMine(R, j, id)
    PROVE  /\ Count(R, id, 0, x) = Count(R, id, 0, Size)
           /\ Count(R, id, x, Size) = 0
<1>1. Slot \subseteq Int /\ \A i \in Slot : 0 <= i /\ i < Size
  BY Geometry DEF Slot
<1>2. Between(R, id, 0, x) = Between(R, id, 0, Size)
  <2>1. \A i \in Slot : (i < x \/ x <= i) /\ i < Size
    BY <1>1
  <2>2. \A i : i \in Between(R, id, 0, x) <=> i \in Between(R, id, 0, Size)
    BY <2>1 DEF Between, IsMine
  <2> QED
    BY <2>2
<1>3. Between(R, id, x, Size) = {}
  BY <1>1 DEF Between, IsMine
<1> QED
  BY <1>2, <1>3, FS_EmptySet DEF Count

\* Two records p < q of those before x.
LEMMA CountTwo ==
    ASSUME NEW R, NEW id, NEW x \in Int, NEW p \in Slot, NEW q \in Slot,
           p < q, q < x, IsMine(R, p, id), IsMine(R, q, id)
    PROVE  Count(R, id, 0, p) + 2 <= Count(R, id, 0, x)
<1>1. Slot \subseteq Int /\ \A i \in Slot : 0 <= i
  BY Geometry DEF Slot
<1>2. Count(R, id, 0, p + 1) = Count(R, id, 0, p) + 1
  BY <1>1, CountNext
<1>3. Count(R, id, 0, p + 1) <= Count(R, id, 0, q)
  <2>1. \A i \in Slot : i < p + 1 => i < q
    BY <1>1
  <2>2. Between(R, id, 0, p + 1) \subseteq Between(R, id, 0, q)
    BY <2>1 DEF Between
  <2> QED
    BY <2>2, CountSubset
<1>4. Count(R, id, 0, q + 1) = Count(R, id, 0, q) + 1
  BY <1>1, CountNext
<1>5. Count(R, id, 0, q + 1) <= Count(R, id, 0, x)
  <2>1. \A i \in Slot : i < q + 1 => i < x
    BY <1>1
  <2>2. Between(R, id, 0, q + 1) \subseteq Between(R, id, 0, x)
    BY <2>1 DEF Between
  <2> QED
    BY <2>2, CountSubset
<1>6. /\ Count(R, id, 0, p) \in Nat /\ Count(R, id, 0, p + 1) \in Nat
      /\ Count(R, id, 0, q) \in Nat /\ Count(R, id, 0, q + 1) \in Nat
      /\ Count(R, id, 0, x) \in Nat
  BY CountIsNat
<1> QED
  BY <1>2, <1>3, <1>4, <1>5, <1>6

\* Records left to read.
LEMMA CountPositive ==
    ASSUME NEW R, NEW id, NEW x \in Slot, Count(R, id, x, Size) > 0
    PROVE  \E j \in Slot : x <= j /\ IsMine(R, j, id)
<1> SUFFICES ASSUME \A j \in Slot : x <= j => ~IsMine(R, j, id)
             PROVE  FALSE
  OBVIOUS
<1>1. Count(R, id, x, Size) = 0
  BY CountRest
<1> QED
  BY <1>1

-----------------------------------------------------------------------------
(* What the calls do to a ring *)

\* Q is R with x written in slot t; with the record in p deleted.
Wrote(R, Q, t, x) ==
    /\ Q \in [Slot -> Rec \cup {Blank}]
    /\ Q[t] = x /\ \A i \in Slot \ {t} : Q[i] = R[i]
Killed(R, Q, p) ==
    /\ Q \in [Slot -> Rec \cup {Blank}]
    /\ \A i \in Slot \ {p} : Q[i] = R[i]
    /\ Q[p] # Blank /\ Q[p].id = R[p].id /\ Q[p].name = R[p].name
    /\ Q[p].pw = R[p].pw /\ ~Q[p].live

\* Q is R for whoever looks after the ssid n.
Apart(R, Q, n) ==
    \/ CopiesIn(Q, n) = {}
    \/ /\ CopiesIn(Q, n) = CopiesIn(R, n)
       /\ \A i \in CopiesIn(R, n) : Q[i].pw = R[i].pw
       /\ LiveIn(Q, n) = LiveIn(R, n)
       /\ \A i \in Slot : R[i] # Blank =>
             Q[i] # Blank /\ (IsMine(Q, i, "ssid") => IsMine(R, i, "ssid"))

LEMMA BlankIsNoRecord == Blank \notin Rec /\ Blank.id = "blank"
  BY DEF Blank, Rec

\* rb_append at the end of the log.
LEMMA WriteSound ==
    ASSUME NEW R, Sound(R), NEW t, IsLog(R, t), t + 1 < Size,
           NEW x \in Rec, x.live, NEW Q, Wrote(R, Q, t, x)
    PROVE  /\ Sound(Q)
           /\ \A n : ~(x.id = "ssid" /\ x.name = n) => Apart(R, Q, n)
           /\ x.id = "ssid" => IsLast(CopiesIn(Q, x.name), t)
<1>1. t \in Slot /\ t + 1 \in Slot /\ Slot \subseteq Int /\ R[t] = Blank
  BY Geometry DEF IsLog, Slot
<1>2. IsLog(Q, t + 1)
  <2> SUFFICES ASSUME NEW i \in Slot
               PROVE  Q[i] = Blank <=> i >= t + 1
    BY <1>1 DEF IsLog, Slot
  <2>1. CASE i = t
    BY <1>1, <2>1, BlankIsNoRecord DEF Wrote
  <2>2. CASE i # t
    <3>1. Q[i] = R[i]
      BY <2>2 DEF Wrote
    <3>2. i >= t <=> i >= t + 1
      BY <1>1, <2>2
    <3> QED
      BY <3>1, <3>2 DEF IsLog
  <2> QED
    BY <2>1, <2>2
<1>3. \A n : ~(x.id = "ssid" /\ x.name = n) =>
         CopiesIn(Q, n) = CopiesIn(R, n) /\ t \notin CopiesIn(R, n)
  BY <1>1, BlankIsNoRecord DEF Wrote, CopiesIn
<1>4. \A n : ~(x.id = "ssid" /\ x.name = n) => LiveIn(Q, n) = LiveIn(R, n)
  <2> SUFFICES ASSUME NEW n, ~(x.id = "ssid" /\ x.name = n)
               PROVE  LiveIn(Q, n) = LiveIn(R, n)
    OBVIOUS
  <2>1. \A i \in CopiesIn(R, n) : Q[i] = R[i]
    BY <1>3 DEF Wrote, CopiesIn
  <2> QED
    BY <1>3, <2>1 DEF LiveIn
<1>5. \A n : ~(x.id = "ssid" /\ x.name = n) => Apart(R, Q, n)
  <2>1. \A i \in Slot : R[i] # Blank => Q[i] = R[i]
    BY <1>1 DEF Wrote
  <2>2. \A n : \A i \in CopiesIn(R, n) : Q[i] = R[i]
    BY <2>1 DEF CopiesIn
  <2> QED
    BY <1>3, <1>4, <2>1, <2>2 DEF Apart, IsMine
<1>6. x.id = "ssid" => IsLast(CopiesIn(Q, x.name), t)
  <2> SUFFICES ASSUME x.id = "ssid"
               PROVE  IsLast(CopiesIn(Q, x.name), t)
    OBVIOUS
  <2>1. t \in CopiesIn(Q, x.name)
    BY <1>1, BlankIsNoRecord DEF Wrote, CopiesIn
  <2>2. \A i \in CopiesIn(Q, x.name) : i \in Slot /\ ~(i >= t + 1)
    BY <1>2 DEF IsLog, CopiesIn
  <2> QED
    BY <1>1, <2>1, <2>2 DEF IsLast
<1>7. ASSUME NEW n \in Name, NEW p \in Slot, IsLast(CopiesIn(Q, n), p)
      PROVE  Q[p].live
  <2>1. CASE x.id = "ssid" /\ x.name = n
    <3>1. IsLast(CopiesIn(Q, n), t)
      BY <1>6, <2>1
    <3>2. p = t
      BY <1>1, <1>7, <3>1 DEF IsLast
    <3> QED
      BY <3>2 DEF Wrote
  <2>2. CASE ~(x.id = "ssid" /\ x.name = n)
    <3>1. IsLast(CopiesIn(R, n), p) /\ p # t
      BY <1>3, <1>7, <2>2 DEF IsLast
    <3>2. R[p].live
      BY <3>1 DEF Sound
    <3> QED
      BY <3>1, <3>2 DEF Wrote
  <2> QED
    BY <2>1, <2>2
<1>8. \A p \in HostsIn(Q) : Q[p].live
  <2>1. \A p \in HostsIn(Q) : p = t \/ (p \in HostsIn(R) /\ Q[p] = R[p])
    BY DEF Wrote, HostsIn
  <2> QED
    BY <2>1 DEF Sound, Wrote
<1>9. Sound(Q)
  BY <1>1, <1>2, <1>7, <1>8 DEF Sound, Wrote
<1> QED
  BY <1>5, <1>6, <1>9

\* rb_delete of a copy with another live one behind it.
LEMMA KillSound ==
    ASSUME NEW R, Sound(R), NEW n, NEW p \in LiveIn(R, n), NEW q \in LiveIn(R, n), p < q,
           NEW Q, Killed(R, Q, p)
    PROVE  /\ Sound(Q)
           /\ \A m : m # n => Apart(R, Q, m)
           /\ \A m : CopiesIn(Q, m) = CopiesIn(R, m)
           /\ LiveIn(Q, n) = LiveIn(R, n) \ {p}
           /\ \A i \in Slot : Q[i].pw = R[i].pw
<1>1. /\ p \in Slot /\ q \in Slot /\ Slot \subseteq Int
      /\ R[p] # Blank /\ R[p].id = "ssid" /\ R[p].name = n /\ R[p].live
  <2>1. Slot \subseteq Int
    BY Geometry DEF Slot
  <2> QED
    BY <2>1 DEF LiveIn, CopiesIn
<1>2. \A m : CopiesIn(Q, m) = CopiesIn(R, m)
  BY <1>1 DEF Killed, CopiesIn
<1>3. HostsIn(Q) = HostsIn(R) /\ p \notin HostsIn(R)
  BY <1>1 DEF Killed, HostsIn
<1>4. LiveIn(Q, n) = LiveIn(R, n) \ {p}
  <2>1. \A i \in CopiesIn(R, n) : Q[i].live <=> (R[i].live /\ i # p)
    <3> SUFFICES ASSUME NEW i \in CopiesIn(R, n)
                 PROVE  Q[i].live <=> (R[i].live /\ i # p)
      OBVIOUS
    <3>1. i \in Slot /\ R[i] \in Rec
      BY DEF CopiesIn, Sound
    <3>2. CASE i = p
      BY <3>2 DEF Killed
    <3>3. CASE i # p
      BY <3>1, <3>3 DEF Killed
    <3> QED
      BY <3>2, <3>3
  <2> QED
    BY <1>2, <2>1 DEF LiveIn
<1>5. ASSUME NEW m, m # n
      PROVE  Apart(R, Q, m)
  <2>1. p \notin CopiesIn(R, m)
    BY <1>1, <1>5 DEF CopiesIn
  <2>2. \A i \in CopiesIn(R, m) : Q[i] = R[i]
    BY <2>1 DEF Killed, CopiesIn
  <2>3. LiveIn(Q, m) = LiveIn(R, m)
    BY <1>2, <2>2 DEF LiveIn
  <2>4. \A i \in Slot : R[i] # Blank =>
             Q[i] # Blank /\ (IsMine(Q, i, "ssid") => IsMine(R, i, "ssid"))
    BY DEF Killed, IsMine
  <2> QED
    BY <1>2, <2>2, <2>3, <2>4 DEF Apart
<1>6. \A t \in Slot : IsLog(R, t) => IsLog(Q, t)
  <2>1. \A i \in Slot : Q[i] = Blank <=> R[i] = Blank
    BY <1>1 DEF Killed
  <2> QED
    BY <2>1 DEF IsLog
<1>7. ASSUME NEW m \in Name, NEW i \in Slot, IsLast(CopiesIn(Q, m), i)
      PROVE  Q[i].live
  <2>1. IsLast(CopiesIn(R, m), i)
    BY <1>2, <1>7
  <2>2. R[i].live
    BY <2>1 DEF Sound
  <2>3. i # p
    <3> SUFFICES ASSUME i = p PROVE FALSE
      OBVIOUS
    <3>1. m = n
      BY <1>1, <2>1 DEF IsLast, CopiesIn
    <3>2. q \in CopiesIn(R, m)
      BY <3>1 DEF LiveIn
    <3> QED
      BY <1>1, <2>1, <3>2 DEF IsLast
  <2> QED
    BY <2>2, <2>3 DEF Killed
<1>8. \A i \in HostsIn(Q) : Q[i].live
  BY <1>3 DEF Sound, Killed, HostsIn
<1>9. Sound(Q)
  BY <1>6, <1>7, <1>8 DEF Sound, Killed
<1>10. \A i \in Slot : Q[i].pw = R[i].pw
  BY DEF Killed
<1> QED
  BY <1>2, <1>4, <1>5, <1>9, <1>10

\* rb_recreate with CREATE_INIT_ALWAYS.
LEMMA BlankSound ==
    ASSUME NEW Q, Q = [i \in Slot |-> Blank]
    PROVE  Sound(Q) /\ \A n : CopiesIn(Q, n) = {}
<1>1. Q \in [Slot -> Rec \cup {Blank}] /\ \A i \in Slot : Q[i] = Blank
  OBVIOUS
<1>2. IsLog(Q, 0)
  BY <1>1, Geometry DEF IsLog, Slot
<1>3. (\A n : CopiesIn(Q, n) = {}) /\ HostsIn(Q) = {}
  BY <1>1 DEF CopiesIn, HostsIn
<1> QED
  BY <1>1, <1>2, <1>3, Geometry DEF Sound, IsLast

\* Slots in front of a record are not blank.
LEMMA LogBefore ==
    ASSUME NEW R, Sound(R), NEW p \in Slot, R[p] # Blank, NEW i \in Slot, i < p
    PROVE  R[i] # Blank
<1>1. PICK t \in Slot : IsLog(R, t)
  BY DEF Sound
<1>2. Slot \subseteq Int
  BY Geometry DEF Slot
<1> QED
  BY <1>1, <1>2 DEF IsLog

\* Without a copy there is nothing to know of an ssid.
LEMMA NoCopyKeeps ==
    ASSUME NEW Q, NEW k, k.fn = "write_ssid", CopiesIn(Q, k.name) = {}, NEW l, NEW f
    PROVE  FrameOK(l, k, f, Q)
<1>1. LiveIn(Q, k.name) = {}
  BY DEF LiveIn
<1>2. SsidsCounted(l, k, f, Q)
  BY <1>1 DEF SsidsCounted
<1>3. Stored(Q, k) /\ Alone(Q, k.name)
  BY <1>1 DEF Stored, Alone, IsLast
<1>4. Redundant(l, k.name, f, Q)
  BY <1>1 DEF Redundant, FromOn
<1> QED
  BY <1>2, <1>3, <1>4 DEF FrameOK

\* What main knows of its ssid stays true when others use the ring.
LEMMA ApartKeeps ==
    ASSUME NEW R, Sound(R), NEW Q, NEW k, k.fn = "write_ssid", Apart(R, Q, k.name),
           NEW l, NEW f, l # "done" => f \in Frame, FrameOK(l, k, f, R)
    PROVE  FrameOK(l, k, f, Q)
<1> DEFINE n == k.name
<1>1. CASE CopiesIn(Q, n) = {}
  BY <1>1, NoCopyKeeps
<1>2. CASE CopiesIn(Q, n) # {}
  <2>1. /\ CopiesIn(Q, n) = CopiesIn(R, n)
        /\ \A i \in CopiesIn(R, n) : Q[i].pw = R[i].pw
        /\ LiveIn(Q, n) = LiveIn(R, n)
        /\ \A i \in Slot : R[i] # Blank =>
              Q[i] # Blank /\ (IsMine(Q, i, "ssid") => IsMine(R, i, "ssid"))
    BY <1>2 DEF Apart
  <2>2. ASSUME NEW a, NEW b, \A i \in Slot : i < b => R[i] # Blank
        PROVE  Count(Q, "ssid", a, b) <= Count(R, "ssid", a, b)
    <3>1. Between(Q, "ssid", a, b) \subseteq Between(R, "ssid", a, b)
      BY <2>1, <2>2 DEF Between, IsMine
    <3> QED
      BY <3>1, CountSubset
  <2>3. \A a, b : Count(Q, "ssid", a, b) \in Nat /\ Count(R, "ssid", a, b) \in Nat
    BY CountIsNat
  <2>4. \A p \in LiveIn(R, n) : \A a :
            Count(Q, "ssid", a, p) <= Count(R, "ssid", a, p)
    <3>1. \A p \in LiveIn(R, n) : p \in Slot /\ R[p] # Blank
      BY DEF LiveIn, CopiesIn
    <3>2. \A p \in LiveIn(R, n) : \A i \in Slot : i < p => R[i] # Blank
      BY <3>1, LogBefore
    <3> QED
      BY <2>2, <3>2
  <2>5. SsidsCounted(l, k, f, Q)
    <3>1. SsidsCounted(l, k, f, R)
      BY DEF FrameOK
    <3>2. CASE l = "idsread" /\ LiveIn(R, n) # {}
      <4>1. /\ f.count \in Nat /\ Count(R, "ssid", 0, f.next) <= f.count
            /\ \A i \in Slot : i < f.next => R[i] # Blank
        BY <3>1, <3>2 DEF SsidsCounted, Frame
      <4>2. Count(Q, "ssid", 0, f.next) <= Count(R, "ssid", 0, f.next)
        BY <2>2, <4>1
      <4>3. Count(Q, "ssid", 0, f.next) <= f.count
        BY <2>3, <4>1, <4>2
      <4> QED
        BY <2>1, <3>2, <4>1, <4>3 DEF SsidsCounted
    <3>3. CASE l = "nth"
      <4>1. ASSUME NEW p \in LiveIn(Q, n), NEW q \in LiveIn(Q, n), p < q
            PROVE  Count(Q, "ssid", 0, p) + 2 <= f.count
        <5>1. Count(R, "ssid", 0, p) + 2 <= f.count /\ f.count \in Nat
          BY <2>1, <3>1, <3>3, <4>1 DEF SsidsCounted, Frame
        <5>2. Count(Q, "ssid", 0, p) <= Count(R, "ssid", 0, p)
          BY <2>1, <2>4
        <5> QED
          BY <2>3, <5>1, <5>2
      <4> QED
        BY <3>3, <4>1 DEF SsidsCounted
    <3>4. CASE l = "nthread"
      <4>1. ASSUME NEW p \in LiveIn(Q, n), NEW q \in LiveIn(Q, n), p < q, f.next <= p
            PROVE  Count(Q, "ssid", f.next, p) + 2 <= f.count
        <5>1. Count(R, "ssid", f.next, p) + 2 <= f.count /\ f.count \in Nat
          BY <2>1, <3>1, <3>4, <4>1 DEF SsidsCounted, Frame
        <5>2. Count(Q, "ssid", f.next, p) <= Count(R, "ssid", f.next, p)
          BY <2>1, <2>4
        <5> QED
          BY <2>3, <5>1, <5>2
      <4> QED
        BY <3>4, <4>1 DEF SsidsCounted
    <3> QED
      BY <2>1, <3>2, <3>3, <3>4 DEF SsidsCounted
  <2>6. Stored(R, k) => Stored(Q, k)
    BY <2>1 DEF Stored, IsLast
  <2>7. Alone(R, n) => Alone(Q, n)
    BY <2>1 DEF Alone
  <2>8. Redundant(l, n, f, R) => Redundant(l, n, f, Q)
    BY <2>1 DEF Redundant, FromOn
  <2> QED
    BY <2>5, <2>6, <2>7, <2>8 DEF FrameOK
<1> QED
  BY <1>1, <1>2

LEMMA ApartHarmless ==
    ASSUME NEW R, NEW Q, NEW n, Apart(R, Q, n), NEW b, Harmless(R, n, b)
    PROVE  Harmless(Q, n, b)
  BY DEF Apart, Harmless, IsLast

-----------------------------------------------------------------------------
(* One step of a context *)

\* The context c is at l in the call k, with the frame f.
Typed(c, l, k, f) ==
    /\ l # "idle" => k \in CallsOf(c) /\ l \in Labels(k.fn)
    /\ l # "done" => f \in Frame
Moves(c, l, k, f) ==
    /\ DOMAIN pc' = Ctx /\ DOMAIN call' = Ctx /\ DOMAIN fr' = Ctx
    /\ pc'[c] = l /\ call'[c] = k /\ fr'[c] = f
    /\ \A d \in Ctx \ {c} : pc'[d] = pc[d] /\ call'[d] = call[d] /\ fr'[d] = fr[d]

\* What holds for the context that made the step, and for main behind a callback.
OwnOK(l, k, f, R, b) == l # "idle" => FrameOK(l, k, f, R) /\ BufferOK(l, k, f, R, b)
MainActive == pc["main"] # "idle" /\ call["main"].fn = "write_ssid"
MainBuffer(R, b) == pc["main"] = "compare" => Harmless(R, call["main"].name, b)

\* The calls of each context.
LEMMA CallFacts ==
    ASSUME Control, NEW c \in Ctx, pc[c] # "idle"
    PROVE  /\ call[c] \in Call /\ call[c] \in CallsOf(c)
           /\ call[c].fn \in {"write_ssid", "write_host", "read_host", "find", "wipe"}
           /\ call[c].fn \in {"write_ssid", "write_host", "find"} => call[c].name \in Name
           /\ call[c].pw \in Password \cup {NoPassword}
<1>1. call[c] \in CallsOf(c)
  BY DEF Control
<1>2. call[c] \in Call
  BY <1>1, CallAssumption DEF CallsOf
<1> QED
  BY <1>1, <1>2 DEF Call

\* Where the labels belong.
LEMMA LabelFacts ==
    /\ \A fn : "idle" \notin Labels(fn)
    /\ \A fn : {"compare", "append", "write"} \cap Labels(fn) # {} =>
                  fn \in {"write_ssid", "write_host"}
    /\ \A fn : {"ids", "idsread", "nth", "nthread"} \cap Labels(fn) # {} =>
                  fn \in {"write_ssid", "write_host", "read_host"}
    /\ \A fn : "copy" \in Labels(fn) => fn = "read_host"
    /\ \A fn : {"match", "search", "take", "password"} \cap Labels(fn) # {} => fn = "find"
    /\ \A fn : {"redundant", "find1", "find2", "delete"} \cap Labels(fn) # {} =>
                  fn \in {"write_ssid", "write_host", "find"}
    /\ \A fn : "wipe" \in Labels(fn) =>
                  fn \notin {"write_ssid", "write_host", "find", "read_host"}
  BY DEF Labels

\* The step of a context, whatever it does to the ring.
LEMMA Assemble ==
    ASSUME Inv, NEW c \in Ctx, CanRun(c), NEW l, NEW k, NEW f,
           Moves(c, l, k, f), Typed(c, l, k, f), oldest' \in 0 .. N - 1,
           ~filled' => /\ oldest' = 0 /\ Sound(ring')
                       /\ OwnOK(l, k, f, ring', pagebuff'),
           ~filled' /\ c = "irq" /\ MainActive =>
               /\ FrameOK(pc["main"], call["main"], fr["main"], ring')
               /\ ~Unsettled(l, k) => MainBuffer(ring', pagebuff')
    PROVE  Inv'
<1> USE DEF Inv
<1>2. /\ DOMAIN pc' = Ctx /\ DOMAIN call' = Ctx /\ DOMAIN fr' = Ctx
      /\ pc'[c] = l /\ call'[c] = k /\ fr'[c] = f
      /\ \A d \in Ctx \ {c} : pc'[d] = pc[d] /\ call'[d] = call[d] /\ fr'[d] = fr[d]
  BY DEF Moves
<1>3. Ctx = {"main", "irq"} /\ "main" # "irq"
  BY DEF Ctx
<1>4. c = "irq" => pc["main"] = "idle" \/ call["main"].fn = "write_ssid"
  BY DEF CanRun, Control
<1>5. c = "main" => pc["irq"] = "idle"
  BY DEF CanRun
<1>6. Control'
  <2>4. oldest' \in 0 .. N - 1
    OBVIOUS
  <2>1. \A d \in Ctx : (pc[d] # "idle" => call[d] \in CallsOf(d) /\ pc[d] \in Labels(call[d].fn))'
    BY <1>2 DEF Control, Typed, CallsOf
  <2>2. \A d \in Ctx : (pc[d] # "done" => fr[d] \in Frame)'
    BY <1>2 DEF Control, Typed
  <2>3. (pc["irq"] # "idle" => pc["main"] = "idle" \/ call["main"].fn = "write_ssid")'
    BY <1>2, <1>3, <1>4, <1>5
  <2> QED
    BY <1>2, <2>1, <2>2, <2>3, <2>4 DEF Control, CallsOf
<1>7. RingInv'
  <2> SUFFICES ASSUME ~filled' PROVE RingInv'
    BY DEF RingInv
  <2>1. oldest' = 0 /\ Sound(ring') /\ OwnOK(l, k, f, ring', pagebuff')
    OBVIOUS
  <2>2. CASE c = "main"
    <3>1. pc'["irq"] = "idle" /\ pc'["main"] = l /\ call'["main"] = k /\ fr'["main"] = f
      BY <1>2, <1>3, <1>5, <2>2
    <3> QED
      BY <2>1, <3>1, <1>3 DEF RingInv, OwnOK
  <2>3. CASE c = "irq"
    <3>1. /\ pc'["irq"] = l /\ call'["irq"] = k /\ fr'["irq"] = f
          /\ pc'["main"] = pc["main"] /\ call'["main"] = call["main"] /\ fr'["main"] = fr["main"]
      BY <1>2, <1>3, <2>3
    <3>2. pc["main"] # "idle" => MainActive
      BY <1>4, <2>3 DEF MainActive
    <3>3. pc["main"] # "idle" => pc["main"] \in Labels("write_ssid")
      BY <1>3, <3>2 DEF Control, MainActive
    <3>4. pc["main"] # "idle" => pc["main"] # "copy" /\ pc["main"] # "password"
      BY <3>3, LabelFacts
    <3>5. pc["main"] # "idle" /\ ~Unsettled(l, k) =>
              BufferOK(pc["main"], call["main"], fr["main"], ring', pagebuff')
      BY <2>3, <3>2, <3>4 DEF MainBuffer, BufferOK
    <3>6. pc["main"] # "idle" => FrameOK(pc["main"], call["main"], fr["main"], ring')
      BY <2>3, <3>2
    <3> QED
      BY <2>1, <3>1, <3>5, <3>6, <1>3 DEF RingInv, OwnOK
  <2> QED
    BY <2>2, <2>3, <1>3
<1> QED
  BY <1>6, <1>7

LEMMA GotoMoves ==
    ASSUME Control, NEW c \in Ctx, NEW l, NEW f, Goto(c, l, f), UNCHANGED call
    PROVE  Moves(c, l, call[c], f)
  BY DEF Control, Goto, Moves

\* A step that leaves the ring as it is.
LEMMA QuietStep ==
    ASSUME Inv, NEW c \in Ctx, CanRun(c), pc[c] # "idle", NEW l, NEW f,
           Goto(c, l, f), UNCHANGED <<ring, oldest, call, filled>>,
           l \in Labels(call[c].fn), l # "done" => f \in Frame,
           ~filled => /\ FrameOK(l, call[c], f, ring)
                      /\ BufferOK(l, call[c], f, ring, pagebuff'),
           ~filled /\ c = "irq" /\ MainActive /\ ~Unsettled(l, call[c]) =>
               MainBuffer(ring, pagebuff')
    PROVE  Inv'
<1>1. Control /\ RingInv
  BY DEF Inv
<1>2. Moves(c, l, call[c], f)
  BY <1>1, GotoMoves
<1>3. Typed(c, l, call[c], f)
  BY <1>1 DEF Typed, Control
<1>4. ~filled' => oldest' = 0 /\ Sound(ring') /\ OwnOK(l, call[c], f, ring', pagebuff')
  BY <1>1 DEF RingInv, OwnOK
<1>5. ~filled' /\ c = "irq" /\ MainActive =>
         /\ FrameOK(pc["main"], call["main"], fr["main"], ring')
         /\ ~Unsettled(l, call[c]) => MainBuffer(ring', pagebuff')
  <2>1. ~filled /\ MainActive => FrameOK(pc["main"], call["main"], fr["main"], ring)
    BY <1>1 DEF RingInv, MainActive, Ctx
  <2>2. ring' = ring /\ (filled' <=> filled)
    OBVIOUS
  <2>3. MainBuffer(ring', pagebuff') <=> MainBuffer(ring, pagebuff')
    BY <2>2 DEF MainBuffer
  <2> QED
    BY <2>1, <2>2, <2>3
<1>6. oldest' \in 0 .. N - 1
  BY <1>1 DEF Control
<1> QED
  BY <1>2, <1>3, <1>4, <1>5, <1>6, Assemble

\* What the invariant says of the context that makes a step.
LEMMA OwnFacts ==
    ASSUME Inv, NEW c \in Ctx, CanRun(c), pc[c] # "idle"
    PROVE  /\ pc[c] \in Labels(call[c].fn)
           /\ pc[c] # "done" => fr[c] \in Frame
           /\ ~filled => /\ oldest = 0 /\ Rewound = 0 /\ Sound(ring)
                         /\ FrameOK(pc[c], call[c], fr[c], ring)
                         /\ BufferOK(pc[c], call[c], fr[c], ring, pagebuff)
           /\ ~filled /\ c = "irq" /\ MainActive /\ ~Unsettled(pc[c], call[c]) =>
                 MainBuffer(ring, pagebuff)
<1>1. Control /\ RingInv
  BY DEF Inv
<1>2. c = "main" => pc["irq"] = "idle" /\ ~Unsettled(pc["irq"], call["irq"])
  BY DEF CanRun, Unsettled
<1>3. c \in {"main", "irq"}
  BY DEF Ctx
<1>4. oldest = 0 => Rewound = 0
  BY RingAssumption DEF Rewound
<1>5. ~filled => BufferOK(pc[c], call[c], fr[c], ring, pagebuff)
  BY <1>1, <1>2, <1>3 DEF RingInv
<1>6. ~filled /\ c = "irq" /\ MainActive /\ ~Unsettled(pc[c], call[c]) =>
         MainBuffer(ring, pagebuff)
  BY <1>1 DEF RingInv, MainActive, MainBuffer, BufferOK
<1> QED
  BY <1>1, <1>4, <1>5, <1>6 DEF Control, RingInv

\* Places where nothing has to be known of the ring, or of the page buffer.
LEMMA FreeLabels ==
    ASSUME NEW l, NEW k, NEW f, NEW R, NEW b
    PROVE  /\ l \in {"ids", "append", "write", "compare", "copy", "wipe"} =>
                 FrameOK(l, k, f, R)
           /\ l = "redundant" /\ k.fn # "write_ssid" => FrameOK(l, k, f, R)
           /\ l \notin {"compare", "copy", "password"} => BufferOK(l, k, f, R, b)
<1>1. l \in {"ids", "append", "write", "compare", "copy", "wipe", "redundant"} =>
         /\ SsidsCounted(l, k, f, R) /\ HostsCounted(l, f, R) /\ Searched(l, k.name, f, R)
         /\ l \notin {"find1", "find2", "delete"}
  BY DEF SsidsCounted, HostsCounted, Searched
<1> QED
  BY <1>1 DEF FrameOK, BufferOK

LEMMA NoFrameIsFrame == NoFrame \in Frame /\ [NoFrame EXCEPT !.next = 0] \in Frame
<1>1. PICK zero \in Slot \cap Nat : zero = 0
  BY Geometry
<1> QED
  BY <1>1 DEF NoFrame, Frame

-----------------------------------------------------------------------------
(* The actions *)

LEMMA StartCallKeeps ==
    ASSUME Inv, NEW c \in Ctx, StartCall(c)
    PROVE  Inv'
<1>1. Control /\ RingInv
  BY DEF Inv
<1>2. CanRun(c) /\ pc[c] = "idle" /\ UNCHANGED <<ring, oldest, pagebuff, filled>>
  BY DEF StartCall, Here
<1>3. PICK k \in CallsOf(c) :
        /\ call' = [call EXCEPT ![c] = k]
        /\ Goto(c, CASE k.fn = "find" -> "redundant"
                     [] k.fn = "wipe" -> "wipe"
                     [] OTHER -> "ids", NoFrame)
  BY DEF StartCall, CallsOf
<1>4. k.fn \in {"write_ssid", "write_host", "read_host", "find", "wipe"}
  BY <1>3, CallAssumption DEF CallsOf, Call
<1>5. PICK l \in {"redundant", "wipe", "ids"} :
        /\ l = CASE k.fn = "find" -> "redundant"
                 [] k.fn = "wipe" -> "wipe"
                 [] OTHER -> "ids"
        /\ (l = "redundant" => k.fn = "find") /\ l \in Labels(k.fn)
  BY <1>4 DEF Labels
<1>6. Goto(c, l, NoFrame)
  BY <1>3, <1>5
<1>7. Moves(c, l, k, NoFrame)
  BY <1>1, <1>3, <1>6 DEF Moves, Goto, Control
<1>8. Typed(c, l, k, NoFrame)
  BY <1>3, <1>5, NoFrameIsFrame DEF Typed
<1>9. OwnOK(l, k, NoFrame, ring', pagebuff')
  BY <1>5, FreeLabels DEF OwnOK
<1>10. ~filled' => oldest' = 0 /\ Sound(ring')
  BY <1>1, <1>2 DEF RingInv
<1>11. ~filled' /\ c = "irq" /\ MainActive =>
          /\ FrameOK(pc["main"], call["main"], fr["main"], ring')
          /\ MainBuffer(ring', pagebuff')
  <2> SUFFICES ASSUME ~filled, c = "irq", MainActive
               PROVE  /\ FrameOK(pc["main"], call["main"], fr["main"], ring)
                      /\ MainBuffer(ring, pagebuff)
    BY <1>2 DEF MainBuffer
  <2>1. ~Unsettled(pc["irq"], call["irq"])
    BY <1>2 DEF Unsettled
  <2> QED
    BY <1>1, <2>1 DEF RingInv, MainActive, MainBuffer, BufferOK, Ctx
<1>12. oldest' \in 0 .. N - 1
  BY <1>1, <1>2 DEF Control
<1> QED
  BY <1>2, <1>7, <1>8, <1>9, <1>10, <1>11, <1>12, Assemble

LEMMA EndCallKeeps ==
    ASSUME Inv, NEW c \in Ctx, EndCall(c)
    PROVE  Inv'
<1>1. Control /\ RingInv
  BY DEF Inv
<1>2. /\ CanRun(c) /\ pc[c] = "done" /\ UNCHANGED <<ring, oldest, pagebuff, filled>>
      /\ Goto(c, "idle", NoFrame) /\ call' = [call EXCEPT ![c] = NoCall]
  BY DEF EndCall, Here
<1>3. Moves(c, "idle", NoCall, NoFrame) /\ Typed(c, "idle", NoCall, NoFrame)
  BY <1>1, <1>2, NoFrameIsFrame DEF Moves, Goto, Control, Typed
<1>4. ~filled' => /\ oldest' = 0 /\ Sound(ring')
                  /\ OwnOK("idle", NoCall, NoFrame, ring', pagebuff')
  BY <1>1, <1>2 DEF RingInv, OwnOK
<1>5. ~filled' /\ c = "irq" /\ MainActive =>
          /\ FrameOK(pc["main"], call["main"], fr["main"], ring')
          /\ MainBuffer(ring', pagebuff')
  <2> SUFFICES ASSUME ~filled, c = "irq", MainActive
               PROVE  /\ FrameOK(pc["main"], call["main"], fr["main"], ring)
                      /\ MainBuffer(ring, pagebuff)
    BY <1>2 DEF MainBuffer
  <2>1. ~Unsettled(pc["irq"], call["irq"])
    BY <1>2 DEF Unsettled
  <2> QED
    BY <1>1, <2>1 DEF RingInv, MainActive, MainBuffer, BufferOK, Ctx
<1>6. oldest' \in 0 .. N - 1
  BY <1>1, <1>2 DEF Control
<1> QED
  BY <1>2, <1>3, <1>4, <1>5, <1>6, Assemble

LEMMA WipeKeeps ==
    ASSUME Inv, NEW c \in Ctx, flash_io_erase_ssids_hostnames(c)
    PROVE  Inv'
<1> DEFINE f == [found |-> TRUE, value |-> NoPassword]
<1>1. Control /\ RingInv
  BY DEF Inv
<1>2. /\ CanRun(c) /\ pc[c] = "wipe" /\ UNCHANGED <<pagebuff, call>>
      /\ ring' = [i \in Slot |-> Blank] /\ oldest' = 0
      /\ Goto(c, "done", f)
  BY DEF flash_io_erase_ssids_hostnames, Here, Return
<1>3. /\ Sound(ring') /\ \A n : CopiesIn(ring', n) = {}
  BY <1>2, BlankSound
<1>4. call[c].fn \notin {"write_ssid", "write_host", "find", "read_host"}
  BY <1>1, <1>2, LabelFacts DEF Control
<1>5. "done" \in Labels(call[c].fn)
  BY <1>4 DEF Labels
<1> HIDE DEF f
<1>6. Moves(c, "done", call[c], f) /\ Typed(c, "done", call[c], f)
  BY <1>1, <1>2, <1>5, GotoMoves DEF Typed, Control
<1>7. OwnOK("done", call[c], f, ring', pagebuff')
  BY <1>4, FreeLabels DEF OwnOK, FrameOK
<1>8. MainActive => /\ FrameOK(pc["main"], call["main"], fr["main"], ring')
                    /\ MainBuffer(ring', pagebuff')
  BY <1>3, NoCopyKeeps DEF MainActive, MainBuffer, Harmless, IsLast
<1>9. oldest' \in 0 .. N - 1
  BY <1>2, RingAssumption
<1> QED
  BY <1>2, <1>3, <1>6, <1>7, <1>8, <1>9, Assemble

LEMMA AfterLatestGoes ==
    ASSUME NEW c, NEW got \in BOOLEAN, AfterLatest(c, got)
    PROVE  /\ call[c].fn # "read_host" /\ got => Goto(c, "compare", NoFrame)
           /\ call[c].fn # "read_host" /\ ~got => Goto(c, "append", NoFrame)
           /\ call[c].fn = "read_host" /\ got => Goto(c, "copy", NoFrame)
           /\ call[c].fn = "read_host" /\ ~got =>
                 Goto(c, "done", [found |-> FALSE, value |-> NoPassword])
  BY DEF AfterLatest, Return

\* The latest record of the id was not read.
LEMMA NotRead ==
    ASSUME Inv, NEW c \in Ctx, CanRun(c), pc[c] \in {"ids", "idsread", "nth", "nthread"},
           AfterLatest(c, FALSE), UNCHANGED <<ring, oldest, pagebuff, call, filled>>,
           ~filled /\ call[c].fn = "read_host" => HostsIn(ring) = {}
    PROVE  Inv'
<1>1. pc[c] # "idle" /\ call[c].fn \in {"write_ssid", "write_host", "read_host"}
  BY LabelFacts DEF Inv, Control
<1>2. pagebuff' = pagebuff /\ UNCHANGED <<ring, oldest, call, filled>>
  OBVIOUS
<1>3. CASE call[c].fn # "read_host"
  <2>1. Goto(c, "append", NoFrame) /\ "append" \in Labels(call[c].fn)
    BY <1>1, <1>3, AfterLatestGoes DEF Labels
  <2>2. ~Unsettled("append", call[c]) => ~Unsettled(pc[c], call[c])
    BY <1>1, <1>3 DEF Unsettled
  <2>3. ~filled /\ c = "irq" /\ MainActive /\ ~Unsettled("append", call[c]) =>
           MainBuffer(ring, pagebuff')
    BY <1>1, <1>2, <2>2, OwnFacts
  <2> QED
    BY <1>1, <1>2, <2>1, <2>3, FreeLabels, NoFrameIsFrame, QuietStep
<1>4. CASE call[c].fn = "read_host"
  <2> DEFINE f == [found |-> FALSE, value |-> NoPassword]
  <2>1. Goto(c, "done", f) /\ "done" \in Labels(call[c].fn)
    BY <1>4, AfterLatestGoes DEF Labels
  <2>2. ~Unsettled(pc[c], call[c])
    BY <1>4 DEF Unsettled
  <2>3. ~filled /\ c = "irq" /\ MainActive => MainBuffer(ring, pagebuff')
    BY <1>1, <1>2, <2>2, OwnFacts
  <2>4. ~filled => FrameOK("done", call[c], f, ring)
    BY <1>4 DEF FrameOK, HostsCounted
  <2> HIDE DEF f
  <2> QED
    BY <1>1, <1>2, <2>1, <2>3, <2>4, FreeLabels, QuietStep
<1> QED
  BY <1>3, <1>4

\* Sector 0 blank: nothing is stored.
LEMMA BlankRing ==
    ASSUME NEW R, Sound(R), R[0] = Blank
    PROVE  HostsIn(R) = {} /\ \A n : CopiesIn(R, n) = {}
<1>1. \A i \in Slot : R[i] = Blank
  <2> SUFFICES ASSUME NEW i \in Slot, R[i] # Blank PROVE FALSE
    OBVIOUS
  <2>1. 0 \in Slot /\ i # 0 /\ (i = 0 \/ 0 < i)
    BY SlotFacts
  <2> QED
    BY <2>1, LogBefore
<1> QED
  BY <1>1 DEF HostsIn, CopiesIn

LEMMA CountEmpty ==
    ASSUME NEW R, NEW id, NEW a \in Int
    PROVE  Count(R, id, a, a) = 0
<1>1. \A i \in Slot : ~(a <= i /\ i < a)
  BY SlotFacts
<1>2. Between(R, id, a, a) = {}
  BY <1>1 DEF Between
<1> QED
  BY <1>2, FS_EmptySet DEF Count

LEMMA RewoundIsSlot ==
    ASSUME Control
    PROVE  Rewound \in Slot
<1>1. oldest \in 0 .. N - 1 /\ N \in Nat /\ K \in Nat /\ K >= 1
  BY RingAssumption DEF Control
<1>2. \A x, y, m \in Nat : x + 1 <= y /\ m >= 1 => x * m + m <= y * m /\ x * m \in Nat
  OBVIOUS
<1>3. oldest * K + K <= N * K /\ oldest * K \in Nat /\ N * K \in Nat
  BY <1>1, <1>2
<1> QED
  BY <1>1, <1>3 DEF Rewound, Slot, Size

LEMMA IdsKeeps ==
    ASSUME Inv, NEW c \in Ctx, read_flash_ids(c)
    PROVE  Inv'
<1>1. /\ CanRun(c) /\ pc[c] = "ids" /\ pagebuff' = pagebuff
      /\ UNCHANGED <<ring, oldest, pagebuff, call, filled>>
  BY DEF read_flash_ids, Here
<1>2. call[c].fn \in {"write_ssid", "write_host", "read_host"}
  BY <1>1, LabelFacts DEF Inv, Control
<1>3. CASE ~RecreateOk
  <2>1. ~filled => HostsIn(ring) = {}
    BY <1>1, <1>3, OwnFacts, BlankRing DEF RecreateOk
  <2>2. AfterLatest(c, FALSE)
    BY <1>3 DEF read_flash_ids
  <2> QED
    BY <1>1, <2>1, <2>2, NotRead
<1>4. CASE RecreateOk
  <2>1. PICK f : f = [NoFrame EXCEPT !.next = Rewound]
    OBVIOUS
  <2>2. Goto(c, "idsread", f) /\ "idsread" \in Labels(call[c].fn)
    BY <1>2, <1>4, <2>1 DEF read_flash_ids, Labels
  <2>3. f \in Frame /\ f.next = Rewound /\ f.count = 0
    BY <2>1, RewoundIsSlot, NoFrameIsFrame DEF Inv, Frame, NoFrame
  <2>4. ~filled => Rewound = 0 /\ Sound(ring)
    BY <1>1, OwnFacts
  <2>5. /\ Count(ring, "ssid", 0, 0) = 0 /\ Count(ring, "host", 0, 0) = 0
        /\ \A i \in Slot : ~(i < 0)
    BY CountEmpty, Geometry DEF Slot
  <2>6. ~filled => SsidsCounted("idsread", call[c], f, ring)
    BY <2>3, <2>4, <2>5 DEF SsidsCounted
  <2>7. ~filled => HostsCounted("idsread", f, ring)
    BY <2>3, <2>4, <2>5 DEF HostsCounted
  <2>8. ~filled => FrameOK("idsread", call[c], f, ring)
    BY <2>6, <2>7, <1>2 DEF FrameOK
  <2>9. ~filled /\ c = "irq" /\ MainActive => MainBuffer(ring, pagebuff')
    BY <1>1, OwnFacts DEF Unsettled
  <2> QED
    BY <1>1, <2>2, <2>3, <2>8, <2>9, FreeLabels, QuietStep
<1> QED
  BY <1>3, <1>4

LEMMA MinOfTwo ==
    ASSUME NEW a \in Nat, NEW b \in Nat
    PROVE  Min({a, b}) \in Nat /\ Min({a, b}) = IF a <= b THEN a ELSE b
<1>1. Min({a, b}) \in {a, b} /\ \A y \in {a, b} : Min({a, b}) <= y
  BY MinIsLeast
<1> QED
  BY <1>1

LEMMA MineIs == \A p, id : Mine(p, id) <=> IsMine(ring, p, id)
  BY DEF Mine, IsMine

\* Host names are never deleted.
LEMMA NoHostCounted ==
    ASSUME NEW R, Sound(R), Count(R, "host", 0, Size) = 0
    PROVE  HostsIn(R) = {}
<1> SUFFICES ASSUME NEW p \in HostsIn(R) PROVE FALSE
  OBVIOUS
<1>1. p \in Slot /\ 0 <= p /\ p < Size /\ R[p] # Blank /\ R[p].id = "host" /\ R[p].live
  BY SlotFacts DEF HostsIn, Sound
<1>2. p \in Between(R, "host", 0, Size)
  BY <1>1 DEF Between
<1>3. IsFiniteSet(Between(R, "host", 0, Size)) /\ Cardinality(Between(R, "host", 0, Size)) = 0
  BY CountIsNat DEF Count
<1> QED
  BY <1>2, <1>3, FS_EmptySet

\* What a read of a live record of an id leaves in the page buffer for main.
LEMMA HostHarmless ==
    ASSUME NEW R, NEW n, NEW b, b.id # "ssid"
    PROVE  Harmless(R, n, b)
  BY DEF Harmless

\* Counting goes on behind the record read.
LEMMA CountedOn ==
    ASSUME NEW R, Sound(R), NEW id, NEW x \in Slot, NEW q \in Slot, x <= q, IsMine(R, q, id),
           \A j \in Slot : x <= j /\ j < q => ~IsMine(R, j, id),
           NEW m \in Nat, NEW m2, m2 = Min({MaxCount, m + 1})
    PROVE  /\ \A i \in Slot : i < q + 1 => R[i] # Blank
           /\ Count(R, id, 0, x) <= m => Count(R, id, 0, q + 1) <= m2
           /\ Count(R, id, 0, x) = m => Count(R, id, 0, q + 1) = m2
           /\ m2 \in Nat
<1>1. /\ x \in Int /\ q \in Int /\ Size \in Nat /\ R[q] # Blank
      /\ \A i \in Slot : i \in Int
  BY SlotFacts DEF IsMine
<1>2. MaxCount \in Nat /\ m + 1 \in Nat /\ MaxCount >= Size
  BY <1>1 DEF MaxCount
<1>3. m2 \in Nat /\ (m2 = m + 1 \/ (m2 >= Size /\ m2 <= m + 1))
  BY <1>2, MinOfTwo, <1>1
<1>4. /\ Count(R, id, 0, q + 1) = Count(R, id, 0, x) + 1
      /\ Count(R, id, 0, q + 1) \in Nat /\ Count(R, id, 0, q + 1) <= Size
      /\ Count(R, id, 0, x) \in Nat
  BY CountNext, CountIsNat
<1>5. \A i \in Slot : i < q + 1 => R[i] # Blank
  <2> SUFFICES ASSUME NEW i \in Slot, i < q + 1
               PROVE  R[i] # Blank
    OBVIOUS
  <2>1. i = q \/ i < q
    BY <1>1
  <2> QED
    BY <1>1, <2>1, LogBefore
<1> QED
  BY <1>1, <1>3, <1>4, <1>5

LEMMA IdsReadKeeps ==
    ASSUME Inv, NEW c \in Ctx, IdsRead(c)
    PROVE  Inv'
<1> DEFINE r == RbRead(fr[c].next, Id(c))
           x == fr[c].next
           m == fr[c].count
<1>1. /\ CanRun(c) /\ pc[c] = "idsread"
      /\ UNCHANGED <<ring, oldest, call, filled>>
      /\ pagebuff' = IF r.ok THEN ring[r.at] ELSE pagebuff
  BY DEF IdsRead, Here
<1>2. call[c].fn \in {"write_ssid", "write_host", "read_host"}
  BY <1>1, LabelFacts DEF Inv, Control
<1>3. fr[c] \in Frame /\ x \in Slot /\ m \in Nat
  BY <1>1 DEF Inv, Control, Frame
<1>4. r.next \in Slot /\ r.at \in Slot /\ r.ok \in BOOLEAN
  BY <1>3, ReadStays
<1>5. ~filled => Sound(ring) /\ FrameOK("idsread", call[c], fr[c], ring)
  BY <1>1, OwnFacts
<1>6. /\ Id(c) = "ssid" <=> call[c].fn = "write_ssid"
      /\ Id(c) = "host" <=> call[c].fn # "write_ssid"
  BY DEF Id
<1>7. ~filled /\ r.ok =>
        /\ x <= r.at /\ r.next = r.at + 1 /\ IsMine(ring, r.at, Id(c))
        /\ \A j \in Slot : x <= j /\ j < r.at => ~IsMine(ring, j, Id(c))
  BY <1>3, <1>4, <1>5, ReadFinds, MineIs DEF Sound
<1>8. ~filled /\ ~r.ok => \A j \in Slot : x <= j => ~IsMine(ring, j, Id(c))
  BY <1>3, <1>4, <1>5, ReadFinds, MineIs DEF Sound
<1>9. ~filled /\ call[c].fn = "write_ssid" /\ LiveIn(ring, call[c].name) # {} =>
        /\ \A i \in Slot : i < x => ring[i] # Blank
        /\ Count(ring, "ssid", 0, x) <= m
  BY <1>5 DEF FrameOK, SsidsCounted
<1>10. ~filled /\ call[c].fn = "read_host" => m = Count(ring, "host", 0, x)
  BY <1>5 DEF FrameOK, HostsCounted
<1>11. CASE r.ok
  <2>1. PICK f : f = [fr[c] EXCEPT !.next = r.next, !.count = Min({MaxCount, m + 1})]
    OBVIOUS
  <2>2. Goto(c, "idsread", f) /\ "idsread" \in Labels(call[c].fn)
    BY <1>2, <1>11, <2>1 DEF IdsRead, Labels
  <2>3. Min({MaxCount, m + 1}) \in Nat
    BY <1>3, MinOfTwo, SlotFacts DEF MaxCount
  <2>4. f \in Frame /\ f.next = r.next /\ f.count = Min({MaxCount, m + 1})
    BY <1>3, <1>4, <2>1, <2>3 DEF Frame
  <2>5. ~filled => FrameOK("idsread", call[c], f, ring)
    <3> SUFFICES ASSUME ~filled PROVE FrameOK("idsread", call[c], f, ring)
      OBVIOUS
    <3>1. /\ \A i \in Slot : i < f.next => ring[i] # Blank
          /\ Count(ring, Id(c), 0, x) <= m => Count(ring, Id(c), 0, f.next) <= f.count
          /\ Count(ring, Id(c), 0, x) = m => Count(ring, Id(c), 0, f.next) = f.count
      <4> HIDE DEF r, x, m
      <4>1. /\ Sound(ring) /\ x \in Slot /\ r.at \in Slot /\ x <= r.at
            /\ IsMine(ring, r.at, Id(c)) /\ m \in Nat /\ f.next = r.at + 1
            /\ \A j \in Slot : x <= j /\ j < r.at => ~IsMine(ring, j, Id(c))
        BY <1>3, <1>4, <1>5, <1>7, <1>11, <2>4
      <4> QED
        BY <4>1, <2>4, CountedOn
    <3>2. call[c].fn = "write_ssid" => SsidsCounted("idsread", call[c], f, ring)
      BY <1>6, <1>9, <3>1 DEF SsidsCounted
    <3>3. call[c].fn = "read_host" => HostsCounted("idsread", f, ring)
      BY <1>6, <1>10, <3>1 DEF HostsCounted
    <3> QED
      BY <3>2, <3>3, <1>2 DEF FrameOK
  <2>6. ~filled /\ c = "irq" /\ MainActive /\ ~Unsettled("idsread", call[c]) =>
           MainBuffer(ring, pagebuff')
    <3>1. ~Unsettled("idsread", call[c]) => Id(c) = "host"
      BY <1>6 DEF Unsettled
    <3>2. ~filled /\ Id(c) = "host" => pagebuff'.id # "ssid"
      BY <1>1, <1>7, <1>11 DEF IsMine
    <3> QED
      BY <3>1, <3>2, HostHarmless DEF MainBuffer
  <2> QED
    BY <1>1, <2>2, <2>4, <2>5, <2>6, FreeLabels, QuietStep
<1>12. CASE ~r.ok /\ m > 0
  <2>1. Goto(c, "nth", fr[c]) /\ "nth" \in Labels(call[c].fn)
    BY <1>2, <1>12 DEF IdsRead, Labels
  <2>2. ~filled => FrameOK("nth", call[c], fr[c], ring)
    <3> SUFFICES ASSUME ~filled PROVE FrameOK("nth", call[c], fr[c], ring)
      OBVIOUS
    <3>1. ASSUME call[c].fn = "write_ssid",
                 NEW p \in LiveIn(ring, call[c].name), NEW q \in LiveIn(ring, call[c].name), p < q
          PROVE  Count(ring, "ssid", 0, p) + 2 <= m
      <4>1. /\ p \in Slot /\ q \in Slot /\ IsMine(ring, p, "ssid") /\ IsMine(ring, q, "ssid")
        BY DEF LiveIn, CopiesIn, IsMine
      <4>2. ~(x <= q) /\ x \in Int /\ q \in Int
        BY <1>3, <1>6, <1>8, <1>12, <3>1, <4>1, SlotFacts
      <4>3. Count(ring, "ssid", 0, p) + 2 <= Count(ring, "ssid", 0, x)
        BY <3>1, <4>1, <4>2, CountTwo
      <4>4. Count(ring, "ssid", 0, p) \in Nat /\ Count(ring, "ssid", 0, x) \in Nat
        BY CountIsNat
      <4> QED
        BY <1>3, <1>9, <3>1, <4>3, <4>4
    <3>2. ASSUME call[c].fn = "read_host"
          PROVE  m = Count(ring, "host", 0, Size)
      BY <1>3, <1>6, <1>8, <1>10, <1>12, <3>2, CountRest
    <3> QED
      BY <1>2, <1>12, <3>1, <3>2 DEF FrameOK, SsidsCounted, HostsCounted
  <2>3. ~filled /\ c = "irq" /\ MainActive /\ ~Unsettled("nth", call[c]) =>
           MainBuffer(ring, pagebuff')
    BY <1>1, <1>12, OwnFacts DEF Unsettled
  <2> QED
    BY <1>1, <1>3, <2>1, <2>2, <2>3, FreeLabels, QuietStep
<1>13. CASE ~r.ok /\ ~(m > 0)
  <2>1. AfterLatest(c, FALSE) /\ pagebuff' = pagebuff
    BY <1>1, <1>13 DEF IdsRead
  <2>2. ~filled /\ call[c].fn = "read_host" => HostsIn(ring) = {}
    <3> SUFFICES ASSUME ~filled, call[c].fn = "read_host"
                 PROVE  HostsIn(ring) = {}
      OBVIOUS
    <3>1. Count(ring, "host", 0, x) = Count(ring, "host", 0, Size)
      BY <1>3, <1>6, <1>8, <1>13, CountRest
    <3>2. Count(ring, "host", 0, Size) = 0
      BY <1>3, <1>10, <1>13, <3>1
    <3> QED
      BY <1>5, <3>2, NoHostCounted
  <2> QED
    BY <1>1, <2>1, <2>2, NotRead
<1> QED
  BY <1>4, <1>11, <1>12, <1>13

LEMMA NthKeeps ==
    ASSUME Inv, NEW c \in Ctx, read_flash_id_n(c)
    PROVE  Inv'
<1>1. /\ CanRun(c) /\ pc[c] = "nth" /\ pagebuff' = pagebuff
      /\ UNCHANGED <<ring, oldest, pagebuff, call, filled>>
  BY DEF read_flash_id_n, Here
<1>2. call[c].fn \in {"write_ssid", "write_host", "read_host"}
  BY <1>1, LabelFacts DEF Inv, Control
<1>3. fr[c] \in Frame
  BY <1>1 DEF Inv, Control
<1>4. ~filled => Rewound = 0 /\ Sound(ring) /\ FrameOK("nth", call[c], fr[c], ring)
  BY <1>1, OwnFacts
<1>5. CASE ~RecreateOk
  <2>1. ~filled => HostsIn(ring) = {}
    BY <1>4, <1>5, BlankRing DEF RecreateOk
  <2>2. AfterLatest(c, FALSE)
    BY <1>5 DEF read_flash_id_n
  <2> QED
    BY <1>1, <2>1, <2>2, NotRead
<1>6. CASE RecreateOk
  <2>1. PICK f : f = [fr[c] EXCEPT !.next = Rewound]
    OBVIOUS
  <2>2. Goto(c, "nthread", f) /\ "nthread" \in Labels(call[c].fn)
    BY <1>2, <1>6, <2>1 DEF read_flash_id_n, Labels
  <2>3. f \in Frame /\ f.next = Rewound /\ f.count = fr[c].count
    BY <1>3, <2>1, RewoundIsSlot DEF Inv, Frame
  <2>4. ~filled => FrameOK("nthread", call[c], f, ring)
    BY <1>2, <1>4, <2>3 DEF FrameOK, SsidsCounted, HostsCounted
  <2>5. ~filled /\ c = "irq" /\ MainActive /\ ~Unsettled("nthread", call[c]) =>
           MainBuffer(ring, pagebuff')
    BY <1>1, OwnFacts DEF Unsettled
  <2> QED
    BY <1>1, <2>2, <2>3, <2>4, <2>5, FreeLabels, QuietStep
<1> QED
  BY <1>5, <1>6

\* Every ssid that was stored has a last copy, which lives.
LEMMA LastExists ==
    ASSUME NEW R, Sound(R), NEW n \in Name, CopiesIn(R, n) # {}
    PROVE  \E p \in LiveIn(R, n) : IsLast(CopiesIn(R, n), p)
<1> DEFINE T == {Size - i : i \in CopiesIn(R, n)}
<1>1. /\ CopiesIn(R, n) \subseteq Nat /\ CopiesIn(R, n) \subseteq Slot /\ Size \in Nat
  BY SlotFacts DEF CopiesIn
<1>2. T \subseteq Nat /\ T # {}
  BY <1>1, SlotFacts
<1>3. PICK y \in T : \A z \in T : y <= z
  <2> HIDE DEF T
  <2> QED
    BY <1>2, LeastElement
<1>4. PICK p \in CopiesIn(R, n) : y = Size - p
  OBVIOUS
<1>5. \A i \in CopiesIn(R, n) : Size - p <= Size - i
  BY <1>3, <1>4
<1>6. IsLast(CopiesIn(R, n), p)
  BY <1>1, <1>5 DEF IsLast
<1>7. p \in LiveIn(R, n)
  BY <1>1, <1>6 DEF Sound, LiveIn
<1> QED
  BY <1>6, <1>7

\* The last live copy of an ssid is its last copy.
LEMMA LiveIsLast ==
    ASSUME NEW R, Sound(R), NEW n \in Name, NEW q \in LiveIn(R, n),
           \A p \in LiveIn(R, n) : p <= q
    PROVE  IsLast(CopiesIn(R, n), q)
<1>1. /\ CopiesIn(R, n) \subseteq Nat /\ CopiesIn(R, n) \subseteq Slot
      /\ q \in CopiesIn(R, n) /\ q \in Nat /\ Size \in Nat
  BY SlotFacts DEF CopiesIn, LiveIn
<1>3. PICK p \in LiveIn(R, n) : IsLast(CopiesIn(R, n), p)
  BY <1>1, LastExists
<1>5. p <= q /\ q <= p /\ p \in Nat
  BY <1>1, <1>3 DEF IsLast
<1> QED
  BY <1>1, <1>3, <1>5

LEMMA LastIsOne ==
    ASSUME NEW S, S \subseteq Slot, NEW p, NEW q, IsLast(S, p), IsLast(S, q)
    PROVE  p = q
<1>1. p \in Int /\ q \in Int /\ p <= q /\ q <= p
  BY SlotFacts DEF IsLast
<1> QED
  BY <1>1

\* The record read in the end, if it is a copy of the ssid to be written, is the
\* last copy.
LEMMA LatestHarmless ==
    ASSUME NEW R, Sound(R), NEW n \in Name, NEW q \in Slot, IsMine(R, q, "ssid"),
           \A i, j \in LiveIn(R, n) : i < j => i # q
    PROVE  Harmless(R, n, R[q])
<1> SUFFICES ASSUME R[q].name = n, NEW p \in Slot, IsLast(CopiesIn(R, n), p)
             PROVE  R[p].pw = R[q].pw
  BY DEF Harmless
<1>1. q \in LiveIn(R, n)
  BY DEF IsMine, LiveIn, CopiesIn
<1>2. LiveIn(R, n) \subseteq Slot /\ CopiesIn(R, n) \subseteq Slot
  BY DEF LiveIn, CopiesIn
<1>3. \A j \in LiveIn(R, n) : j <= q
  BY <1>1, <1>2, SlotFacts
<1>4. IsLast(CopiesIn(R, n), q)
  BY <1>1, <1>3, LiveIsLast
<1>5. p = q
  BY <1>2, <1>4, LastIsOne
<1> QED
  BY <1>5

LEMMA CountZero ==
    ASSUME NEW R, NEW id, NEW x, Count(R, id, x, Size) = 0, NEW j \in Slot, x <= j
    PROVE  ~IsMine(R, j, id)
<1> SUFFICES ASSUME IsMine(R, j, id) PROVE FALSE
  OBVIOUS
<1>1. j \in Between(R, id, x, Size)
  BY SlotFacts DEF Between, IsMine
<1>2. IsFiniteSet(Between(R, id, x, Size)) /\ Cardinality(Between(R, id, x, Size)) = 0
  BY CountIsNat DEF Count
<1> QED
  BY <1>1, <1>2, FS_EmptySet

LEMMA NthReadKeeps ==
    ASSUME Inv, NEW c \in Ctx, NthRead(c)
    PROVE  Inv'
<1> DEFINE r == RbRead(fr[c].next, Id(c))
           x == fr[c].next
           m == fr[c].count
           n == call[c].name
<1>1. /\ CanRun(c) /\ pc[c] = "nthread"
      /\ UNCHANGED <<ring, oldest, call, filled>>
      /\ pagebuff' = IF r.ok THEN ring[r.at] ELSE pagebuff
  BY DEF NthRead, Here
<1>2. call[c].fn \in {"write_ssid", "write_host", "read_host"}
  BY <1>1, LabelFacts DEF Inv, Control
<1>3. fr[c] \in Frame /\ x \in Slot /\ m \in Nat
  BY <1>1 DEF Inv, Control, Frame
<1>4. r.next \in Slot /\ r.at \in Slot /\ r.ok \in BOOLEAN
  BY <1>3, ReadStays
<1>5. ~filled => Sound(ring) /\ FrameOK("nthread", call[c], fr[c], ring)
  BY <1>1, OwnFacts
<1>6. /\ Id(c) = "ssid" <=> call[c].fn = "write_ssid"
      /\ Id(c) = "host" <=> call[c].fn # "write_ssid"
  BY DEF Id
<1>7. ~filled /\ r.ok =>
        /\ x <= r.at /\ r.next = r.at + 1 /\ IsMine(ring, r.at, Id(c))
        /\ \A j \in Slot : x <= j /\ j < r.at => ~IsMine(ring, j, Id(c))
  BY <1>3, <1>4, <1>5, ReadFinds, MineIs DEF Sound
<1>8. ~filled /\ ~r.ok => \A j \in Slot : x <= j => ~IsMine(ring, j, Id(c))
  BY <1>3, <1>4, <1>5, ReadFinds, MineIs DEF Sound
<1>9. ~filled /\ call[c].fn = "write_ssid" =>
        \A p, q \in LiveIn(ring, n) :
           p < q /\ x <= p => Count(ring, "ssid", x, p) + 2 <= m
  BY <1>5 DEF FrameOK, SsidsCounted
<1>10. ~filled /\ call[c].fn = "read_host" =>
          m = Count(ring, "host", x, Size) /\ m > 0
  BY <1>5 DEF FrameOK, HostsCounted
<1>11. ~filled /\ r.ok =>
          \A b \in Int : b > r.at =>
             Count(ring, Id(c), x, b) = Count(ring, Id(c), r.next, b) + 1
  <2> SUFFICES ASSUME ~filled, r.ok
               PROVE  \A b \in Int : b > r.at =>
                         Count(ring, Id(c), x, b) = Count(ring, Id(c), r.next, b) + 1
    OBVIOUS
  <2>1. PICK q \in Slot : q = r.at
    BY <1>4
  <2>2. /\ x \in Slot /\ x <= q /\ IsMine(ring, q, Id(c)) /\ r.next = q + 1
        /\ \A j \in Slot : x <= j /\ j < q => ~IsMine(ring, j, Id(c))
    BY <1>3, <1>7, <2>1
  <2> HIDE DEF r, x
  <2>3. \A b \in Int : b > q => Count(ring, Id(c), x, b) = Count(ring, Id(c), q + 1, b) + 1
    <3>1. PICK R, id, y : R = ring /\ id = Id(c) /\ y = x
      OBVIOUS
    <3>2. /\ y \in Slot /\ y <= q /\ IsMine(R, q, id)
          /\ \A j \in Slot : y <= j /\ j < q => ~IsMine(R, j, id)
      BY <2>2, <3>1
    <3>3. \A b \in Int : b > q => Count(R, id, y, b) = Count(R, id, q + 1, b) + 1
      BY ONLY <3>2, q \in Slot, CountLess
    <3> QED
      BY <3>1, <3>3
  <2> QED
    BY <2>1, <2>2, <2>3
<1>12. pc[c] # "idle" /\ r.at \in Int /\ x \in Int /\ r.next \in Int
  BY <1>1, <1>3, <1>4, SlotFacts
<1>13. ~filled /\ r.ok /\ Id(c) = "host" => pagebuff'.id # "ssid"
  BY <1>1, <1>7 DEF IsMine
<1>14. CASE r.ok /\ Skips(m)
  <2>1. PICK f : f = [fr[c] EXCEPT !.next = r.next, !.count = m - 1]
    OBVIOUS
  <2>2. Goto(c, "nthread", f) /\ "nthread" \in Labels(call[c].fn)
    BY <1>2, <1>14, <2>1 DEF NthRead, Labels
  <2>3. m - 1 \in Nat /\ m > 1
    BY <1>3, <1>14 DEF Skips
  <2>4. f \in Frame /\ f.next = r.next /\ f.count = m - 1
    BY <1>3, <1>4, <2>1, <2>3 DEF Frame
  <2>5. ~filled => FrameOK("nthread", call[c], f, ring)
    <3> SUFFICES ASSUME ~filled PROVE FrameOK("nthread", call[c], f, ring)
      OBVIOUS
    <3>1. ASSUME call[c].fn = "write_ssid", NEW p \in LiveIn(ring, n), NEW q \in LiveIn(ring, n),
                 p < q, r.next <= p
          PROVE  Count(ring, "ssid", r.next, p) + 2 <= m - 1
      <4>1. p \in Int /\ x <= p /\ p > r.at
        <5>1. p \in Slot
          BY DEF LiveIn, CopiesIn
        <5> QED
          BY <1>7, <1>12, <1>14, <3>1, <5>1, SlotFacts
      <4>2. Count(ring, "ssid", x, p) + 2 <= m
        BY <1>9, <3>1, <4>1
      <4>3. Count(ring, "ssid", x, p) = Count(ring, "ssid", r.next, p) + 1
        BY <1>6, <1>11, <1>14, <3>1, <4>1
      <4>4. Count(ring, "ssid", x, p) \in Nat /\ Count(ring, "ssid", r.next, p) \in Nat
        BY CountIsNat
      <4> QED
        BY <1>3, <4>2, <4>3, <4>4
    <3>2. ASSUME call[c].fn = "read_host"
          PROVE  m - 1 = Count(ring, "host", r.next, Size) /\ m - 1 > 0
      <4>1. Size \in Int /\ Size > r.at
        BY <1>4, SlotFacts
      <4>2. Count(ring, "host", x, Size) = Count(ring, "host", r.next, Size) + 1
        BY <1>6, <1>11, <1>14, <3>2, <4>1
      <4>3. Count(ring, "host", r.next, Size) \in Nat
        BY CountIsNat
      <4> QED
        BY <1>3, <1>10, <2>3, <3>2, <4>2, <4>3
    <3>3. call[c].fn = "write_ssid" => SsidsCounted("nthread", call[c], f, ring)
      BY <2>4, <3>1 DEF SsidsCounted
    <3>4. call[c].fn = "read_host" => HostsCounted("nthread", f, ring)
      BY <2>4, <3>2 DEF HostsCounted
    <3> QED
      BY <1>2, <3>3, <3>4 DEF FrameOK
  <2>6. ~filled /\ c = "irq" /\ MainActive /\ ~Unsettled("nthread", call[c]) =>
           MainBuffer(ring, pagebuff')
    <3>1. ~Unsettled("nthread", call[c]) => Id(c) = "host"
      BY <1>6 DEF Unsettled
    <3> QED
      BY <3>1, <1>13, <1>14, HostHarmless DEF MainBuffer
  <2> QED
    BY <1>1, <1>12, <2>2, <2>4, <2>5, <2>6, FreeLabels, QuietStep
<1>15. CASE r.ok /\ ~Skips(m)
  <2>1. AfterLatest(c, TRUE)
    BY <1>15 DEF NthRead
  <2>2. m <= 1
    BY <1>3, <1>15 DEF Skips
  <2>3. CASE call[c].fn # "read_host"
    <3>1. Goto(c, "compare", NoFrame) /\ "compare" \in Labels(call[c].fn)
      BY <1>2, <2>1, <2>3, AfterLatestGoes DEF Labels
    <3>2. ~filled => BufferOK("compare", call[c], NoFrame, ring, pagebuff')
      <4> SUFFICES ASSUME ~filled, call[c].fn = "write_ssid"
                   PROVE  Harmless(ring, n, pagebuff')
        BY DEF BufferOK
      <4>1. n \in Name
        BY <1>12, CallFacts DEF Inv
      <4>2. ASSUME NEW i \in LiveIn(ring, n), NEW j \in LiveIn(ring, n), i < j, i = r.at
            PROVE  FALSE
        <5>1. Count(ring, "ssid", x, i) + 2 <= m
          BY <1>7, <1>9, <1>15, <4>2
        <5>2. Count(ring, "ssid", x, i) \in Nat
          BY CountIsNat
        <5> QED
          BY <1>3, <2>2, <5>1, <5>2
      <4>3. IsMine(ring, r.at, "ssid") /\ pagebuff' = ring[r.at]
        BY <1>1, <1>6, <1>7, <1>15
      <4> QED
        BY <1>4, <1>5, <4>1, <4>2, <4>3, LatestHarmless
    <3>3. ~filled /\ c = "irq" /\ MainActive /\ ~Unsettled("compare", call[c]) =>
             MainBuffer(ring, pagebuff')
      <4>1. ~Unsettled("compare", call[c]) => Id(c) = "host"
        BY <1>6 DEF Unsettled
      <4> QED
        BY <4>1, <1>13, <1>15, HostHarmless DEF MainBuffer
    <3> QED
      BY <1>1, <1>12, <3>1, <3>2, <3>3, FreeLabels, NoFrameIsFrame, QuietStep
  <2>4. CASE call[c].fn = "read_host"
    <3>1. Goto(c, "copy", NoFrame) /\ "copy" \in Labels(call[c].fn)
      BY <2>1, <2>4, AfterLatestGoes DEF Labels
    <3>2. ~filled => BufferOK("copy", call[c], NoFrame, ring, pagebuff')
      <4> SUFFICES ASSUME ~filled
                   PROVE  IsLast(HostsIn(ring), r.at) /\ pagebuff' = ring[r.at]
        BY <1>4 DEF BufferOK
      <4>1. r.at \in HostsIn(ring)
        BY <1>4, <1>6, <1>7, <1>15, <2>4 DEF IsMine, HostsIn
      <4>2. Count(ring, "host", r.next, Size) = 0
        <5>1. Size \in Int /\ Size > r.at
          BY <1>4, SlotFacts
        <5>2. Count(ring, "host", x, Size) = Count(ring, "host", r.next, Size) + 1
          BY <1>6, <1>11, <1>15, <2>4, <5>1
        <5>3. Count(ring, "host", r.next, Size) \in Nat
          BY CountIsNat
        <5> QED
          BY <1>3, <1>10, <2>2, <2>4, <5>2, <5>3
      <4>3. ASSUME NEW j \in HostsIn(ring) PROVE j <= r.at
        <5>1. j \in Slot /\ IsMine(ring, j, "host")
          BY <1>5 DEF HostsIn, Sound, IsMine
        <5>2. ~(r.next <= j)
          BY <4>2, <5>1, CountZero
        <5> QED
          BY <1>7, <1>12, <1>15, <5>1, <5>2, SlotFacts
      <4> QED
        BY <1>1, <1>15, <4>1, <4>3 DEF IsLast
    <3>3. ~filled /\ c = "irq" /\ MainActive => MainBuffer(ring, pagebuff')
      BY <1>6, <1>13, <1>15, <2>4, HostHarmless DEF MainBuffer
    <3> QED
      BY <1>1, <1>12, <3>1, <3>2, <3>3, FreeLabels, NoFrameIsFrame, QuietStep
  <2> QED
    BY <2>3, <2>4
<1>16. CASE ~r.ok
  <2>1. AfterLatest(c, FALSE) /\ pagebuff' = pagebuff
    <3>1. r.ok = FALSE
      BY <1>4, <1>16
    <3> QED
      BY <1>1, <3>1 DEF NthRead
  <2>2. ~(~filled /\ call[c].fn = "read_host")
    <3> SUFFICES ASSUME ~filled, call[c].fn = "read_host" PROVE FALSE
      OBVIOUS
    <3>1. Count(ring, "host", x, Size) = 0
      BY <1>3, <1>6, <1>8, <1>16, CountRest
    <3> QED
      BY <1>10, <3>1
  <2> QED
    BY <1>1, <2>1, <2>2, NotRead
<1> QED
  BY <1>4, <1>14, <1>15, <1>16

LEMMA CopyHostnameKeeps ==
    ASSUME Inv, NEW c \in Ctx, CopyHostname(c)
    PROVE  Inv'
<1> DEFINE f == [found |-> TRUE, value |-> pagebuff.name]
<1>1. /\ CanRun(c) /\ pc[c] = "copy" /\ pagebuff' = pagebuff /\ pc[c] # "idle"
      /\ UNCHANGED <<ring, oldest, call, filled>> /\ Goto(c, "done", f)
  BY DEF CopyHostname, Here, Return
<1>2. call[c].fn = "read_host" /\ "done" \in Labels(call[c].fn)
  BY <1>1, LabelFacts DEF Inv, Control, Labels
<1>3. ~filled => \E p \in Slot : IsLast(HostsIn(ring), p) /\ pagebuff = ring[p]
  BY <1>1, OwnFacts DEF BufferOK
<1>4. f.found = TRUE /\ f.value = pagebuff.name
  OBVIOUS
<1> HIDE DEF f
<1>5. ~filled => FrameOK("done", call[c], f, ring)
  BY <1>2, <1>3, <1>4 DEF FrameOK, HostsCounted
<1>6. ~filled /\ c = "irq" /\ MainActive => MainBuffer(ring, pagebuff')
  BY <1>1, <1>2, OwnFacts DEF Unsettled
<1> QED
  BY <1>1, <1>2, <1>5, <1>6, FreeLabels, QuietStep

LEMMA OtherNames ==
    ASSUME Inv, OtherSsids, pc["irq"] # "idle", MainActive,
           call["irq"].fn \in {"write_ssid", "write_host", "find"}
    PROVE  call["main"].name # call["irq"].name
<1>1. call["main"] \in MainCalls /\ call["irq"] \in IrqCalls
  BY DEF Inv, Control, MainActive, Ctx, CallsOf
<1> QED
  BY <1>1 DEF OtherSsids, MainActive

LEMMA CompareKeeps ==
    ASSUME Inv, OtherSsids, NEW c \in Ctx, Compare(c)
    PROVE  Inv'
<1>1. /\ CanRun(c) /\ pc[c] = "compare" /\ pagebuff' = pagebuff /\ pc[c] # "idle"
      /\ UNCHANGED <<ring, oldest, call, filled>>
  BY DEF Compare, Here
<1>2. call[c].fn \in {"write_ssid", "write_host"}
  BY <1>1, LabelFacts DEF Inv, Control
<1>3. "done" \in Labels(call[c].fn) /\ "append" \in Labels(call[c].fn)
  BY <1>2 DEF Labels
<1>4. CASE Duplicate(c)
  <2> DEFINE f == [found |-> FALSE, value |-> NoPassword]
  <2>1. Goto(c, "done", f) /\ f.found = FALSE
    BY <1>4 DEF Compare, Return
  <2> HIDE DEF f
  <2>2. pagebuff = NewRecord(c)
    BY <1>4 DEF Duplicate
  <2>3. pagebuff.name = call[c].name /\ pagebuff.pw = call[c].pw
    BY <2>2 DEF NewRecord
  <2>4. call[c].fn = "write_ssid" => pagebuff.id = "ssid"
    BY <2>2 DEF NewRecord, Id
  <2>5. ~filled /\ call[c].fn = "write_ssid" => Stored(ring, call[c])
    BY <1>1, <2>3, <2>4, OwnFacts DEF BufferOK, Harmless, Stored
  <2>6. ~filled => FrameOK("done", call[c], f, ring)
    BY <1>2, <2>1, <2>5 DEF FrameOK, SsidsCounted
  <2>7. ~filled /\ c = "irq" /\ MainActive => MainBuffer(ring, pagebuff')
    BY <1>1, <1>2, <2>3, OtherNames DEF MainBuffer, Harmless
  <2> QED
    BY <1>1, <1>3, <2>1, <2>6, <2>7, FreeLabels, QuietStep
<1>5. CASE ~Duplicate(c)
  <2>1. Goto(c, "append", NoFrame)
    BY <1>5 DEF Compare
  <2>2. ~filled /\ c = "irq" /\ MainActive /\ ~Unsettled("append", call[c]) =>
           MainBuffer(ring, pagebuff')
    BY <1>1, OwnFacts DEF Unsettled
  <2> QED
    BY <1>1, <1>3, <2>1, <2>2, FreeLabels, NoFrameIsFrame, QuietStep
<1> QED
  BY <1>4, <1>5

\* The blank slots of a log.
LEMMA LogBlanks ==
    ASSUME Rewound = 0, NEW t, IsLog(ring, t)
    PROVE  ~Full /\ Tail = t /\ Cardinality(Blanks) = Size - t
<1>1. t \in Slot /\ t \in Int /\ Size \in Int /\ t < Size
  BY SlotFacts DEF IsLog, Slot
<1>2. \A d \in 0 .. Size - 1 : At(0, d) = d
  <2> SUFFICES ASSUME NEW d \in 0 .. Size - 1 PROVE At(0, d) = d
    OBVIOUS
  <2>1. d \in Nat /\ 0 + d < Size /\ 0 \in Slot /\ 0 + d = d
    BY SlotFacts
  <2> QED
    BY <2>1, Geometry
<1>3. Blanks = t .. Size - 1
  BY <1>1, <1>2 DEF Blanks, IsLog, Slot
<1>4. Min(Blanks) = t
  <2>1. t .. Size - 1 \subseteq Nat /\ t .. Size - 1 # {} /\ t \in t .. Size - 1
    BY <1>1 DEF Slot
  <2>2. Min(t .. Size - 1) \in t .. Size - 1 /\ Min(t .. Size - 1) <= t
    BY <2>1, MinIsLeast
  <2>3. Min(t .. Size - 1) = t
    BY <1>1, <2>2
  <2> QED
    BY <1>3, <2>3
<1>5. Tail = t
  BY <1>1, <1>2, <1>4 DEF Tail, Slot
<1>6. Cardinality(t .. Size - 1) = Size - t
  <2>1. Size - 1 \in Int /\ ~(t > Size - 1) /\ (Size - 1) - t + 1 = Size - t
    BY <1>1
  <2> QED
    BY <1>1, <2>1, FS_Interval
<1> QED
  BY <1>1, <1>3, <1>5, <1>6 DEF Full

LEMMA EraseOldestKeeps ==
    ASSUME Inv, NEW c \in Ctx, EraseOldest(c)
    PROVE  Inv'
<1>1. /\ CanRun(c) /\ pc[c] = "append" /\ pc[c] # "idle" /\ Full
      /\ UNCHANGED <<pagebuff, call, filled>> /\ oldest' = (oldest + 1) % N
      /\ Goto(c, "write", NoFrame)
  BY DEF EraseOldest, Here
<1>2. filled
  BY <1>1, OwnFacts, LogBlanks DEF Sound
<1>3. filled'
  BY <1>1, <1>2
<1>4. Moves(c, "write", call[c], NoFrame)
  BY <1>1, GotoMoves DEF Inv
<1>5. "write" \in Labels(call[c].fn)
  <2>1. call[c].fn \in {"write_ssid", "write_host"}
    BY <1>1, LabelFacts DEF Inv, Control
  <2> QED
    BY <2>1 DEF Labels
<1>6. Typed(c, "write", call[c], NoFrame)
  BY <1>1, <1>5, NoFrameIsFrame DEF Typed, Inv, Control
<1>7. oldest' \in 0 .. N - 1
  BY <1>1, RingAssumption DEF Inv, Control
<1> QED
  BY <1>1, <1>3, <1>4, <1>6, <1>7, Assemble

\* Behind a callback that changes the ring, and forgets the page buffer.
LEMMA MainBehind ==
    ASSUME Inv, ~filled, MainActive, Apart(ring, ring', call["main"].name)
    PROVE  FrameOK(pc["main"], call["main"], fr["main"], ring')
<1>1. /\ Sound(ring) /\ FrameOK(pc["main"], call["main"], fr["main"], ring)
      /\ pc["main"] # "done" => fr["main"] \in Frame
  BY DEF Inv, RingInv, Control, MainActive, Ctx
<1> QED
  BY <1>1, ApartKeeps DEF MainActive

LEMMA OtherHarmless ==
    ASSUME NEW R, NEW b, b = Other
    PROVE  MainBuffer(R, b)
  BY DEF Other, MainBuffer, Harmless

LEMMA WriteRecordKeeps ==
    ASSUME Inv, OtherSsids, NEW c \in Ctx, WriteRecord(c)
    PROVE  Inv'
<1>1. /\ CanRun(c) /\ pc[c] \in {"append", "write"} /\ pc[c] # "idle"
      /\ ring' = [ring EXCEPT ![Tail] = NewRecord(c)]
      /\ (filled' <=> (filled \/ Cardinality(Blanks) = 1))
      /\ pagebuff' = Other /\ Goto(c, "redundant", NoFrame) /\ UNCHANGED <<oldest, call>>
  BY DEF WriteRecord, Here, AfterWrite
<1>2. call[c].fn \in {"write_ssid", "write_host"}
  BY <1>1, LabelFacts DEF Inv, Control
<1>3. call[c].name \in Name /\ call[c].pw \in Password \cup {NoPassword}
  BY <1>1, <1>2, CallFacts DEF Inv
<1>4. PICK x : x = NewRecord(c)
  OBVIOUS
<1>5. /\ x \in Rec /\ x.live /\ x.name = call[c].name /\ x.pw = call[c].pw
      /\ x.id = "ssid" <=> call[c].fn = "write_ssid"
  BY <1>3, <1>4 DEF NewRecord, Rec, Id
<1>6. Moves(c, "redundant", call[c], NoFrame)
  BY <1>1, GotoMoves DEF Inv
<1>7. Typed(c, "redundant", call[c], NoFrame)
  <2>1. "redundant" \in Labels(call[c].fn)
    BY <1>2 DEF Labels
  <2> QED
    BY <1>1, <2>1, NoFrameIsFrame DEF Typed, Inv, Control
<1>8. oldest' \in 0 .. N - 1
  BY <1>1 DEF Inv, Control
<1>9. CASE filled'
  BY <1>1, <1>6, <1>7, <1>8, <1>9, Assemble
<1>10. CASE ~filled'
  <2>1. ~filled /\ Cardinality(Blanks) # 1
    BY <1>1, <1>10
  <2>2. oldest = 0 /\ Rewound = 0 /\ Sound(ring)
    BY <1>1, <2>1, OwnFacts
  <2>3. PICK t \in Slot : IsLog(ring, t)
    BY <2>2 DEF Sound
  <2>4. Tail = t /\ Cardinality(Blanks) = Size - t
    BY <2>2, <2>3, LogBlanks
  <2>5. t + 1 < Size
    BY <2>1, <2>3, <2>4, SlotFacts
  <2>6. ring \in [Slot -> Rec \cup {Blank}]
    BY <2>2 DEF Sound
  <2>7. Wrote(ring, ring', t, x)
    BY <1>1, <1>4, <1>5, <2>3, <2>4, <2>6 DEF Wrote
  <2>8. /\ Sound(ring')
        /\ \A n : ~(x.id = "ssid" /\ x.name = n) => Apart(ring, ring', n)
        /\ x.id = "ssid" => IsLast(CopiesIn(ring', x.name), t)
    BY <1>5, <2>2, <2>3, <2>5, <2>7, WriteSound
  <2>9. call[c].fn = "write_ssid" => Stored(ring', call[c])
    <3> SUFFICES ASSUME call[c].fn = "write_ssid", NEW p \in Slot,
                        IsLast(CopiesIn(ring', call[c].name), p)
                 PROVE  ring'[p].pw = call[c].pw
      BY DEF Stored
    <3>1. IsLast(CopiesIn(ring', call[c].name), t) /\ CopiesIn(ring', call[c].name) \subseteq Slot
      BY <1>5, <2>8 DEF CopiesIn
    <3>2. p = t
      BY <3>1, LastIsOne
    <3> QED
      BY <1>5, <2>7, <3>2 DEF Wrote
  <2>10. OwnOK("redundant", call[c], NoFrame, ring', pagebuff')
    <3>1. SsidsCounted("redundant", call[c], NoFrame, ring')
      BY DEF SsidsCounted
    <3> QED
      BY <1>2, <2>9, <3>1, FreeLabels DEF OwnOK, FrameOK
  <2>11. c = "irq" /\ MainActive => FrameOK(pc["main"], call["main"], fr["main"], ring')
    <3> SUFFICES ASSUME c = "irq", MainActive
                 PROVE  Apart(ring, ring', call["main"].name)
      BY <2>1, MainBehind
    <3>1. call["main"].name # call["irq"].name
      BY <1>1, <1>2, OtherNames
    <3> QED
      BY <1>5, <2>8, <3>1
  <2> QED
    BY <1>1, <1>6, <1>7, <1>8, <2>2, <2>8, <2>10, <2>11, OtherHarmless, Assemble
<1> QED
  BY <1>9, <1>10

LEMMA RedundantKeeps ==
    ASSUME Inv, NEW c \in Ctx, flash_io_erase_redundant_ssids(c)
    PROVE  Inv'
<1>1. /\ CanRun(c) /\ pc[c] = "redundant" /\ pc[c] # "idle" /\ pagebuff' = pagebuff
      /\ UNCHANGED <<ring, oldest, call, filled>>
  BY DEF flash_io_erase_redundant_ssids, Here
<1>2. call[c].fn \in {"write_ssid", "write_host", "find"}
  BY <1>1, LabelFacts DEF Inv, Control
<1>3. PICK f : f = [NoFrame EXCEPT !.next = Rewound]
  OBVIOUS
<1>4. Goto(c, "find1", f) /\ "find1" \in Labels(call[c].fn)
  BY <1>2, <1>3 DEF flash_io_erase_redundant_ssids, Labels
<1>5. f \in Frame /\ f.next = Rewound
  BY <1>3, RewoundIsSlot, NoFrameIsFrame DEF Inv, Frame, NoFrame
<1>6. ~filled => Rewound = 0 /\ FrameOK("redundant", call[c], fr[c], ring)
  BY <1>1, OwnFacts
<1>7. ~filled => FromOn(ring, call[c].name, f.next)
  BY <1>5, <1>6, SlotFacts DEF FromOn, LiveIn, CopiesIn
<1>8. ~filled => FrameOK("find1", call[c], f, ring)
  BY <1>6, <1>7, <1>2 DEF FrameOK, SsidsCounted, Redundant, Searched
<1>9. ~filled /\ c = "irq" /\ MainActive => MainBuffer(ring, pagebuff')
  BY <1>1, OwnFacts DEF Unsettled
<1> QED
  BY <1>1, <1>4, <1>5, <1>8, <1>9, FreeLabels, QuietStep

\* The redundant copies are gone.
LEMMA AfterRedundantKeeps ==
    ASSUME Inv, NEW c \in Ctx, CanRun(c), pc[c] \in {"find1", "find2"}, AfterRedundant(c),
           UNCHANGED <<ring, oldest, call, filled>>, pagebuff' = Other,
           ~filled => Alone(ring, call[c].name)
    PROVE  Inv'
<1>1. pc[c] # "idle" /\ call[c].fn \in {"write_ssid", "write_host", "find"}
  BY LabelFacts DEF Inv, Control
<1>2. MainBuffer(ring, pagebuff')
  BY OtherHarmless
<1>3. CASE call[c].fn = "find"
  <2>1. Goto(c, "match", NoFrame) /\ "match" \in Labels(call[c].fn)
    BY <1>3 DEF AfterRedundant, Labels
  <2>2. ~filled => FrameOK("match", call[c], NoFrame, ring)
    BY <1>3 DEF FrameOK, Searched
  <2> QED
    BY <1>1, <1>2, <2>1, <2>2, FreeLabels, NoFrameIsFrame, QuietStep
<1>4. CASE call[c].fn # "find"
  <2> DEFINE f == [found |-> TRUE, value |-> NoPassword]
  <2>1. Goto(c, "done", f) /\ "done" \in Labels(call[c].fn)
    BY <1>1, <1>4 DEF AfterRedundant, Return, Labels
  <2> HIDE DEF f
  <2>2. ~filled /\ call[c].fn = "write_ssid" => Stored(ring, call[c])
    BY <1>1, OwnFacts DEF FrameOK
  <2>3. ~filled => FrameOK("done", call[c], f, ring)
    BY <1>1, <1>4, <2>2 DEF FrameOK, SsidsCounted
  <2> QED
    BY <1>1, <1>2, <2>1, <2>3, FreeLabels, QuietStep
<1> QED
  BY <1>3, <1>4

\* A live copy, as rb_find takes it.
LEMMA HitIsLive ==
    ASSUME NEW n
    PROVE  \A p \in Slot : Hit(p, "ssid", {n}) <=> p \in LiveIn(ring, n)
  BY DEF Hit, Mine, LiveIn, CopiesIn

LEMMA FindCopyKeeps ==
    ASSUME Inv, NEW c \in Ctx, FindCopy(c)
    PROVE  Inv'
<1> DEFINE n == call[c].name
           r == RbFind(fr[c].next, "ssid", {n})
           x == fr[c].next
           L == LiveIn(ring, n)
<1>1. /\ CanRun(c) /\ pc[c] \in {"find1", "find2"} /\ pc[c] # "idle"
      /\ FindEnds(x, "ssid", {n}) /\ pagebuff' = Other
      /\ UNCHANGED <<ring, oldest, call, filled>>
  BY DEF FindCopy, Here
<1>2. call[c].fn \in {"write_ssid", "write_host", "find"}
  BY <1>1, LabelFacts DEF Inv, Control
<1>3. fr[c] \in Frame /\ x \in Slot /\ fr[c].first \in Slot
  BY <1>1 DEF Inv, Control, Frame
<1>4. r.next \in Slot /\ r.at \in Slot /\ r.ok \in BOOLEAN
  BY <1>1, <1>3, FindStays
<1>5. ~filled => Sound(ring) /\ FrameOK(pc[c], call[c], fr[c], ring)
  BY <1>1, OwnFacts
<1>6. ~filled => Redundant(pc[c], n, fr[c], ring)
  BY <1>1, <1>5 DEF FrameOK
<1>7. /\ ~filled /\ r.ok => /\ x <= r.at /\ r.next = r.at + 1 /\ r.at \in L
                            /\ \A j \in L : ~(x <= j /\ j < r.at)
      /\ ~filled /\ ~r.ok => \A j \in L : ~(x <= j)
  <2> SUFFICES ASSUME ~filled
               PROVE  /\ r.ok => /\ x <= r.at /\ r.next = r.at + 1 /\ r.at \in L
                                 /\ \A j \in L : ~(x <= j /\ j < r.at)
                      /\ ~r.ok => \A j \in L : ~(x <= j)
    OBVIOUS
  <2>1. PICK t \in Slot : IsLog(ring, t)
    BY <1>5 DEF Sound
  <2>2. /\ r.ok => /\ r.at \in x .. t - 1 /\ r.next = r.at + 1 /\ Hit(r.at, "ssid", {n})
                   /\ \A j \in Slot : x <= j /\ j < r.at => ~Hit(j, "ssid", {n})
        /\ ~r.ok => \A j \in Slot : x <= j => ~Hit(j, "ssid", {n})
    BY <1>3, <2>1, FindFinds
  <2>3. L \subseteq Slot
    BY DEF LiveIn, CopiesIn
  <2>4. r.ok => x <= r.at
    BY <2>2, <1>3, <1>4, SlotFacts
  <2> QED
    BY <1>4, <2>2, <2>3, <2>4, HitIsLive
<1>8. ~filled /\ call[c].fn = "write_ssid" => Stored(ring, call[c])
  BY <1>1, <1>5 DEF FrameOK
<1>9. L \subseteq Slot /\ L \subseteq CopiesIn(ring, n) /\ L \subseteq Int
      /\ r.at \in Int /\ x \in Int /\ fr[c].first \in Int
  BY <1>3, <1>4, SlotFacts DEF LiveIn, CopiesIn
<1>10. MainBuffer(ring, pagebuff')
  BY <1>1, OtherHarmless
<1>11. CASE r.ok /\ pc[c] = "find1"
  <2>1. PICK f : f = [fr[c] EXCEPT !.next = r.next, !.first = r.at]
    OBVIOUS
  <2>2. Goto(c, "find2", f) /\ "find2" \in Labels(call[c].fn)
    BY <1>2, <1>11, <2>1 DEF FindCopy, Labels
  <2>3. f \in Frame /\ f.next = r.next /\ f.first = r.at
    BY <1>3, <1>4, <2>1 DEF Frame
  <2>4. ~filled => FromOn(ring, n, x)
    BY <1>6, <1>11 DEF Redundant
  <2>5. ~filled => r.at \in L /\ FromOn(ring, n, r.at) /\ r.next = r.at + 1
    <3> SUFFICES ASSUME ~filled, NEW j \in L PROVE r.at <= j
      BY <1>7, <1>11 DEF FromOn
    <3>1. x <= j /\ ~(x <= j /\ j < r.at) /\ j \in Int
      BY <1>7, <1>9, <1>11, <2>4 DEF FromOn
    <3> QED
      BY <1>9, <3>1
  <2>6. ~filled => Redundant("find2", n, f, ring)
    BY <2>3, <2>5 DEF Redundant
  <2>7. ~filled => FrameOK("find2", call[c], f, ring)
    BY <1>2, <1>8, <2>6 DEF FrameOK, SsidsCounted, Searched
  <2> QED
    BY <1>1, <1>10, <2>2, <2>3, <2>7, FreeLabels, QuietStep
<1>12. CASE r.ok /\ pc[c] = "find2"
  <2>1. PICK f : f = [fr[c] EXCEPT !.next = fr[c].first]
    OBVIOUS
  <2>2. Goto(c, "delete", f) /\ "delete" \in Labels(call[c].fn)
    BY <1>2, <1>12, <2>1 DEF FindCopy, Labels
  <2>3. f \in Frame /\ f.first = fr[c].first
    BY <1>3, <2>1 DEF Frame
  <2>4. ~filled => /\ CopiesIn(ring, n) # {} /\ fr[c].first \in L
                   /\ FromOn(ring, n, fr[c].first) /\ x = fr[c].first + 1
    BY <1>6, <1>7, <1>9, <1>12 DEF Redundant
  <2>5. ~filled => r.at \in L /\ fr[c].first < r.at
    BY <1>7, <1>9, <1>12, <2>4
  <2>6. ~filled => Redundant("delete", n, f, ring)
    BY <2>3, <2>4, <2>5 DEF Redundant
  <2>7. ~filled => FrameOK("delete", call[c], f, ring)
    BY <1>2, <1>8, <2>6 DEF FrameOK, SsidsCounted, Searched
  <2> QED
    BY <1>1, <1>10, <2>2, <2>3, <2>7, FreeLabels, QuietStep
<1>13. CASE ~r.ok
  <2>1. AfterRedundant(c)
    BY <1>13 DEF FindCopy
  <2>2. ~filled => Alone(ring, n)
    <3> SUFFICES ASSUME ~filled PROVE Alone(ring, n)
      OBVIOUS
    <3>1. CASE pc[c] = "find1"
      <4>1. L = {}
        BY <1>6, <1>7, <1>13, <3>1 DEF Redundant, FromOn
      <4> QED
        BY <4>1 DEF Alone
    <3>2. CASE pc[c] = "find2"
      <4>1. CASE CopiesIn(ring, n) = {}
        BY <1>9, <4>1 DEF Alone
      <4>2. CASE CopiesIn(ring, n) # {}
        <5>1. FromOn(ring, n, fr[c].first) /\ x = fr[c].first + 1
          BY <1>6, <3>2, <4>2 DEF Redundant
        <5>2. \A j \in L : j = fr[c].first
          BY <1>7, <1>9, <1>13, <5>1 DEF FromOn
        <5> QED
          BY <5>2 DEF Alone
      <4> QED
        BY <4>1, <4>2
    <3> QED
      BY <1>1, <3>1, <3>2
  <2> QED
    BY <1>1, <2>1, <2>2, AfterRedundantKeeps
<1> QED
  BY <1>1, <1>4, <1>11, <1>12, <1>13

LEMMA DeleteFirstKeeps ==
    ASSUME Inv, OtherSsids, NEW c \in Ctx, DeleteFirst(c)
    PROVE  Inv'
<1> DEFINE n == call[c].name
           L == LiveIn(ring, n)
<1>1. /\ CanRun(c) /\ pc[c] = "delete" /\ pc[c] # "idle" /\ pagebuff' = Other
      /\ ring' = Deleted(n) /\ UNCHANGED <<oldest, call, filled>>
      /\ RecreateOk => FindEnds(Rewound, "ssid", {n})
  BY DEF DeleteFirst, Here
<1>2. call[c].fn \in {"write_ssid", "write_host", "find"}
  BY <1>1, LabelFacts DEF Inv, Control
<1>3. fr[c] \in Frame /\ fr[c].first \in Slot
  BY <1>1 DEF Inv, Control, Frame
<1>4. PICK f : f = [fr[c] EXCEPT !.next = IF RecreateOk THEN fr[c].first ELSE Rewound]
  OBVIOUS
<1>5. Goto(c, "find1", f) /\ "find1" \in Labels(call[c].fn)
  BY <1>2, <1>4 DEF DeleteFirst, Labels
<1>6. f \in Frame /\ f.next = IF RecreateOk THEN fr[c].first ELSE Rewound
  BY <1>3, <1>4, RewoundIsSlot DEF Inv, Frame
<1>7. Moves(c, "find1", call[c], f) /\ Typed(c, "find1", call[c], f)
  BY <1>1, <1>5, <1>6, GotoMoves DEF Inv, Typed, Control
<1>8. oldest' \in 0 .. N - 1
  BY <1>1 DEF Inv, Control
<1>9. CASE filled
  BY <1>1, <1>7, <1>8, <1>9, Assemble
<1>10. CASE ~filled
  <2> DEFINE r == RbFind(Rewound, "ssid", {n})
  <2>1. oldest = 0 /\ Rewound = 0 /\ Sound(ring) /\ FrameOK("delete", call[c], fr[c], ring)
    BY <1>1, <1>10, OwnFacts
  <2>2. Redundant("delete", n, fr[c], ring) /\ (call[c].fn = "write_ssid" => Stored(ring, call[c]))
    BY <2>1 DEF FrameOK
  <2>3. L \subseteq Slot /\ L \subseteq CopiesIn(ring, n) /\ \A i \in Slot : i \in Int /\ 0 <= i
    BY SlotFacts DEF LiveIn, CopiesIn
  <2>4. PICK t \in Slot : IsLog(ring, t)
    BY <2>1 DEF Sound
  <2>5. /\ r.ok \in BOOLEAN
        /\ r.ok => r.at \in 0 .. t - 1 /\ Hit(r.at, "ssid", {n})
                   /\ \A j \in Slot : 0 <= j /\ j < r.at => ~Hit(j, "ssid", {n})
        /\ ~r.ok => \A j \in Slot : 0 <= j => ~Hit(j, "ssid", {n})
    <3>1. 0 \in Slot
      BY SlotFacts
    <3> QED
      BY <2>1, <2>4, <3>1, FindFinds
  <2>6. CASE RecreateOk /\ r.ok
    <3>1. r.at \in L /\ \A j \in L : r.at <= j
      <4>1. r.at \in Slot
        BY <2>4, <2>5, <2>6, SlotFacts DEF Slot
      <4>2. r.at \in L /\ \A j \in L : ~(j < r.at)
        BY <2>3, <2>5, <2>6, <4>1, HitIsLive
      <4> QED
        BY <2>3, <4>1, <4>2
    <3>2. PICK p \in L : p = r.at
      BY <3>1
    <3>3. CopiesIn(ring, n) # {}
      BY <2>3, <3>1
    <3>4. /\ FromOn(ring, n, fr[c].first) /\ fr[c].first \in L
          /\ \E q \in L : fr[c].first < q
      BY <2>2, <3>3 DEF Redundant
    <3>5. PICK q \in L : p < q
      BY <1>3, <2>3, <3>1, <3>2, <3>4
    <3>6. ring' = [ring EXCEPT ![p].live = FALSE]
      BY <1>1, <2>6, <3>2 DEF Deleted
    <3>7. ring \in [Slot -> Rec \cup {Blank}] /\ p \in Slot /\ ring[p] # Blank /\ ring[p] \in Rec
      BY <2>1, <2>3 DEF Sound, LiveIn, CopiesIn
    <3>8. PICK rec : rec = [ring[p] EXCEPT !.live = FALSE]
      OBVIOUS
    <3>9. /\ rec \in Rec /\ rec.id = ring[p].id /\ rec.name = ring[p].name
          /\ rec.pw = ring[p].pw /\ ~rec.live
      BY <3>7, <3>8 DEF Rec
    <3>10. ring' = [ring EXCEPT ![p] = rec]
      BY <3>6, <3>8
    <3>11. Killed(ring, ring', p)
      BY <3>7, <3>9, <3>10, BlankIsNoRecord DEF Killed
    <3>12. /\ Sound(ring')
           /\ \A m : m # n => Apart(ring, ring', m)
           /\ \A m : CopiesIn(ring', m) = CopiesIn(ring, m)
           /\ LiveIn(ring', n) = L \ {p}
           /\ \A i \in Slot : ring'[i].pw = ring[i].pw
      <4>1. PICK nn : nn = n
        OBVIOUS
      <4>2. p \in LiveIn(ring, nn) /\ q \in LiveIn(ring, nn) /\ Sound(ring)
        BY <2>1, <4>1
      <4>3. /\ Sound(ring')
            /\ \A m : m # nn => Apart(ring, ring', m)
            /\ \A m : CopiesIn(ring', m) = CopiesIn(ring, m)
            /\ LiveIn(ring', nn) = LiveIn(ring, nn) \ {p}
            /\ \A i \in Slot : ring'[i].pw = ring[i].pw
        BY ONLY <3>5, <3>11, <4>2, KillSound
      <4> QED
        BY <4>1, <4>3
    <3>13. FromOn(ring', n, f.next)
      BY <1>6, <2>6, <3>4, <3>12 DEF FromOn
    <3>14. call[c].fn = "write_ssid" => Stored(ring', call[c])
      BY <2>2, <3>12 DEF Stored
    <3>15. FrameOK("find1", call[c], f, ring')
      BY <1>2, <3>13, <3>14 DEF FrameOK, SsidsCounted, Redundant, Searched
    <3>16. c = "irq" /\ MainActive => FrameOK(pc["main"], call["main"], fr["main"], ring')
      <4> SUFFICES ASSUME c = "irq", MainActive
                   PROVE  Apart(ring, ring', call["main"].name)
        BY <1>10, MainBehind
      <4>1. call["main"].name # n
        BY <1>1, <1>2, OtherNames
      <4> QED
        BY <3>12, <4>1
    <3> QED
      BY <1>1, <1>7, <1>8, <2>1, <3>12, <3>15, <3>16, FreeLabels, OtherHarmless, Assemble DEF OwnOK
  <2>7. CASE ~(RecreateOk /\ r.ok)
    <3>1. ring' = ring
      BY <1>1, <2>7 DEF Deleted
    <3>2. L = {}
      <4>1. CASE ~RecreateOk
        BY <2>1, <2>3, <4>1, BlankRing DEF RecreateOk
      <4>2. CASE ~r.ok
        BY <2>3, <2>5, <4>2, HitIsLive
      <4> QED
        BY <2>7, <4>1, <4>2
    <3>3. FrameOK("find1", call[c], f, ring)
      BY <1>2, <2>2, <3>2 DEF FrameOK, SsidsCounted, Redundant, Searched, FromOn
    <3>4. MainBuffer(ring, pagebuff')
      BY <1>1, OtherHarmless
    <3> QED
      BY <1>1, <1>5, <1>6, <3>1, <3>3, <3>4, FreeLabels, QuietStep
  <2> QED
    BY <2>6, <2>7
<1> QED
  BY <1>9, <1>10

LEMMA MatchKeeps ==
    ASSUME Inv, NEW c \in Ctx, flash_io_find_matching_ssid(c)
    PROVE  Inv'
<1>1. /\ CanRun(c) /\ pc[c] = "match" /\ pc[c] # "idle" /\ pagebuff' = pagebuff
      /\ UNCHANGED <<ring, oldest, call, filled>>
  BY DEF flash_io_find_matching_ssid, Here
<1>2. call[c].fn = "find"
  BY <1>1, LabelFacts DEF Inv, Control
<1>3. PICK f : f = [NoFrame EXCEPT !.next = Rewound]
  OBVIOUS
<1>4. Goto(c, "search", f) /\ "search" \in Labels(call[c].fn)
  BY <1>2, <1>3 DEF flash_io_find_matching_ssid, Labels
<1>5. f \in Frame /\ f.next = Rewound
  BY <1>3, RewoundIsSlot, NoFrameIsFrame DEF Inv, Frame, NoFrame
<1>6. ~filled => Rewound = 0 /\ FrameOK("match", call[c], fr[c], ring)
  BY <1>1, OwnFacts
<1>7. ~filled => FromOn(ring, call[c].name, f.next)
  BY <1>5, <1>6, SlotFacts DEF FromOn, LiveIn, CopiesIn
<1>8. ~filled => FrameOK("search", call[c], f, ring)
  BY <1>2, <1>6, <1>7 DEF FrameOK, Searched
<1>9. Unsettled("search", call[c])
  BY <1>2 DEF Unsettled
<1> QED
  BY <1>1, <1>4, <1>5, <1>8, <1>9, FreeLabels, QuietStep

LEMMA SearchKeeps ==
    ASSUME Inv, NEW c \in Ctx, Search(c)
    PROVE  Inv'
<1> DEFINE n == call[c].name
           names == {n} \cup Longer[n]
           r == RbFind(fr[c].next, "ssid", names)
           x == fr[c].next
           L == LiveIn(ring, n)
<1>1. /\ CanRun(c) /\ pc[c] = "search" /\ pc[c] # "idle"
      /\ FindEnds(x, "ssid", names) /\ pagebuff' = Other
      /\ UNCHANGED <<ring, oldest, call, filled>>
  BY DEF Search, Here
<1>2. call[c].fn = "find" /\ n \in Name
  BY <1>1, LabelFacts, CallFacts DEF Inv, Control
<1>3. fr[c] \in Frame /\ x \in Slot
  BY <1>1 DEF Inv, Control, Frame
<1>4. r.next \in Slot /\ r.at \in Slot /\ r.ok \in BOOLEAN
  BY <1>1, <1>3, FindStays
<1>5. ~filled => Sound(ring) /\ Alone(ring, n) /\ FromOn(ring, n, x)
  BY <1>1, <1>2, OwnFacts DEF FrameOK, Searched
<1>6. L \subseteq Slot /\ L \subseteq Int /\ r.at \in Int /\ x \in Int
  BY <1>3, <1>4, SlotFacts DEF LiveIn, CopiesIn
<1>7. \A j \in L : Hit(j, "ssid", names)
  BY DEF LiveIn, CopiesIn, Hit, Mine
<1>8. /\ ~filled /\ r.ok => /\ IsMine(ring, r.at, "ssid")
                            /\ \A j \in L : ~(x <= j /\ j < r.at)
      /\ ~filled /\ ~r.ok => \A j \in L : ~(x <= j)
  <2> SUFFICES ASSUME ~filled
               PROVE  /\ r.ok => /\ IsMine(ring, r.at, "ssid")
                                 /\ \A j \in L : ~(x <= j /\ j < r.at)
                      /\ ~r.ok => \A j \in L : ~(x <= j)
    OBVIOUS
  <2>1. PICK t \in Slot : IsLog(ring, t)
    BY <1>5 DEF Sound
  <2>2. /\ r.ok => /\ Hit(r.at, "ssid", names)
                   /\ \A j \in Slot : x <= j /\ j < r.at => ~Hit(j, "ssid", names)
        /\ ~r.ok => \A j \in Slot : x <= j => ~Hit(j, "ssid", names)
    <3> HIDE DEF names
    <3> QED
      BY <1>3, <2>1, FindFinds
  <2>3. r.ok => IsMine(ring, r.at, "ssid")
    BY <2>2, MineIs DEF Hit
  <2> QED
    BY <1>6, <1>7, <2>2, <2>3
<1>9. MainBuffer(ring, pagebuff')
  BY <1>1, OtherHarmless
<1>10. CASE r.ok
  <2>1. PICK f : f = [fr[c] EXCEPT !.next = r.at]
    OBVIOUS
  <2>2. Goto(c, "take", f) /\ "take" \in Labels(call[c].fn)
    BY <1>2, <1>10, <2>1 DEF Search, Labels
  <2>3. f \in Frame /\ f.next = r.at
    BY <1>3, <1>4, <2>1 DEF Frame
  <2>4. ~filled => FromOn(ring, n, r.at)
    <3> SUFFICES ASSUME ~filled, NEW j \in L PROVE r.at <= j
      BY DEF FromOn
    <3>1. x <= j /\ ~(x <= j /\ j < r.at) /\ j \in Int
      BY <1>5, <1>6, <1>8, <1>10 DEF FromOn
    <3> QED
      BY <1>6, <3>1
  <2>5. ~filled => FrameOK("take", call[c], f, ring)
    BY <1>2, <1>5, <1>8, <1>10, <2>3, <2>4 DEF FrameOK, Searched, IsMine
  <2> QED
    BY <1>1, <1>9, <2>2, <2>3, <2>5, FreeLabels, QuietStep
<1>11. CASE ~r.ok
  <2> DEFINE f == [found |-> FALSE, value |-> NoPassword]
  <2>1. Goto(c, "done", f) /\ "done" \in Labels(call[c].fn) /\ f.found = FALSE
    BY <1>2, <1>11 DEF Search, Return, Labels
  <2> HIDE DEF f
  <2>2. ~filled => CopiesIn(ring, n) = {}
    <3> SUFFICES ASSUME ~filled, CopiesIn(ring, n) # {} PROVE FALSE
      OBVIOUS
    <3>1. L # {}
      BY <1>2, <1>5, LastExists
    <3> QED
      BY <1>5, <1>8, <1>11, <3>1 DEF FromOn
  <2>3. ~filled => FrameOK("done", call[c], f, ring)
    BY <1>2, <2>1, <2>2 DEF FrameOK, Searched
  <2> QED
    BY <1>1, <1>9, <2>1, <2>3, FreeLabels, QuietStep
<1> QED
  BY <1>4, <1>10, <1>11

LEMMA TakeKeeps ==
    ASSUME Inv, NEW c \in Ctx, Take(c)
    PROVE  Inv'
<1> DEFINE n == call[c].name
           r == RbRead(fr[c].next, "ssid")
           x == fr[c].next
<1>1. /\ CanRun(c) /\ pc[c] = "take" /\ pc[c] # "idle" /\ pagebuff' = ring[r.at]
      /\ UNCHANGED <<ring, oldest, call, filled>>
  BY DEF Take, Here
<1>2. call[c].fn = "find"
  BY <1>1, LabelFacts DEF Inv, Control
<1>3. fr[c] \in Frame /\ x \in Slot /\ x \in Int
  BY <1>1, SlotFacts DEF Inv, Control, Frame
<1>4. r.next \in Slot /\ r.at \in Slot /\ r.at \in Int
  BY <1>3, ReadStays, SlotFacts
<1>5. ~filled => /\ Sound(ring) /\ Alone(ring, n) /\ FromOn(ring, n, x)
                 /\ IsMine(ring, x, "ssid")
  BY <1>1, <1>2, OwnFacts DEF FrameOK, Searched, IsMine
<1>6. ~filled => r.at = x /\ r.next = x + 1
  <2> SUFFICES ASSUME ~filled PROVE r.at = x /\ r.next = x + 1
    OBVIOUS
  <2>1. PICK t \in Slot : IsLog(ring, t)
    BY <1>5 DEF Sound
  <2>2. Mine(x, "ssid")
    BY <1>5, MineIs
  <2>3. r.ok /\ r.next = r.at + 1 /\ x <= r.at
        /\ \A j \in Slot : x <= j /\ j < r.at => ~Mine(j, "ssid")
    BY <1>3, <2>1, <2>2, ReadFinds
  <2> QED
    BY <1>3, <1>4, <2>2, <2>3
<1>7. PICK f : f = [fr[c] EXCEPT !.next = r.next]
  OBVIOUS
<1>8. Goto(c, "password", f) /\ "password" \in Labels(call[c].fn)
  BY <1>2, <1>7 DEF Take, Labels
<1>9. f \in Frame /\ f.next = r.next
  BY <1>3, <1>4, <1>7 DEF Frame
<1>10. ~filled => FrameOK("password", call[c], f, ring)
  BY <1>2, <1>5 DEF FrameOK, Searched
<1>11. ~filled => BufferOK("password", call[c], f, ring, pagebuff')
  <2> SUFFICES ASSUME ~filled
               PROVE  /\ f.next = x + 1 /\ pagebuff' = ring[x] /\ FromOn(ring, n, x)
                      /\ ring[x] # Blank /\ ring[x].id = "ssid" /\ ring[x].live
    BY <1>3 DEF BufferOK
  <2> QED
    BY <1>1, <1>5, <1>6, <1>9 DEF IsMine
<1>12. Unsettled("password", call[c])
  BY <1>2 DEF Unsettled
<1> QED
  BY <1>1, <1>8, <1>9, <1>10, <1>11, <1>12, QuietStep

LEMMA TakePasswordKeeps ==
    ASSUME Inv, OtherSsids, NEW c \in Ctx, TakePassword(c)
    PROVE  Inv'
<1> DEFINE n == call[c].name
<1>1. /\ CanRun(c) /\ pc[c] = "password" /\ pc[c] # "idle" /\ pagebuff' = pagebuff
      /\ UNCHANGED <<ring, oldest, call, filled>>
  BY DEF TakePassword, Here
<1>2. call[c].fn = "find" /\ n \in Name
  BY <1>1, LabelFacts, CallFacts DEF Inv, Control
<1>3. fr[c] \in Frame
  BY <1>1 DEF Inv, Control, Frame
<1>4. ~filled => Sound(ring) /\ Alone(ring, n)
  BY <1>1, <1>2, OwnFacts DEF FrameOK, Searched
<1>5. ~filled => \E p \in Slot : /\ fr[c].next = p + 1 /\ pagebuff = ring[p] /\ FromOn(ring, n, p)
                                 /\ ring[p] # Blank /\ ring[p].id = "ssid" /\ ring[p].live
  BY <1>1, OwnFacts DEF BufferOK
<1>6. CASE SameLength(c)
  <2> DEFINE f == [found |-> TRUE, value |-> pagebuff.pw]
  <2>1. Goto(c, "done", f) /\ "done" \in Labels(call[c].fn) /\ f.found = TRUE /\ f.value = pagebuff.pw
    BY <1>2, <1>6 DEF TakePassword, Return, Labels
  <2> HIDE DEF f
  <2>2. pagebuff.name = n
    BY <1>6 DEF SameLength
  <2>3. ~filled => \E p \in Slot : IsLast(CopiesIn(ring, n), p) /\ f.value = ring[p].pw
    <3> SUFFICES ASSUME ~filled
                 PROVE  \E p \in Slot : IsLast(CopiesIn(ring, n), p) /\ f.value = ring[p].pw
      OBVIOUS
    <3>1. PICK p \in Slot : /\ pagebuff = ring[p]
                            /\ ring[p] # Blank /\ ring[p].id = "ssid" /\ ring[p].live
      BY <1>5
    <3>2. p \in LiveIn(ring, n)
      BY <2>2, <3>1 DEF LiveIn, CopiesIn
    <3>3. \A q \in LiveIn(ring, n) : q <= p
      BY <1>4, <3>2, SlotFacts DEF Alone
    <3>4. IsLast(CopiesIn(ring, n), p)
      BY <1>2, <1>4, <3>2, <3>3, LiveIsLast
    <3> QED
      BY <2>1, <3>1, <3>4
  <2>4. ~filled => FrameOK("done", call[c], f, ring)
    BY <1>2, <2>1, <2>3 DEF FrameOK, Searched
  <2>5. ~filled /\ c = "irq" /\ MainActive => MainBuffer(ring, pagebuff')
    BY <1>1, <1>2, <2>2, OtherNames DEF MainBuffer, Harmless
  <2> QED
    BY <1>1, <2>1, <2>4, <2>5, FreeLabels, QuietStep
<1>7. CASE ~SameLength(c)
  <2>1. Goto(c, "search", fr[c]) /\ "search" \in Labels(call[c].fn)
    BY <1>2, <1>7 DEF TakePassword, Labels
  <2>2. ~filled => FromOn(ring, n, fr[c].next)
    <3> SUFFICES ASSUME ~filled, NEW q \in LiveIn(ring, n) PROVE fr[c].next <= q
      BY DEF FromOn
    <3>1. PICK p \in Slot : fr[c].next = p + 1 /\ pagebuff = ring[p] /\ FromOn(ring, n, p)
      BY <1>5
    <3>2. q \in Slot /\ ring[q].name = n /\ p <= q
      BY <3>1 DEF FromOn, LiveIn, CopiesIn
    <3>3. q # p
      BY <1>7, <3>1, <3>2 DEF SameLength
    <3>4. q \in Int /\ p \in Int
      BY <3>2, SlotFacts
    <3> QED
      BY <3>1, <3>2, <3>3, <3>4
  <2>3. ~filled => FrameOK("search", call[c], fr[c], ring)
    BY <1>2, <1>4, <2>2 DEF FrameOK, Searched
  <2>4. Unsettled("search", call[c])
    BY <1>2 DEF Unsettled
  <2> QED
    BY <1>1, <1>3, <2>1, <2>3, <2>4, FreeLabels, QuietStep
<1> QED
  BY <1>6, <1>7

LEMMA PowerFailsKeeps ==
    ASSUME Inv, PowerFails
    PROVE  Inv'
<1>1. /\ pc' = [c \in Ctx |-> "idle"] /\ call' = [c \in Ctx |-> NoCall]
      /\ fr' = [c \in Ctx |-> NoFrame] /\ UNCHANGED <<ring, oldest, filled>>
  BY DEF PowerFails
<1>2. \A c \in Ctx : pc'[c] = "idle" /\ fr'[c] = NoFrame
  BY <1>1
<1>3. Control'
  BY <1>1, <1>2, NoFrameIsFrame DEF Inv, Control, Ctx
<1>4. RingInv'
  BY <1>1, <1>2 DEF Inv, RingInv, Ctx
<1> QED
  BY <1>3, <1>4 DEF Inv

LEMMA InitHolds == Init => Inv
<1> SUFFICES ASSUME Init PROVE Inv
  OBVIOUS
<1>1. \A c \in Ctx : pc[c] = "idle" /\ fr[c] = NoFrame
  BY DEF Init
<1>2. Control
  BY <1>1, NoFrameIsFrame, RingAssumption DEF Init, Control, Ctx
<1>3. Sound(ring) /\ oldest = 0
  BY BlankSound DEF Init
<1>4. RingInv
  BY <1>1, <1>3 DEF RingInv, Ctx
<1> QED
  BY <1>2, <1>4 DEF Inv

-----------------------------------------------------------------------------
(* The specification *)

LEMMA NextKeeps ==
    ASSUME Inv, OtherSsids, [Next]_vars
    PROVE  Inv'
<1>1. CASE PowerFails
  BY <1>1, PowerFailsKeeps
<1>2. ASSUME NEW c \in Ctx, StartCall(c)
      PROVE  Inv'
  BY <1>2, StartCallKeeps
<1>3. ASSUME NEW c \in Ctx, Step(c)
      PROVE  Inv'
  <2>1. CASE EndCall(c)
    BY <2>1, EndCallKeeps
  <2>2. CASE flash_io_erase_ssids_hostnames(c)
    BY <2>2, WipeKeeps
  <2>3. CASE read_flash_ids(c)
    BY <2>3, IdsKeeps
  <2>4. CASE IdsRead(c)
    BY <2>4, IdsReadKeeps
  <2>5. CASE read_flash_id_n(c)
    BY <2>5, NthKeeps
  <2>6. CASE NthRead(c)
    BY <2>6, NthReadKeeps
  <2>7. CASE CopyHostname(c)
    BY <2>7, CopyHostnameKeeps
  <2>8. CASE Compare(c)
    BY <2>8, CompareKeeps
  <2>9. CASE EraseOldest(c)
    BY <2>9, EraseOldestKeeps
  <2>10. CASE WriteRecord(c)
    BY <2>10, WriteRecordKeeps
  <2>11. CASE flash_io_erase_redundant_ssids(c)
    BY <2>11, RedundantKeeps
  <2>12. CASE FindCopy(c)
    BY <2>12, FindCopyKeeps
  <2>13. CASE DeleteFirst(c)
    BY <2>13, DeleteFirstKeeps
  <2>14. CASE flash_io_find_matching_ssid(c)
    BY <2>14, MatchKeeps
  <2>15. CASE Search(c)
    BY <2>15, SearchKeeps
  <2>16. CASE Take(c)
    BY <2>16, TakeKeeps
  <2>17. CASE TakePassword(c)
    BY <2>17, TakePasswordKeeps
  <2> QED
    BY <1>3, <2>1, <2>2, <2>3, <2>4, <2>5, <2>6, <2>7, <2>8, <2>9, <2>10, <2>11,
       <2>12, <2>13, <2>14, <2>15, <2>16, <2>17 DEF Step
<1>4. CASE UNCHANGED vars
  BY <1>4 DEF vars, Inv, Control, RingInv
<1> QED
  BY <1>1, <1>2, <1>3, <1>4 DEF Next

\* Until the ring has been full the slots are read in their order: what the
\* properties call the last copy is the last one of the log.
LEMMA LastInLog ==
    ASSUME oldest = 0, NEW S, S \subseteq Slot, NEW p, IsLast(S, p)
    PROVE  Last(S) = p
<1>1. \A q \in Slot : Age(q) = q /\ q \in Int
  <2> SUFFICES ASSUME NEW q \in Slot PROVE Age(q) = q /\ q \in Int
    OBVIOUS
  <2>1. q \in Int /\ 0 <= q /\ q < Size /\ Size \in Nat /\ Size >= 1
    BY SlotFacts, Geometry
  <2>2. q % Size = q
    BY <2>1, ModNear
  <2>3. Rewound = 0
    BY RingAssumption DEF Rewound
  <2>4. q - 0 = q
    BY <2>1
  <2> QED
    BY <2>1, <2>2, <2>3, <2>4 DEF Age
<1>2. p \in S /\ \A q \in S : Age(q) <= Age(p)
  BY <1>1 DEF IsLast
<1>3. Last(S) \in S /\ \A q \in S : Age(q) <= Age(Last(S))
  BY <1>2 DEF Last
<1>4. p \in Int /\ Last(S) \in Int /\ p <= Last(S) /\ Last(S) <= p
  BY <1>1, <1>2, <1>3
<1> QED
  BY <1>4

LEMMA CopiesAgree ==
    /\ \A n : Copies("ssid", n) = CopiesIn(ring, n) /\ Live(n) = LiveIn(ring, n)
    /\ Hosts = HostsIn(ring)
    /\ \A n : CopiesIn(ring, n) \subseteq Slot /\ LiveIn(ring, n) \subseteq CopiesIn(ring, n)
    /\ HostsIn(ring) \subseteq Slot
  BY DEF Copies, CopiesIn, Live, LiveIn, Hosts, HostsIn

LEMMA InvNewest == Inv => NewestAliveUntilFull
<1> SUFFICES ASSUME Inv, ~filled, NEW n \in Name, CopiesIn(ring, n) # {}
             PROVE  ring[Last(CopiesIn(ring, n))].live
  BY CopiesAgree DEF NewestAliveUntilFull
<1>1. Sound(ring) /\ oldest = 0
  BY DEF Inv, RingInv
<1>2. PICK p \in LiveIn(ring, n) : IsLast(CopiesIn(ring, n), p)
  BY <1>1, LastExists
<1>3. Last(CopiesIn(ring, n)) = p
  BY <1>1, <1>2, LastInLog, CopiesAgree
<1> QED
  BY <1>2, <1>3 DEF LiveIn

LEMMA InvLookups == Inv => LookupsAnswer
<1> SUFFICES ASSUME Inv, NEW c \in Ctx
             PROVE  /\ Answers(c, "find") => FindAnswers(c)
                    /\ Answers(c, "read_host") => HostAnswers(c)
  BY DEF LookupsAnswer
<1> DEFINE S == CopiesIn(ring, call[c].name)
           H == HostsIn(ring)
<1>1. ASSUME Answers(c, "find")
      PROVE  FindAnswers(c)
  <2>1. pc[c] = "done" /\ call[c].fn = "find" /\ oldest = 0
    BY <1>1 DEF Answers, Inv, RingInv
  <2>2. FrameOK("done", call[c], fr[c], ring)
    BY <1>1, <2>1 DEF Answers, Inv, RingInv
  <2>3. IF fr[c].found THEN \E p \in Slot : IsLast(S, p) /\ fr[c].value = ring[p].pw
                       ELSE S = {}
    BY <2>1, <2>2 DEF FrameOK, Searched
  <2>4. CASE fr[c].found
    <3>1. PICK p \in Slot : IsLast(S, p) /\ fr[c].value = ring[p].pw
      BY <2>3, <2>4
    <3>2. Last(S) = p /\ S # {}
      BY <2>1, <3>1, LastInLog, CopiesAgree DEF IsLast
    <3> QED
      BY <2>4, <3>1, <3>2, CopiesAgree DEF FindAnswers
  <2> QED
    BY <2>3, <2>4, CopiesAgree DEF FindAnswers
<1>2. ASSUME Answers(c, "read_host")
      PROVE  HostAnswers(c)
  <2>1. pc[c] = "done" /\ call[c].fn = "read_host" /\ oldest = 0
    BY <1>2 DEF Answers, Inv, RingInv
  <2>2. FrameOK("done", call[c], fr[c], ring)
    BY <1>2, <2>1 DEF Answers, Inv, RingInv
  <2>3. IF fr[c].found THEN \E p \in Slot : IsLast(H, p) /\ fr[c].value = ring[p].name
                       ELSE H = {}
    BY <2>1, <2>2 DEF FrameOK, HostsCounted
  <2>4. CASE fr[c].found
    <3>1. PICK p \in Slot : IsLast(H, p) /\ fr[c].value = ring[p].name
      BY <2>3, <2>4
    <3>2. Last(H) = p /\ H # {}
      BY <2>1, <3>1, LastInLog, CopiesAgree DEF IsLast
    <3> QED
      BY <2>4, <3>1, <3>2, CopiesAgree DEF HostAnswers
  <2> QED
    BY <2>3, <2>4, CopiesAgree DEF HostAnswers
<1> QED
  BY <1>1, <1>2

LEMMA InvWrites == Inv => WriteStored
<1> SUFFICES ASSUME Inv, NEW c \in Ctx, Answers(c, "write_ssid"),
                    CopiesIn(ring, call[c].name) # {}
             PROVE  LET S == CopiesIn(ring, call[c].name)
                    IN  /\ ring[Last(S)].pw = call[c].pw
                        /\ fr[c].found => LiveIn(ring, call[c].name) \subseteq {Last(S)}
  BY CopiesAgree DEF WriteStored
<1> DEFINE n == call[c].name
<1>1. /\ pc[c] = "done" /\ call[c].fn = "write_ssid" /\ oldest = 0 /\ Sound(ring)
      /\ Control
  BY DEF Answers, Inv, RingInv
<1>2. FrameOK("done", call[c], fr[c], ring)
  BY <1>1 DEF Answers, Inv, RingInv
<1>3. Stored(ring, call[c]) /\ (fr[c].found => Alone(ring, n))
  BY <1>1, <1>2 DEF FrameOK
<1>4. n \in Name
  BY <1>1, CallFacts
<1>5. PICK p \in LiveIn(ring, n) : IsLast(CopiesIn(ring, n), p)
  BY <1>1, <1>4, LastExists
<1>6. Last(CopiesIn(ring, n)) = p /\ p \in Slot
  BY <1>1, <1>5, LastInLog, CopiesAgree
<1>7. ring[p].pw = call[c].pw
  BY <1>3, <1>5, <1>6 DEF Stored
<1>8. fr[c].found => \A q \in LiveIn(ring, n) : q = p
  BY <1>3, <1>5 DEF Alone
<1> QED
  BY <1>6, <1>7, <1>8

\* The inductive invariant holds in every reachable state.
LEMMA Invariance ==
    ASSUME OtherSsids
    PROVE  Spec => []Inv
<1>1. Inv /\ [Next]_vars => Inv'
  BY NextKeeps
<1> QED
  BY <1>1, InitHolds, PTL DEF Spec

\* Whatever callbacks run and wherever the power fails, the search for redundant
\* copies of flash_io_erase_redundant_ssids never deletes the credentials entered
\* last, as long as the ring has not been full and no callback stores an ssid that
\* main is storing.
THEOREM NewestSurvives ==
    ASSUME OtherSsids
    PROVE  Spec => []NewestAliveUntilFull
BY Invariance, InvNewest, PTL

\* In the same circumstances flash_io_find_matching_ssid gives the password stored
\* last for exactly that ssid, and read_flash_id_latest the host name stored last;
\* they fail only when there is none.
THEOREM LookupsFindLast ==
    ASSUME OtherSsids
    PROVE  Spec => []LookupsAnswer
BY Invariance, InvLookups, PTL

\* In the same circumstances the password given to flash_io_write_ssid is, when it
\* returns, the one that the next search finds, and a call that wrote has left no
\* older copy of the ssid alive.
THEOREM WritesAreStored ==
    ASSUME OtherSsids
    PROVE  Spec => []WriteStored
BY Invariance, InvWrites, PTL
=============================================================================
