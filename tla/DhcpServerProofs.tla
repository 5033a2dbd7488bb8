-------------------------- MODULE DhcpServerProofs --------------------------
(***************************************************************************)
(* The leases of the dhcp server, for any number of clients and addresses, *)
(* any range of the ticks and any lease time below half of it.             *)
(***************************************************************************)
EXTENDS DhcpServer, WellFoundedInduction, TLAPS

(* Numbers *)

\* Every set of natural numbers has a least element.
LEMMA LeastElement ==
    ASSUME NEW T, T \subseteq Nat, T # {}
    PROVE  \E x \in T : \A y \in T : x <= y
<1> DEFINE R == {p \in Nat \X Nat : p[1] < p[2]}
<1>1. IsWellFoundedOn(R, Nat)
  BY NatLessThanWellFounded DEF OpToRel
<1>2. PICK x \in T : \A y \in T : ~(<<y, x>> \in R)
  <2> HIDE DEF R
  <2> QED
    BY <1>1, WFMin
<1>3. \A y \in T : y < x => <<y, x>> \in R
  BY <1>2
<1>4. \A y \in T : ~(y < x)
  BY <1>2, <1>3
<1>5. \A y \in T : x <= y
  BY <1>4
<1> QED
  BY <1>5

\* Multiplication by a natural number is monotone.
LEMMA TimesMonotone ==
    ASSUME NEW x \in Int, NEW y \in Int, NEW m \in Nat, x <= y
    PROVE  x * m <= y * m
  OBVIOUS

\* Division with remainder.
LEMMA DivMod ==
    ASSUME NEW a \in Nat, NEW m \in Nat, m >= 1
    PROVE  /\ a \div m \in Nat
           /\ a % m \in 0 .. m - 1
           /\ a = ((a \div m) * m) + (a % m)
           /\ a % m <= a
<1>1. a % m \in 0 .. m - 1
  OBVIOUS
<1>2. a = (m * (a \div m)) + (a % m) /\ a \div m \in Int
  OBVIOUS
<1>3. a \div m >= 0
  OBVIOUS
<1>4. (a \div m) * m >= 0
  BY <1>2, <1>3
<1>5. (a \div m) * m = m * (a \div m)
  BY <1>2
<1> QED
  BY <1>1, <1>2, <1>3, <1>4, <1>5

\* Remainders of numbers one range below and one range above.
LEMMA ModNear ==
    ASSUME NEW m \in Nat, m >= 1, NEW x \in Int
    PROVE  /\ x >= 0 /\ x < m => x % m = x
           /\ x < 0 /\ x >= -m => x % m = x + m
           /\ x >= m /\ x < 2 * m => x % m = x - m
           /\ x % m \in 0 .. m - 1
  OBVIOUS

-----------------------------------------------------------------------------
\* Ticks from t until e, as the signed number that the code computes.
Ahead(e, t) ==
    IF (e - t) % TickMod >= Half THEN ((e - t) % TickMod) - TickMod ELSE (e - t) % TickMod

\* What the server, the clients and the history can hold.
TypeOK ==
    /\ ticks \in 0 .. TickMod - 1
    /\ lease \in [Slot -> [mac : Client \cup {NoMac}, expiry : Nat]]
    /\ \A i \in Slot : ExpiryTick(i) \in 0 .. TickMod - 1
    /\ want \in [Client -> Slot \cup {NoSlot}]
    /\ left \in [Client -> 0 .. LeaseTime]
    /\ since \in [Slot -> (0 .. Half) \cup {Never}]
    /\ ignored \in BOOLEAN

\* A client that uses an address has its lease, for no longer than a lease.
HolderInv ==
    \A c \in Client : left[c] > 0 =>
        /\ want[c] \in Slot
        /\ lease[want[c]].mac = c
        /\ since[want[c]] # Never
        /\ left[c] + since[want[c]] <= LeaseTime

\* An address with an owner has been granted.
GrantedInv == \A i \in Slot : lease[i].mac # NoMac => since[i] # Never

\* The time to the end of a lease, up to the rounding, until the ticks have gone
\* half of their range: from then on the code takes the lease for a new one.
AgeInv ==
    \A i \in Slot : since[i] \in 0 .. Half - 1 =>
        Ahead(ExpiryTick(i), ticks) \in LeaseTime - since[i] .. LeaseTime + Granule - 1 - since[i]

\* The inductive invariant.
Inv == TypeOK /\ HolderInv /\ GrantedInv /\ AgeInv /\ IgnoredOnlyWhenFull

-----------------------------------------------------------------------------
(* Ticks *)

\* The sizes.
LEMMA Sizes ==
    /\ TickMod \in Nat /\ Half \in Nat /\ Granule \in Nat /\ LeaseTime \in Nat
    /\ TickMod = 2 * Half /\ LeaseTime + Granule <= Half
    /\ Granule >= 1 /\ LeaseTime >= 1
    /\ \E k \in Nat : TickMod = k * Granule
<1>1. PICK n \in 1 .. TickMod : TickMod = 2 * n * Granule
  BY TickAssumption
<1>2. n \in Nat /\ Granule \in Nat /\ n * Granule \in Nat /\ TickMod = 2 * (n * Granule)
  BY <1>1, TickAssumption
<1>3. TickMod = (2 * n) * Granule /\ 2 * n \in Nat
  BY <1>1, <1>2
<1> QED
  BY <1>2, <1>3, TickAssumption DEF Half

\* The range of the ticks, and a unit of it, are not empty.
LEMMA TickModPositive ==
    TickMod \in Nat /\ TickMod >= 1 /\ Granule \in Nat /\ Granule >= 1
  BY Sizes

\* Remainders of the numbers that one addition or subtraction of ticks can give.
LEMMA TickRange ==
    \A x \in Int :
        /\ x >= 0 /\ x < TickMod => x % TickMod = x
        /\ x < 0 /\ x >= -TickMod => x % TickMod = x + TickMod
        /\ x >= TickMod /\ x < 2 * TickMod => x % TickMod = x - TickMod
  BY TickModPositive, ModNear

\* A lease is over when its last tick lies behind.
LEMMA ExpiredIsBehind ==
    ASSUME TypeOK, NEW i \in Slot
    PROVE  Expired(i) <=> Ahead(ExpiryTick(i), ticks) < 0
  BY Sizes DEF TypeOK, Expired, Ahead

\* A table that was just cleared.
LEMMA ClearedTable ==
    /\ 0 * Granule + Granule - 1 \in 0 .. TickMod - 1
    /\ Never \in Int /\ Never < 0
  BY Sizes DEF Never

\* One tick brings the end of a lease one tick closer.
LEMMA AheadTick ==
    ASSUME NEW e \in 0 .. TickMod - 1, NEW t \in 0 .. TickMod - 1, Ahead(e, t) > -Half
    PROVE  Ahead(e, (t + 1) % TickMod) = Ahead(e, t) - 1
<1>1. /\ t + 1 < TickMod => (t + 1) % TickMod = t + 1
      /\ t + 1 = TickMod => (t + 1) % TickMod = 0
  BY Sizes, TickRange
<1>2. /\ e - t >= 0 => (e - t) % TickMod = e - t
      /\ e - t < 0 => (e - t) % TickMod = e - t + TickMod
  BY Sizes, TickRange
<1>3. CASE t + 1 < TickMod
  <2>1. /\ e - (t + 1) >= 0 => (e - (t + 1)) % TickMod = e - (t + 1)
        /\ e - (t + 1) < 0 => (e - (t + 1)) % TickMod = e - (t + 1) + TickMod
    BY <1>3, Sizes, TickRange
  <2> QED
    BY <1>1, <1>2, <1>3, <2>1, Sizes DEF Ahead
<1>4. CASE t + 1 = TickMod
  <2>1. (e - 0) % TickMod = e
    BY Sizes, TickRange
  <2> QED
    BY <1>1, <1>2, <1>4, <2>1, Sizes DEF Ahead
<1> QED
  BY <1>3, <1>4, Sizes

\* The end of a lease granted now, rounded up to a unit of expiry, is in range
\* and lies a lease time and less than one unit ahead.
LEMMA NewExpiry ==
    ASSUME ticks \in 0 .. TickMod - 1
    PROVE  /\ Expiry \in Nat
           /\ Expiry * Granule + Granule - 1 \in 0 .. TickMod - 1
           /\ Ahead(Expiry * Granule + Granule - 1, ticks)
                 \in LeaseTime .. LeaseTime + Granule - 1
<1> DEFINE x == (ticks + LeaseTime) % TickMod
           e == x \div Granule
           E == e * Granule + Granule - 1
<1>1. /\ x \in 0 .. TickMod - 1
      /\ x = ticks + LeaseTime \/ x = ticks + LeaseTime - TickMod
  BY Sizes, TickRange
<1> HIDE DEF x
<1>2. e \in Nat /\ x % Granule \in 0 .. Granule - 1 /\ x = e * Granule + (x % Granule)
  <2>1. x \in Nat
    BY <1>1
  <2>2. x = ((x \div Granule) * Granule) + (x % Granule)
        /\ x \div Granule \in Nat /\ x % Granule \in 0 .. Granule - 1
    BY <2>1, TickModPositive, DivMod
  <2> QED
    BY <2>2
<1> HIDE DEF e
<1>3. PICK k \in Nat : TickMod = k * Granule
  BY Sizes
<1>4. e + 1 <= k
  <2> SUFFICES ASSUME k <= e PROVE FALSE
    BY <1>2
  <2>1. k * Granule <= e * Granule
    BY <1>2, TimesMonotone, Sizes
  <2>2. e * Granule \in Nat
    BY <1>2, Sizes
  <2> QED
    BY <2>1, <2>2, <1>1, <1>2, <1>3, Sizes
<1>5. (e + 1) * Granule <= k * Granule
  BY <1>2, <1>4, TimesMonotone, Sizes
<1>6. (e + 1) * Granule = e * Granule + Granule /\ e * Granule \in Nat
  BY <1>2, Sizes
<1>7. E \in 0 .. TickMod - 1 /\ E \in x .. x + Granule - 1
  BY <1>1, <1>2, <1>3, <1>5, <1>6, Sizes
<1> HIDE DEF E
<1>8. (E - ticks) % TickMod \in LeaseTime .. LeaseTime + Granule - 1
  <2>1. /\ E - ticks >= 0 => (E - ticks) % TickMod = E - ticks
        /\ E - ticks < 0 => (E - ticks) % TickMod = E - ticks + TickMod
    BY <1>7, Sizes, TickRange
  <2> QED
    BY <2>1, <1>1, <1>7, Sizes
<1>9. Ahead(E, ticks) \in LeaseTime .. LeaseTime + Granule - 1
  BY <1>8, Sizes DEF Ahead
<1> QED
  BY <1>2, <1>7, <1>9 DEF Expiry, E, e, x

-----------------------------------------------------------------------------
(* The messages *)

\* The least address of a set of them.
LEMMA MinSlot ==
    ASSUME NEW T, T \subseteq Slot, T # {}
    PROVE  Min(T) \in T /\ Min(T) \in Slot
<1>1. Slot \subseteq Nat
  BY PoolAssumption DEF Slot
<1>2. \E x \in T : \A y \in T : x <= y
  BY <1>1, LeastElement
<1> QED
  BY <1>2 DEF Min

\* A client that uses an address is safe from the expiry of its lease.
LEMMA HeldNotExpired ==
    ASSUME Inv, NEW c \in Client, left[c] > 0
    PROVE  ~Expired(want[c])
<1>1. want[c] \in Slot /\ since[want[c]] \in 0 .. Half - 1
      /\ LeaseTime - since[want[c]] > 0
  BY Sizes DEF Inv, TypeOK, HolderInv, Never
<1>2. Ahead(ExpiryTick(want[c]), ticks)
         \in LeaseTime - since[want[c]] .. LeaseTime + Granule - 1 - since[want[c]]
  BY <1>1 DEF Inv, AgeInv
<1>3. ~(Ahead(ExpiryTick(want[c]), ticks) < 0)
  <2> DEFINE a == Ahead(ExpiryTick(want[c]), ticks)
             s == since[want[c]]
  <2>1. a \in LeaseTime - s .. LeaseTime + Granule - 1 - s /\ s \in Int /\ LeaseTime - s > 0
    BY <1>1, <1>2
  <2> HIDE DEF a, s
  <2>2. ~(a < 0)
    BY <2>1, Sizes
  <2> QED
    BY <2>2 DEF a
<1> QED
  BY <1>1, <1>3, ExpiredIsBehind DEF Inv

\* An address that is neither free nor expired was granted within a lease time
\* and the rounding, or so long ago that the ticks have gone half their range.
LEMMA UsedIsYoung ==
    ASSUME Inv, NEW i \in Slot, ~Free(i)
    PROVE  since[i] \in (0 .. LeaseTime + Granule - 1) \cup {Half}
<1>1. since[i] \in 0 .. Half
  BY DEF Inv, TypeOK, GrantedInv, Free
<1>2. CASE since[i] \in 0 .. Half - 1
  <2> DEFINE a == Ahead(ExpiryTick(i), ticks)
  <2>1. a \in LeaseTime - since[i] .. LeaseTime + Granule - 1 - since[i]
    BY <1>2 DEF Inv, AgeInv
  <2>2. ~(a < 0)
    BY ExpiredIsBehind DEF Inv, Free
  <2> HIDE DEF a
  <2> QED
    BY <1>2, <2>1, <2>2, Sizes
<1> QED
  BY <1>1, <1>2, Sizes

\* DISCOVER takes the owner only from a lease that is over.
LEMMA DiscoverInv ==
    ASSUME Inv, NEW c \in Client, NEW lost \in BOOLEAN, dhcp_discover(c, lost)
    PROVE  Inv'
<1> DEFINE free == {i \in Slot : Free(i)}
           seen == IF Match(c) = {} THEN free ELSE {i \in free : i < Min(Match(c))}
           yi == CASE Match(c) # {} -> Min(Match(c))
                   [] Match(c) = {} /\ free # {} -> Min(free)
                   [] OTHER -> NoSlot
<1>1. /\ left[c] = 0
      /\ lease' = IF seen = {} THEN lease
                  ELSE [lease EXCEPT ![Min(seen)].mac = IF Expired(Min(seen)) THEN NoMac ELSE @]
      /\ ignored' = (yi = NoSlot)
      /\ want' = IF lost \/ yi = NoSlot THEN want ELSE [want EXCEPT ![c] = yi]
      /\ UNCHANGED <<ticks, left, since>>
  BY DEF dhcp_discover
<1>2. /\ yi = NoSlot => free = {}
      /\ yi \in Slot \cup {NoSlot}
  <2>1. Match(c) # {} => Min(Match(c)) \in Slot
    BY MinSlot DEF Match
  <2>2. free # {} => Min(free) \in Slot
    BY MinSlot
  <2>3. NoSlot \notin Slot
    BY PoolAssumption DEF Slot, NoSlot
  <2> HIDE DEF free
  <2> QED
    BY <2>1, <2>2, <2>3
<1>3. seen # {} => Min(seen) \in Slot
  BY MinSlot
<1> HIDE DEF seen, yi
<1>4. /\ lease' \in [Slot -> [mac : Client \cup {NoMac}, expiry : Nat]]
      /\ \A i \in Slot : /\ lease'[i].expiry = lease[i].expiry
                        /\ \/ lease'[i].mac = lease[i].mac
                           \/ lease'[i].mac = NoMac /\ Expired(i)
  <2>1. CASE seen = {}
    BY <1>1, <2>1 DEF Inv, TypeOK
  <2>2. CASE seen # {}
    <3> DEFINE m == Min(seen)
    <3>1. m \in Slot /\ lease[m] \in [mac : Client \cup {NoMac}, expiry : Nat]
      BY <1>3, <2>2 DEF Inv, TypeOK
    <3> DEFINE r == [lease[m] EXCEPT !.mac = IF Expired(m) THEN NoMac ELSE lease[m].mac]
    <3>2. lease' = [lease EXCEPT ![m] = r]
      BY <1>1, <2>2, Zenon
    <3> HIDE DEF m
    <3>3. /\ r \in [mac : Client \cup {NoMac}, expiry : Nat]
          /\ r.expiry = lease[m].expiry
          /\ r.mac # lease[m].mac => r.mac = NoMac /\ Expired(m)
      <4>1. CASE Expired(m)
        BY <3>1, <4>1
      <4>2. CASE ~Expired(m)
        BY <3>1, <4>2
      <4> QED
        BY <4>1, <4>2
    <3> HIDE DEF r
    <3> QED
      BY <3>1, <3>2, <3>3 DEF Inv, TypeOK
  <2> QED
    BY <2>1, <2>2
<1>5. \A i \in Slot : ExpiryTick(i)' = ExpiryTick(i)
  BY <1>4 DEF ExpiryTick
<1>6. want' \in [Client -> Slot \cup {NoSlot}] /\ \A d \in Client : d # c => want'[d] = want[d]
  BY <1>1, <1>2 DEF Inv, TypeOK
<1>7. TypeOK'
  <2>1. ignored' \in BOOLEAN
    BY <1>1
  <2> QED
    BY <1>1, <1>4, <1>5, <1>6, <2>1 DEF Inv, TypeOK
<1>8. HolderInv'
  <2> SUFFICES ASSUME NEW d \in Client, left[d] > 0
               PROVE  /\ want[d] \in Slot
                      /\ lease'[want[d]].mac = d
                      /\ since[want[d]] # Never
                      /\ left[d] + since[want[d]] <= LeaseTime
                      /\ want'[d] = want[d]
    BY <1>1 DEF HolderInv
  <2>1. ~Expired(want[d])
    BY HeldNotExpired
  <2>2. d # c
    BY <1>1
  <2> QED
    BY <1>4, <1>6, <2>1, <2>2 DEF Inv, HolderInv
<1>9. GrantedInv'
  BY <1>1, <1>4 DEF Inv, GrantedInv
<1>10. AgeInv'
  BY <1>1, <1>5 DEF Inv, AgeInv, Ahead
<1>11. IgnoredOnlyWhenFull'
  <2> SUFFICES ASSUME free = {}, NEW i \in Slot
               PROVE  since[i] \in (0 .. LeaseTime + Granule - 1) \cup {Half}
    BY <1>1, <1>2 DEF IgnoredOnlyWhenFull
  <2>1. ~Free(i)
    OBVIOUS
  <2> QED
    BY <2>1, UsedIsYoung
<1> QED
  BY <1>7, <1>8, <1>9, <1>10, <1>11 DEF Inv

\* REQUEST gives the address to a client only if no other has its lease.
LEMMA RequestInv ==
    ASSUME Inv, NEW c \in Client, NEW lost \in BOOLEAN, dhcp_request(c, lost)
    PROVE  Inv'
<1> DEFINE w == want[c]
<1>1. w \in Slot /\ c # NoMac
  BY ClientAssumption DEF Inv, TypeOK, dhcp_request
<1>2. /\ lease[w].mac \in {c, NoMac}
      /\ lease' = [lease EXCEPT ![w] = [mac |-> c, expiry |-> Expiry]]
      /\ left' = IF lost THEN left ELSE [left EXCEPT ![c] = LeaseTime]
      /\ since' = [since EXCEPT ![w] = 0]
      /\ ignored' = FALSE
      /\ UNCHANGED <<ticks, want>>
  BY DEF dhcp_request, MayUse
<1>3. /\ Expiry \in Nat
      /\ Expiry * Granule + Granule - 1 \in 0 .. TickMod - 1
      /\ Ahead(Expiry * Granule + Granule - 1, ticks) \in LeaseTime .. LeaseTime + Granule - 1
  BY NewExpiry DEF Inv, TypeOK
<1>4. /\ lease' \in [Slot -> [mac : Client \cup {NoMac}, expiry : Nat]]
      /\ lease'[w].mac = c /\ lease'[w].expiry = Expiry
      /\ \A i \in Slot : i # w => lease'[i] = lease[i]
  BY <1>1, <1>2, <1>3 DEF Inv, TypeOK
<1>5. \A i \in Slot : ExpiryTick(i)' = IF i = w THEN Expiry * Granule + Granule - 1
                                      ELSE ExpiryTick(i)
  <2> SUFFICES ASSUME NEW i \in Slot
               PROVE  lease'[i].expiry = IF i = w THEN Expiry ELSE lease[i].expiry
    BY DEF ExpiryTick
  <2> QED
    BY <1>4
<1>6. /\ since' \in [Slot -> (0 .. Half) \cup {Never}] /\ since'[w] = 0
      /\ \A i \in Slot : i # w => since'[i] = since[i]
  BY <1>1, <1>2, Sizes DEF Inv, TypeOK
<1>7. /\ left' \in [Client -> 0 .. LeaseTime]
      /\ \A d \in Client : d # c => left'[d] = left[d]
  BY <1>2, Sizes DEF Inv, TypeOK
<1>8. TypeOK'
  <2>1. \A i \in Slot : ExpiryTick(i)' \in 0 .. TickMod - 1
    BY <1>3, <1>5 DEF Inv, TypeOK
  <2>2. ignored' \in BOOLEAN
    BY <1>2
  <2> QED
    BY <1>2, <1>4, <1>6, <1>7, <2>1, <2>2 DEF Inv, TypeOK
<1>9. HolderInv'
  <2> SUFFICES ASSUME NEW d \in Client, left'[d] > 0
               PROVE  /\ want[d] \in Slot
                      /\ lease'[want[d]].mac = d
                      /\ since'[want[d]] # Never
                      /\ left'[d] + since'[want[d]] <= LeaseTime
    BY <1>2 DEF HolderInv
  <2>1. CASE d = c
    BY <2>1, <1>1, <1>4, <1>6, <1>7, Sizes DEF Never
  <2>2. CASE d # c
    <3>1. /\ want[d] \in Slot /\ lease[want[d]].mac = d /\ since[want[d]] # Never
          /\ left[d] + since[want[d]] <= LeaseTime
      BY <2>2, <1>7 DEF Inv, HolderInv
    <3>2. want[d] # w
      BY <3>1, <2>2, <1>2, ClientAssumption
    <3> QED
      BY <2>2, <3>1, <3>2, <1>4, <1>6, <1>7
  <2> QED
    BY <2>1, <2>2
<1>10. GrantedInv'
  BY <1>4, <1>6 DEF Inv, GrantedInv, Never
<1>11. AgeInv'
  <2> SUFFICES ASSUME NEW i \in Slot, since'[i] \in 0 .. Half - 1
               PROVE  Ahead(ExpiryTick(i)', ticks)
                         \in LeaseTime - since'[i] .. LeaseTime + Granule - 1 - since'[i]
    BY <1>2 DEF AgeInv, Ahead
  <2>1. CASE i = w
    <3>1. LeaseTime - 0 = LeaseTime /\ LeaseTime + Granule - 1 - 0 = LeaseTime + Granule - 1
      BY Sizes
    <3> QED
      BY <2>1, <3>1, <1>3, <1>5, <1>6
  <2>2. CASE i # w
    BY <2>2, <1>5, <1>6 DEF Inv, AgeInv
  <2> QED
    BY <2>1, <2>2
<1> QED
  BY <1>2, <1>8, <1>9, <1>10, <1>11 DEF Inv, IgnoredOnlyWhenFull

\* The table is cleared.
LEMMA ServerInitInv ==
    ASSUME Inv, dhcp_server_init
    PROVE  Inv'
<1>1. TypeOK'
  <2>1. \A i \in Slot : lease'[i].expiry = 0
    BY DEF dhcp_server_init
  <2>2. \A i \in Slot : ExpiryTick(i)' \in 0 .. TickMod - 1
    BY <2>1, ClearedTable DEF ExpiryTick
  <2> QED
    <3>1. ignored' \in BOOLEAN
      BY DEF dhcp_server_init
    <3>2. lease' \in [Slot -> [mac : Client \cup {NoMac}, expiry : Nat]]
      BY DEF dhcp_server_init
    <3> QED
      BY <2>2, <3>1, <3>2, Sizes DEF Inv, TypeOK, dhcp_server_init
<1> QED
  BY <1>1, Sizes DEF Inv, TypeOK, HolderInv, GrantedInv, AgeInv, IgnoredOnlyWhenFull,
      dhcp_server_init, Never

\* Time goes on.
LEMMA TickInv ==
    ASSUME Inv, Tick
    PROVE  Inv'
<1>1. /\ ticks' = (ticks + 1) % TickMod
      /\ left' = [c \in Client |-> IF left[c] > 0 THEN left[c] - 1 ELSE 0]
      /\ since' = [i \in Slot |-> IF since[i] = Never \/ since[i] = Half
                                  THEN since[i] ELSE since[i] + 1]
      /\ ignored' = FALSE
      /\ UNCHANGED <<lease, want>>
  <2>1. \A c \in Client : Max({0, left[c] - 1}) = IF left[c] > 0 THEN left[c] - 1 ELSE 0
    BY Sizes DEF Inv, TypeOK, Max
  <2>2. \A i \in Slot : since[i] # Never =>
           Min({Half, since[i] + 1}) = IF since[i] = Half THEN since[i] ELSE since[i] + 1
    BY Sizes DEF Inv, TypeOK, Min, Never
  <2> QED
    BY <2>1, <2>2 DEF Tick
<1>2. \A i \in Slot : ExpiryTick(i)' = ExpiryTick(i)
  BY <1>1 DEF ExpiryTick
<1>3. TypeOK'
  <2>1. ticks' \in 0 .. TickMod - 1
    BY <1>1, TickModPositive, ModNear DEF Inv, TypeOK
  <2>2. left' \in [Client -> 0 .. LeaseTime]
    BY <1>1, Sizes DEF Inv, TypeOK
  <2>3. since' \in [Slot -> (0 .. Half) \cup {Never}]
    <3>1. \A i \in Slot : since[i] \in (0 .. Half) \cup {Never}
      BY DEF Inv, TypeOK
    <3>2. \A i \in Slot : since[i] \in 0 .. Half /\ since[i] # Half => since[i] + 1 \in 0 .. Half
      BY Sizes
    <3> QED
      BY <1>1, <3>1, <3>2
  <2> QED
    BY <1>1, <1>2, <2>1, <2>2, <2>3 DEF Inv, TypeOK
<1>4. HolderInv'
  <2> SUFFICES ASSUME NEW c \in Client, left'[c] > 0
               PROVE  /\ want[c] \in Slot
                      /\ lease[want[c]].mac = c
                      /\ since'[want[c]] # Never
                      /\ left'[c] + since'[want[c]] <= LeaseTime
    BY <1>1 DEF HolderInv
  <2>1. left[c] > 0 /\ left'[c] = left[c] - 1 /\ left[c] \in Int
    BY <1>1 DEF Inv, TypeOK
  <2>2. /\ want[c] \in Slot /\ lease[want[c]].mac = c /\ since[want[c]] # Never
        /\ left[c] + since[want[c]] <= LeaseTime
    BY <2>1 DEF Inv, HolderInv
  <2>3. since[want[c]] \in 0 .. Half /\ since'[want[c]] \in {since[want[c]], since[want[c]] + 1}
    BY <1>1, <2>2 DEF Inv, TypeOK
  <2> QED
    BY <2>1, <2>2, <2>3, Sizes DEF Never
<1>5. GrantedInv'
  BY <1>1 DEF Inv, TypeOK, GrantedInv, Never
<1>6. AgeInv'
  <2> SUFFICES ASSUME NEW i \in Slot, since'[i] \in 0 .. Half - 1
               PROVE  Ahead(ExpiryTick(i), ticks')
                         \in LeaseTime - since'[i] .. LeaseTime + Granule - 1 - since'[i]
    BY <1>2 DEF AgeInv, Ahead
  <2>1. since[i] \in 0 .. Half - 2 /\ since'[i] = since[i] + 1
    BY <1>1, Sizes DEF Inv, TypeOK, Never
  <2> DEFINE a == Ahead(ExpiryTick(i), ticks)
  <2>2. a \in LeaseTime - since[i] .. LeaseTime + Granule - 1 - since[i]
    BY <2>1, Sizes DEF Inv, AgeInv
  <2>3. a > -Half
    <3> HIDE DEF a
    <3> QED
      BY <2>1, <2>2, Sizes
  <2>4. Ahead(ExpiryTick(i), ticks') = a - 1
    BY <2>3, <1>1, AheadTick DEF Inv, TypeOK
  <2> HIDE DEF a
  <2> QED
    BY <2>1, <2>2, <2>4, Sizes
<1> QED
  BY <1>1, <1>3, <1>4, <1>5, <1>6 DEF Inv, IgnoredOnlyWhenFull

-----------------------------------------------------------------------------
(* The theorems *)

\* The invariant holds of every state.
LEMMA InvInductive == Spec => []Inv
<1>1. Init => Inv
  <2> SUFFICES ASSUME Init
               PROVE  Inv
    OBVIOUS
  <2>1. TypeOK
    <3>1. \A i \in Slot : lease[i].expiry = 0
      BY DEF Init
    <3>2. \A i \in Slot : ExpiryTick(i) \in 0 .. TickMod - 1
      BY <3>1, ClearedTable DEF ExpiryTick
    <3> QED
      <4>1. ignored \in BOOLEAN
        BY DEF Init
      <4>2. lease \in [Slot -> [mac : Client \cup {NoMac}, expiry : Nat]]
        BY DEF Init
      <4> QED
        BY <3>2, <4>1, <4>2, Sizes DEF Init, TypeOK
  <2> QED
    BY <2>1, Sizes DEF Init, Inv, TypeOK, HolderInv, GrantedInv, AgeInv, IgnoredOnlyWhenFull, Never
<1>2. Inv /\ [Next]_vars => Inv'
  <2> SUFFICES ASSUME Inv, [Next]_vars
               PROVE  Inv'
    OBVIOUS
  <2>1. CASE \E c \in Client, lost \in BOOLEAN : dhcp_discover(c, lost) \/ dhcp_request(c, lost)
    BY <2>1, DiscoverInv, RequestInv
  <2>2. CASE dhcp_server_init
    BY <2>2, ServerInitInv
  <2>3. CASE Tick
    BY <2>3, TickInv
  <2>4. CASE UNCHANGED vars
    BY <2>4 DEF Inv, TypeOK, HolderInv, GrantedInv, AgeInv, IgnoredOnlyWhenFull, ExpiryTick,
        Ahead, vars
  <2> QED
    BY <2>1, <2>2, <2>3, <2>4 DEF Next
<1> QED
  BY <1>1, <1>2, PTL DEF Spec

(***************************************************************************)
(* No two clients use one address at a time, although offers reserve       *)
(* nothing, answers are lost, leases are kept by their upper bits only and *)
(* the ticks wrap.                                                         *)
(***************************************************************************)
THEOREM AddressesExclusive == Spec => []OneHolder
<1>1. Inv => OneHolder
  BY DEF Inv, HolderInv, OneHolder
<1> QED
  BY <1>1, InvInductive, PTL

(***************************************************************************)
(* A DISCOVER goes unanswered only if every address was granted within a   *)
(* lease time and its rounding, or half the range of the ticks ago.        *)
(***************************************************************************)
THEOREM NoIdleAddressWithheld == Spec => []IgnoredOnlyWhenFull
<1>1. Inv => IgnoredOnlyWhenFull
  BY DEF Inv
<1> QED
  BY <1>1, InvInductive, PTL
=============================================================================
