-------------------------- MODULE SectorRingProofs --------------------------
(***************************************************************************)
(* The order of the sector ring, for every number of sectors and every     *)
(* choice of indices.                                                      *)
(***************************************************************************)
EXTENDS SectorRing, TLAPS

\* Succ and Pred stay in the ring and undo each other.
LEMMA RingStep ==
    ASSUME NEW s \in Sector
    PROVE  /\ Succ(s) \in Sector
           /\ Pred(s) \in Sector
           /\ Pred(Succ(s)) = s
           /\ Succ(Pred(s)) = s
  BY NAssumption DEF Sector, Succ, Pred

\* Indices are numbers that can be compared.
LEMMA IndexIsNat ==
    ASSUME TypeOK
    PROVE  \A s \in Sector : idx[s] \in Nat
<1>1. \A n \in Index \cup {0} : n \in Nat
  BY IndexAssumption
<1>2. QED
  BY <1>1 DEF TypeOK

\* A blank ring is ordered.
LEMMA BlankRingOrdered ==
    ASSUME idx = [s \in Sector |-> 0]
    PROVE  OrderInv
  BY DEF OrderInv, TypeOK, IndexUnique, AgeFollowsRing, Used

\* The same of the ring an erase-all leaves behind.
LEMMA WipedRingOrdered ==
    ASSUME idx' = [s \in Sector |-> 0]
    PROVE  OrderInv'
  BY DEF OrderInv, TypeOK, IndexUnique, AgeFollowsRing, Used

(***************************************************************************)
(* Whatever sector headers rb_append writes and erases, the used sectors   *)
(* stay one arc of the ring in order of age with distinct indices.         *)
(***************************************************************************)
THEOREM OrderInvariant == Spec => []OrderInv
<1>1. Init => OrderInv
  BY BlankRingOrdered DEF Init
<1>2. OrderInv /\ [Next]_vars => OrderInv'
  <2> SUFFICES ASSUME OrderInv, [Next]_vars
               PROVE  OrderInv'
    OBVIOUS
  <2> USE NAssumption, IndexAssumption DEF OrderInv
  <2>0. \A s \in Sector : idx[s] \in Nat
    BY IndexIsNat
  <2>1. ASSUME FirstSector
        PROVE  OrderInv'
    <3>0. PICK n \in Index : idx' = [idx EXCEPT ![0] = n]
      BY <2>1 DEF FirstSector
    <3>1. 0 \in Sector /\ Used = {}
      BY <2>1 DEF FirstSector, Sector
    <3>2. TypeOK'
      BY <3>0 DEF TypeOK
    <3>3. Used' = {0}
      BY <3>0, <3>1 DEF Used, TypeOK
    <3>4. IndexUnique'
      BY <3>3 DEF IndexUnique
    <3>5. idx'[0] \in Nat
      BY <3>0, <3>1 DEF TypeOK
    <3>6. AgeFollowsRing'
      BY <3>3, <3>5 DEF AgeFollowsRing
    <3>7. QED
      BY <3>2, <3>4, <3>6
  <2>2. ASSUME NEW s \in Sector, NextSector(s)
        PROVE  OrderInv'
    <3> DEFINE q == Succ(s)
    <3>0. PICK n \in Index : n > idx[s] /\ idx' = [idx EXCEPT ![q] = n]
      BY <2>2 DEF NextSector
    <3>1. /\ q \in Sector /\ Pred(q) = s
          /\ s \in Used /\ q \notin Used /\ q # s
          /\ \A t \in Used : idx[t] <= idx[s]
          /\ idx[s] \in Nat /\ n > idx[s] /\ n # 0
          /\ idx' = [idx EXCEPT ![q] = n]
      BY <2>0, <2>2, <3>0, RingStep DEF NextSector, Newest, Used
    <3> HIDE DEF q
    <3>2. TypeOK'
      BY <3>1 DEF TypeOK
    <3>3. Used' = Used \cup {q} /\ idx'[q] = n
      BY <3>1 DEF Used, TypeOK
    <3>4. \A t \in Used : idx'[t] = idx[t] /\ idx[t] \in Nat /\ idx[t] < n
      BY <2>0, <3>1 DEF Used, TypeOK
    <3>5. IndexUnique'
      BY <3>3, <3>4 DEF IndexUnique
    <3>6. AgeFollowsRing'
      <4> SUFFICES ASSUME NEW u \in Used', NEW t \in Used', idx'[t] < idx'[u]
                   PROVE  /\ Pred(u) \in Used'
                          /\ idx'[t] <= idx'[Pred(u)]
                          /\ idx'[Pred(u)] < idx'[u]
        BY DEF AgeFollowsRing
      <4>1. t \in Used
        BY <3>1, <3>3, <3>4
      <4>2. CASE u = q
        BY <4>1, <4>2, <3>1, <3>3, <3>4
      <4>3. CASE u \in Used
        BY <4>1, <4>3, <3>3, <3>4 DEF AgeFollowsRing
      <4>4. QED
        BY <3>3, <4>2, <4>3
    <3>7. QED
      BY <3>2, <3>5, <3>6
  <2>3. ASSUME NEW s \in Sector, EraseOldest(s)
        PROVE  OrderInv'
    <3>1. /\ s \in Used
          /\ \A t \in Used : idx[s] <= idx[t]
          /\ idx' = [idx EXCEPT ![s] = 0]
      BY <2>3 DEF EraseOldest, Oldest
    <3>2. TypeOK'
      BY <3>1 DEF TypeOK
    <3>3. Used' = Used \ {s}
      BY <3>1 DEF Used, TypeOK
    <3>4. \A t \in Used' : idx'[t] = idx[t] /\ idx[t] \in Nat
      BY <2>0, <3>1, <3>3 DEF Used, TypeOK
    <3>5. IndexUnique'
      BY <3>3, <3>4 DEF IndexUnique
    <3>6. AgeFollowsRing'
      <4> SUFFICES ASSUME NEW u \in Used', NEW t \in Used', idx'[t] < idx'[u]
                   PROVE  /\ Pred(u) \in Used'
                          /\ idx'[t] <= idx'[Pred(u)]
                          /\ idx'[Pred(u)] < idx'[u]
        BY DEF AgeFollowsRing
      <4>1. Pred(u) \in Used /\ idx[t] <= idx[Pred(u)] /\ idx[Pred(u)] < idx[u]
        BY <3>3, <3>4 DEF AgeFollowsRing
      <4>2. Pred(u) # s
        BY <2>0, <4>1, <3>1, <3>3, <3>4 DEF IndexUnique, Used
      <4>3. QED
        BY <4>1, <4>2, <3>3, <3>4
    <3>7. QED
      BY <3>2, <3>5, <3>6
  <2>4. CASE Wipe
    BY <2>4, WipedRingOrdered DEF Wipe
  <2>5. CASE UNCHANGED vars
    BY <2>5 DEF vars, TypeOK, IndexUnique, AgeFollowsRing, Used
  <2>6. QED
    BY <2>1, <2>2, <2>3, <2>4, <2>5 DEF Next
<1>3. QED
  BY <1>1, <1>2, PTL DEF Spec

(***************************************************************************)
(* The sector after the newest is blank or the oldest, so erasing the      *)
(* oldest sector is what makes room for the next one.                      *)
(***************************************************************************)
THEOREM RoomForOneErase == Spec => []RoomAfterNewest
<1>1. OrderInv => RoomAfterNewest
  <2> SUFFICES ASSUME OrderInv, NEW s \in Used, Newest(s), idx[Succ(s)] # 0
               PROVE  Oldest(Succ(s))
    BY DEF RoomAfterNewest
  <2>0. \A t \in Sector : idx[t] \in Nat
    BY IndexIsNat DEF OrderInv
  <2>1. s \in Sector /\ Succ(s) \in Sector /\ Pred(Succ(s)) = s
    BY RingStep DEF Used
  <2>2. Succ(s) \in Used
    BY <2>1 DEF Used
  <2>3. ASSUME NEW t \in Used, idx[t] < idx[Succ(s)]
        PROVE  FALSE
    <3>1. idx[s] < idx[Succ(s)]
      BY <2>1, <2>2, <2>3 DEF OrderInv, AgeFollowsRing
    <3>2. idx[Succ(s)] <= idx[s]
      BY <2>2 DEF Newest
    <3>3. QED
      BY <2>0, <2>1, <3>1, <3>2
  <2>4. QED
    BY <2>0, <2>1, <2>2, <2>3 DEF Oldest, Used
<1>2. QED
  BY <1>1, OrderInvariant, PTL
=============================================================================
