----------------------------- MODULE SectorRing -----------------------------
(***************************************************************************)
(* What the persistent ring promises about its flash sectors, without the  *)
(* records inside them.  Sectors are filled in ring order; the header of a *)
(* sector carries an index that only grows; a full ring gives up its       *)
(* oldest sector and no other (ring_buffer.h, "sector header").  RingBuffer *)
(* is shown to implement this module.                                      *)
(***************************************************************************)
EXTENDS Integers

CONSTANTS
    N,                  \* number_of_sectors of the ring
    Index               \* the indices a sector header can carry

\* rb_create refuses number_of_sectors < 1; "should range from 1" (ring_buffer.c:76).
ASSUME NAssumption == N \in Nat /\ N >= 1
ASSUME IndexAssumption == Index \subseteq Nat \ {0}

VARIABLE idx            \* idx[s]: index in the header of sector s, 0 if blank

vars == <<idx>>

Sector == 0 .. N - 1

\* The ring order: "from first sector to last always and then wrap".
Succ(s) == IF s = N - 1 THEN 0 ELSE s + 1
Pred(s) == IF s = 0 THEN N - 1 ELSE s - 1

Used == {s \in Sector : idx[s] # 0}

Newest(s) == s \in Used /\ \A t \in Used : idx[t] <= idx[s]
Oldest(s) == s \in Used /\ \A t \in Used : idx[s] <= idx[t]

TypeOK == idx \in [Sector -> Index \cup {0}]

Init == idx = [s \in Sector |-> 0]

(***************************************************************************)
(* The first sector header of an erased ring goes to sector 0.             *)
(***************************************************************************)
FirstSector ==
    /\ Used = {}
    /\ \E n \in Index : idx' = [idx EXCEPT ![0] = n]

\* Mutants of NextSector: the index is not counted up; any blank sector will do.
NextSector_SameIndex(s) ==
    /\ Newest(s)
    /\ idx[Succ(s)] = 0
    /\ idx' = [idx EXCEPT ![Succ(s)] = idx[s]]
NextSector_AnyBlank(s) ==
    /\ Newest(s)
    /\ \E t \in Sector, n \in Index :
         idx[t] = 0 /\ n > idx[s] /\ idx' = [idx EXCEPT ![t] = n]

(***************************************************************************)
(* The append reaches the end of the newest sector and its successor is    *)
(* blank: the successor gets a larger index than any sector has.           *)
(***************************************************************************)
NextSector(s) ==
    /\ Newest(s)
    /\ idx[Succ(s)] = 0
    /\ \E n \in Index : n > idx[s] /\ idx' = [idx EXCEPT ![Succ(s)] = n]

\* The append needs room and erases the oldest sector.
EraseOldest(s) ==
    /\ Oldest(s)
    /\ idx' = [idx EXCEPT ![s] = 0]

\* CREATE_INIT_ALWAYS, or CREATE_INIT_IF_FAIL on a ring that failed its check.
Wipe ==
    /\ Used # {}
    /\ idx' = [s \in Sector |-> 0]

Next ==
    \/ FirstSector
    \/ \E s \in Sector : NextSector(s) \/ EraseOldest(s)
    \/ Wipe

Spec == Init /\ [][Next]_vars

-----------------------------------------------------------------------------
(***************************************************************************)
(* Two used sectors never carry the same index, so "oldest" is unambiguous *)
(* (rb_find_ring_oldest_sector compares with <).                           *)
(***************************************************************************)
IndexUnique ==
    \A s, t \in Used : idx[s] = idx[t] => s = t

(***************************************************************************)
(* The used sectors are one arc of the ring, in order of age: whatever     *)
(* sector is not the oldest is preceded in the ring by a sector that is     *)
(* older than it and at least as young as any other older one.             *)
(***************************************************************************)
AgeFollowsRing ==
    \A s, t \in Used :
        idx[t] < idx[s] => /\ Pred(s) \in Used
                           /\ idx[t] <= idx[Pred(s)]
                           /\ idx[Pred(s)] < idx[s]

OrderInv == TypeOK /\ IndexUnique /\ AgeFollowsRing

(***************************************************************************)
(* The sector after the newest one, where the next header will be written, *)
(* is blank or is the oldest: the sector rb_append erases to make room is  *)
(* the one it needs, and one erase is enough.                              *)
(***************************************************************************)
RoomAfterNewest ==
    \A s \in Used : Newest(s) => \/ idx[Succ(s)] = 0
                                 \/ Oldest(Succ(s))

=============================================================================
