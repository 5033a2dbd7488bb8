-------------------------- MODULE RingBufferProofs --------------------------
(***************************************************************************)
(* Two sets of results about RingBuffer, for every geometry and every set  *)
(* of payloads.  Type correctness, for any contexts at once.  And, for one *)
(* context at a time (OneContext), that the flash is a log: no byte is     *)
(* programmed over another, an append writes at the end of the log, it     *)
(* erases one sector at most, it succeeds when the power does not fail,    *)
(* and the sectors are used as SectorRing says.                            *)
(***************************************************************************)
EXTENDS RingBuffer, TLAPS, WellFoundedInduction

(* Numbers *)

\* Multiplication by a natural number is monotone.
LEMMA TimesMonotone ==
    ASSUME NEW x \in Int, NEW y \in Int, NEW m \in Nat, x <= y
    PROVE  x * m <= y * m
  OBVIOUS

\* Division with remainder.
LEMMA DivMod ==
    ASSUME NEW a \in Nat, NEW m \in Nat, m >= 1
    PROVE  /\ a \div m \in Nat
           /\ a % m \in 0 .. m - 1
           /\ a = ((a \div m) * m) + (a % m)
           /\ a % m <= a
<1>1. a % m \in 0 .. m - 1
  OBVIOUS
<1>2. a = (m * (a \div m)) + (a % m) /\ a \div m \in Int
  OBVIOUS
<1>3. a \div m >= 0
  OBVIOUS
<1>4. (a \div m) * m >= 0
  BY <1>2, <1>3
<1>5. (a \div m) * m = m * (a \div m)
  BY <1>2
<1> QED
  BY <1>1, <1>2, <1>3, <1>4, <1>5

\* The remainder is determined by its range.
LEMMA ModUnique ==
    ASSUME NEW q \in Nat, NEW m \in Nat, m >= 1, NEW r \in 0 .. m - 1
    PROVE  ((q * m) + r) % m = r
  OBVIOUS

-----------------------------------------------------------------------------
(* Arithmetic of sectors and pages *)

\* The ring is not empty and its size is a number of sectors.
LEMMA SizeFacts ==
    /\ Size \in Nat /\ Size >= S /\ S >= 1 /\ H < S /\ 0 \in Addr
<1>1. N * S >= 1 * S
  BY TimesMonotone, GeometryAssumption
<1> QED
  BY <1>1, GeometryAssumption DEF Size, Addr

\* The sector of an address of the ring lies in the ring.
LEMMA SectorOfAddr ==
    ASSUME NEW a \in Addr
    PROVE  /\ FLASH_SECTOR(a) \in Addr
           /\ MOD_SECTOR(a) \in 0 .. S - 1
           /\ a = FLASH_SECTOR(a) + MOD_SECTOR(a)
           /\ FLASH_SECTOR(a) + S <= Size
           /\ MOD_SECTOR(FLASH_SECTOR(a)) = 0
           /\ \E q \in Nat : FLASH_SECTOR(a) = q * S
<1> DEFINE q == a \div S
<1>1. a \in Nat /\ a < Size
  BY SizeFacts DEF Addr
<1>2. /\ q \in Nat /\ a % S \in 0 .. S - 1 /\ a = (q * S) + (a % S)
  BY <1>1, DivMod, SizeFacts, GeometryAssumption
<1> HIDE DEF q
<1>3. q * S \in Nat /\ FLASH_SECTOR(a) = q * S
  BY <1>1, <1>2, GeometryAssumption DEF FLASH_SECTOR, MOD_SECTOR
<1>4. q + 1 <= N
  <2>1. SUFFICES ASSUME q >= N PROVE FALSE
    BY <1>2, GeometryAssumption
  <2>2. N * S <= q * S
    BY <2>1, <1>2, TimesMonotone, GeometryAssumption
  <2> QED
    BY <2>2, <1>1, <1>2, <1>3, GeometryAssumption DEF Size
<1>5. (q + 1) * S <= N * S
  BY <1>4, <1>2, TimesMonotone, GeometryAssumption
<1>6. (q + 1) * S = (q * S) + S
  BY <1>2, GeometryAssumption
<1>7. (q * S) + S <= Size
  BY <1>5, <1>6, <1>3, GeometryAssumption DEF Size
<1>8. (q * S) % S = 0
  <2>1. ((q * S) + 0) % S = 0
    BY <1>2, ModUnique, SizeFacts, GeometryAssumption
  <2> QED
    BY <2>1, <1>3
<1>9. q * S \in Addr
  BY <1>3, <1>7, SizeFacts, GeometryAssumption DEF Addr
<1>10. MOD_SECTOR(a) \in 0 .. S - 1 /\ a = FLASH_SECTOR(a) + MOD_SECTOR(a)
  BY <1>1, <1>2, <1>3 DEF MOD_SECTOR
<1>11. MOD_SECTOR(FLASH_SECTOR(a)) = 0
  BY <1>3, <1>8 DEF MOD_SECTOR
<1> QED
  BY <1>2, <1>3, <1>7, <1>9, <1>10, <1>11

\* The start of a sector is an address of the ring.
LEMMA SectorStart ==
    ASSUME NEW s \in Sector
    PROVE  s * S \in Addr /\ MOD_SECTOR(s * S) = 0
<1>1. s \in Nat /\ s + 1 <= N
  BY GeometryAssumption DEF Sector
<1>2. (s + 1) * S <= N * S
  BY <1>1, TimesMonotone, GeometryAssumption
<1>3. (s + 1) * S = (s * S) + S /\ s * S \in Nat
  BY <1>1, GeometryAssumption
<1>4. s * S \in Addr
  BY <1>2, <1>3, SizeFacts, GeometryAssumption DEF Addr, Size
<1>5. ((s * S) + 0) % S = 0
  BY <1>1, ModUnique, SizeFacts, GeometryAssumption
<1> QED
  BY <1>3, <1>4, <1>5 DEF MOD_SECTOR

\* Stepping on from an address, by nextincr or rb_incr, stays in the ring.
LEMMA NextIncrInRing ==
    ASSUME NEW a \in Nat, NEW n \in Nat
    PROVE  nextincr(a, n) \in Addr /\ rb_incr(a, n) \in Addr
<1>1. FLASH_SECTOR(a) \in Nat
  BY DivMod, GeometryAssumption, SizeFacts DEF FLASH_SECTOR, MOD_SECTOR
<1> QED
  BY <1>1, SizeFacts, GeometryAssumption DEF nextincr, rb_incr, Addr

\* The next sector starts in the ring.
LEMMA NextSectorInRing ==
    ASSUME NEW a \in Addr
    PROVE  NextSectorOf(a) \in Addr /\ MOD_SECTOR(NextSectorOf(a)) = 0
<1>1. PICK q \in Nat : FLASH_SECTOR(a) = q * S
  BY SectorOfAddr
<1>2. FLASH_SECTOR(a) \in Nat /\ FLASH_SECTOR(a) \in Addr
  BY SectorOfAddr DEF Addr
<1>3. NextSectorOf(a) \in Addr
  BY <1>2, NextIncrInRing, GeometryAssumption DEF NextSectorOf
<1>4. ((q + 1) * S) + 0 = FLASH_SECTOR(a) + S
  BY <1>1, GeometryAssumption
<1>5. (((q + 1) * S) + 0) % S = 0 /\ ((0 * S) + 0) % S = 0
  BY ModUnique, SizeFacts, GeometryAssumption
<1>6. MOD_SECTOR(FLASH_SECTOR(a) + S) = 0 /\ MOD_SECTOR(0) = 0
  BY <1>4, <1>5, GeometryAssumption DEF MOD_SECTOR
<1> QED
  BY <1>3, <1>6 DEF NextSectorOf, nextincr

\* Stepping over a sector header stays in its sector.
LEMMA FetchedInRing ==
    ASSUME NEW a \in Addr
    PROVE  /\ Fetched(a) \in Addr
           /\ Fetched(a) \in {a, a + H}
           /\ Fetched(a) # a => MOD_SECTOR(a) = 0 /\ MOD_SECTOR(a + H) = H
<1>1. CASE MOD_SECTOR(a) = 0
  <2>1. a = FLASH_SECTOR(a) /\ a + S <= Size /\ a \in Nat
    BY <1>1, SectorOfAddr DEF Addr
  <2>2. a + H \in Addr
    BY <2>1, SizeFacts, GeometryAssumption DEF Addr
  <2>3. PICK q \in Nat : a = q * S
    BY <2>1, SectorOfAddr
  <2>4. (a + H) % S = H
    BY <2>3, ModUnique, SizeFacts, GeometryAssumption
  <2> QED
    BY <1>1, <2>2, <2>4 DEF Fetched, MOD_SECTOR
<1>2. CASE MOD_SECTOR(a) # 0
  BY <1>2 DEF Fetched
<1> QED
  BY <1>1, <1>2
-----------------------------------------------------------------------------
(* Types of cells and of the operators on them *)

\* The record headers among the cells.
HeaderCells == [k : {"hdr"}, id : Ids, len : Nat, split : BOOLEAN,
                live : BOOLEAN, part : 0 .. H - 1]

\* What flash_read finds is a cell.
LEMMA FlashAtIsCell ==
    ASSUME flash \in [Addr -> Cell], NEW a
    PROVE  FlashAt(a) \in Cell
  BY DEF FlashAt, Cell

\* A sector header that passes its check carries an index.
LEMMA SectorIndexType ==
    ASSUME flash \in [Addr -> Cell], NEW a, SectorStatus(a) = RB_OK
    PROVE  SectorIndex(a) \in 0 .. IndexMask
<1>1. FlashAt(a) \in Cell
  BY FlashAtIsCell
<1>2. FlashAt(a).k = "sec"
  BY DEF SectorStatus, RB_OK, RB_BLANK_HDR, RB_BAD_HDR
<1> QED
  BY <1>1, <1>2 DEF Cell, SectorIndex, Blank, Junk, Wild

\* A record header that passes its check is one, and lies in the ring.
LEMMA HeaderType ==
    ASSUME flash \in [Addr -> Cell], NEW a, HeaderStatus(a) = RB_OK
    PROVE  HeaderAt(a) \in HeaderCells /\ a + H - 1 \in Addr
<1>1. FlashAt(a + H - 1) \in Cell
  BY FlashAtIsCell
<1>2. FlashAt(a + H - 1).k = "hdr"
  BY DEF HeaderStatus, HeaderAt, RB_OK, RB_BLANK_HDR, RB_BAD_HDR
<1>3. a + H - 1 \in Addr
  BY <1>2 DEF FlashAt, Junk
<1> QED
  BY <1>1, <1>2, <1>3 DEF Cell, HeaderAt, HeaderCells, Blank, Junk, Wild

\* The three results of the header checks.
LEMMA StatusType ==
    ASSUME NEW a
    PROVE  /\ SectorStatus(a) \in {RB_OK, RB_BLANK_HDR, RB_BAD_HDR}
           /\ HeaderStatus(a) \in {RB_OK, RB_BLANK_HDR, RB_BAD_HDR}
           /\ fetch_and_check_header(a) \in {RB_OK, RB_BLANK_HDR, RB_BAD_HDR}
           /\ fetch_and_check_header(a) = RB_OK => HeaderStatus(Fetched(a)) = RB_OK
<1>1. /\ SectorStatus(a) \in {RB_OK, RB_BLANK_HDR, RB_BAD_HDR}
      /\ HeaderStatus(a) \in {RB_OK, RB_BLANK_HDR, RB_BAD_HDR}
      /\ HeaderStatus(Fetched(a)) \in {RB_OK, RB_BLANK_HDR, RB_BAD_HDR}
  BY DEF SectorStatus, HeaderStatus
<1> QED
  BY <1>1 DEF fetch_and_check_header

\* Programming a cell yields a cell.
LEMMA ProgCellType ==
    ASSUME NEW old \in Cell, NEW new \in Cell
    PROVE  ProgCell(old, new) \in Cell
<1>1. Junk \in Cell
  BY DEF Cell
<1>2. ASSUME old.k = "hdr" PROVE [old EXCEPT !.live = FALSE] \in Cell
  <2>1. old \in HeaderCells
    BY <1>2 DEF Cell, HeaderCells, Blank, Junk, Wild
  <2>2. [old EXCEPT !.live = FALSE] \in HeaderCells
    BY <2>1 DEF HeaderCells
  <2> QED
    BY <2>2 DEF HeaderCells, Cell
<1> QED
  BY <1>1, <1>2 DEF ProgCell

\* A function on 1 .. n is a sequence.
LEMMA CellSeq ==
    ASSUME NEW n \in Nat, NEW f \in [1 .. n -> Cell]
    PROVE  f \in Seq(Cell)
  OBVIOUS

\* The pieces rb_append_page is given are sequences of cells.
LEMMA SegTypes ==
    /\ \A n \in Nat : SectorSeg(n) \in Seq(Cell)
    /\ \A id \in Ids, len \in Nat, split \in BOOLEAN :
         HeaderSeg(id, len, split) \in Seq(Cell)
    /\ \A d \in Seq(Byte), from \in Nat, len \in Nat :
         DataSeg(d, from, len) \in Seq(Cell)
<1>1. ASSUME NEW n \in Nat PROVE SectorSeg(n) \in Seq(Cell)
  <2>1. n % (IndexMask + 1) \in 0 .. IndexMask
    BY DivMod, GeometryAssumption
  <2>2. ASSUME NEW i \in 1 .. H PROVE SecCell(n % (IndexMask + 1), i - 1) \in Cell
    BY <2>1, GeometryAssumption DEF SecCell, Cell
  <2> QED
    BY <2>2, GeometryAssumption DEF SectorSeg
<1>2. ASSUME NEW id \in Ids, NEW len \in Nat, NEW split \in BOOLEAN
      PROVE  HeaderSeg(id, len, split) \in Seq(Cell)
  <2>1. ASSUME NEW i \in 1 .. H PROVE HdrCell(id, len, split, TRUE, i - 1) \in Cell
    <3>1. (TRUE \/ i - 1 # H - 1) = TRUE
      OBVIOUS
    <3>2. HdrCell(id, len, split, TRUE, i - 1)
            = [k |-> "hdr", id |-> id, len |-> len, split |-> split,
               live |-> TRUE, part |-> i - 1]
      BY <3>1, Zenon DEF HdrCell
    <3>3. i - 1 \in 0 .. H - 1
      BY GeometryAssumption
    <3>4. [k |-> "hdr", id |-> id, len |-> len, split |-> split,
           live |-> TRUE, part |-> i - 1] \in HeaderCells
      BY <3>3, Zenon DEF HeaderCells
    <3> QED
      BY <3>2, <3>4, Zenon DEF Cell, HeaderCells
  <2>2. HeaderSeg(id, len, split) \in [1 .. H -> Cell]
    BY <2>1, Zenon DEF HeaderSeg
  <2> QED
    BY <2>2, CellSeq, GeometryAssumption
<1>3. ASSUME NEW d \in Seq(Byte), NEW from \in Nat, NEW len \in Nat
      PROVE  DataSeg(d, from, len) \in Seq(Cell)
  <2>1. ASSUME NEW i \in 1 .. len
        PROVE  (IF from + i <= Len(d) THEN ByteCell(d[from + i]) ELSE Wild) \in Cell
    BY DEF ByteCell, Cell
  <2> QED
    BY <2>1 DEF DataSeg
<1> QED
  BY <1>1, <1>2, <1>3

\* The largest index seen is a number.
LEMMA LargestType ==
    ASSUME flash \in [Addr -> Cell], NEW si \in Nat,
           NEW sectors \in SUBSET SectorIs(RB_OK), NEW m \in Largest(si, sectors)
    PROVE  m \in Nat
<1>1. m \in {si} \cup {SectorIndex(s * S) : s \in sectors}
  BY DEF Largest
<1>2. ASSUME NEW s \in sectors PROVE SectorIndex(s * S) \in Nat
  <2>1. SectorStatus(s * S) = RB_OK
    BY <1>2 DEF SectorIs
  <2> QED
    BY <2>1, SectorIndexType, GeometryAssumption
<1> QED
  BY <1>1, <1>2

\* The scan for the oldest sector ends at the start of a sector of the ring.
LEMMA OldestType ==
    ASSUME flash \in [Addr -> Cell], NEW si \in Nat,
           NEW o \in rb_find_ring_oldest_sector(si)
    PROVE  /\ o.next \in Addr
           /\ MOD_SECTOR(o.next) = 0
           /\ o.sector_index \in Nat
           /\ o.st \in {RB_OK, RB_BLANK_HDR, RB_BAD_HDR}
<1> DEFINE bad == SectorIs(RB_BAD_HDR)
           stop == {s \in bad : \A b \in bad : b <= s}
           good == {s \in SectorIs(RB_OK) : \A b \in bad : b < s}
           oldest == {s \in good :
                        /\ SectorIndex(s * S) < IndexMask
                        /\ \A t \in good :
                             \/ SectorIndex(s * S) < SectorIndex(t * S)
                             \/ SectorIndex(s * S) = SectorIndex(t * S) /\ t <= s}
           at == IF bad # {} THEN stop ELSE IF oldest = {} THEN {0} ELSE oldest
           st == IF bad # {} THEN RB_BAD_HDR ELSE SectorStatus(0)
<1>0. o \in {[st |-> st, next |-> s * S, sector_index |-> m] :
               s \in at, m \in Largest(si, good)}
  BY SMT DEF rb_find_ring_oldest_sector
<1> HIDE DEF at, st, good
<1>1. PICK s \in at, m \in Largest(si, good) :
        o = [st |-> st, next |-> s * S, sector_index |-> m]
  BY <1>0
<1> USE DEF at, st, good
<1>2. at \subseteq Sector
  <2>1. bad \subseteq Sector /\ good \subseteq Sector /\ 0 \in Sector
    BY GeometryAssumption DEF SectorIs, Sector
  <2> QED
    BY <2>1
<1>3. good \in SUBSET SectorIs(RB_OK)
  OBVIOUS
<1>4. m \in Nat
  BY <1>3, LargestType
<1>5. st \in {RB_OK, RB_BLANK_HDR, RB_BAD_HDR}
  BY StatusType
<1> HIDE DEF at, good, st
<1>6. s * S \in Addr /\ MOD_SECTOR(s * S) = 0
  BY <1>2, SectorStart
<1> QED
  BY <1>1, <1>4, <1>5, <1>6

-----------------------------------------------------------------------------
(* The inductive invariant *)

\* Inside rb_append_page there is something left to write,
\* rb_sector_append starts where a header and a byte fit into the sector, and
\* a call under way has a record id.
CallInv ==
    \A c \in Ctx :
        /\ pc[c] \in {"append_page", "partial", "prog"} => fr[c].todo # <<>>
        /\ pc[c] = "sector_append" => MOD_SECTOR(next[c]) <= S - H - 1
        /\ pc[c] \notin {"idle", "closed"} => call[c].id \in Ids

IInv == TypeOK /\ CallInv

\* The locals and the call of an idle context have their types.
LEMMA NothingTypes ==
    NoFrame \in Frame /\ NoCall \in Call /\ BlankPage \in [0 .. B - 1 -> Cell]
        /\ BlankFlash \in [Addr -> Cell]
<1>1. NoFrame \in Frame
  BY SizeFacts DEF NoFrame, Frame
<1>2. NoCall \in Call
  BY DEF NoCall, Call
<1>3. Blank \in Cell
  BY DEF Cell
<1> QED
  BY <1>1, <1>2, <1>3 DEF BlankPage, BlankFlash

\* A call that returns leaves the invariant of its context behind.
LEMMA ReturnKeeps ==
    ASSUME IInv, NEW c \in Ctx, NEW r \in Int, NEW n \in Addr, Return(c, r, n),
           \A x \in Ctx \ {c} : call'[x] = call[x]
    PROVE  /\ pc' \in [Ctx -> Location] /\ ret' \in [Ctx -> Int]
           /\ next' \in [Ctx -> Addr] /\ fr' \in [Ctx -> Frame]
           /\ CallInv'
<1>1. /\ pc' \in [Ctx -> Location] /\ ret' \in [Ctx -> Int]
      /\ next' \in [Ctx -> Addr] /\ fr' \in [Ctx -> Frame]
  BY NothingTypes DEF IInv, TypeOK, Return, Location
<1>2. CallInv'
  BY <1>1 DEF IInv, CallInv, TypeOK, Return
<1> QED
  BY <1>1, <1>2

\* So does one that goes on at l, if l's part of the invariant holds.
LEMMA GotoKeeps ==
    ASSUME IInv, NEW c \in Ctx, NEW l \in Location, NEW n \in Addr, NEW f \in Frame,
           Goto(c, l, n), fr' = [fr EXCEPT ![c] = f],
           l \in {"append_page", "partial", "prog"} => f.todo # <<>>,
           l = "sector_append" => MOD_SECTOR(n) <= S - H - 1,
           \A x \in Ctx \ {c} : call'[x] = call[x],
           call'[c].id \in Ids
    PROVE  /\ pc' \in [Ctx -> Location] /\ ret' \in [Ctx -> Int]
           /\ next' \in [Ctx -> Addr] /\ fr' \in [Ctx -> Frame]
           /\ CallInv'
<1>1. /\ pc' \in [Ctx -> Location] /\ ret' \in [Ctx -> Int]
      /\ next' \in [Ctx -> Addr] /\ fr' \in [Ctx -> Frame]
  BY DEF IInv, TypeOK, Goto
<1>2. CallInv'
  BY <1>1 DEF IInv, CallInv, TypeOK, Goto
<1> QED
  BY <1>1, <1>2

\* A step of a call under way does not change what was called.
LEMMA StepCall ==
    ASSUME IInv, NEW c \in Ctx, pc[c] \notin {"idle", "closed"}, call' = call
    PROVE  /\ call'[c].id \in Ids
           /\ \A x \in Ctx \ {c} : call'[x] = call[x]
  BY DEF IInv, CallInv

\* A frame with some locals changed is a frame.
LEMMA FrameUpdates ==
    ASSUME NEW f \in Frame, NEW a \in Addr, NEW b \in Addr, NEW t \in Nat
    PROVE  /\ [f EXCEPT !.orignext = a] \in Frame
           /\ [f EXCEPT !.total = t, !.readfrom = a] \in Frame
           /\ [f EXCEPT !.found = a, !.total = t, !.readfrom = b] \in Frame
           /\ [f EXCEPT !.erases = f.erases + 1] \in Frame
           /\ [NoFrame EXCEPT !.oldnext = a] \in Frame
           /\ [NoFrame EXCEPT !.readfrom = a] \in Frame
           /\ [NoFrame EXCEPT !.orignext = a] \in Frame
           /\ [NoFrame EXCEPT !.oldnext = a, !.orignext = b] \in Frame
<1>1. /\ [f EXCEPT !.orignext = a] \in Frame
      /\ [f EXCEPT !.total = t, !.readfrom = a] \in Frame
  BY DEF Frame
<1>2. [f EXCEPT !.found = a, !.total = t, !.readfrom = b] \in Frame
  BY DEF Frame
<1>3. [f EXCEPT !.erases = f.erases + 1] \in Frame
  <2>1. f.erases + 1 \in Nat
    BY DEF Frame
  <2> QED
    BY <2>1 DEF Frame
<1>4. NoFrame \in Frame
  BY NothingTypes
<1>5. /\ [NoFrame EXCEPT !.oldnext = a] \in Frame
      /\ [NoFrame EXCEPT !.readfrom = a] \in Frame
      /\ [NoFrame EXCEPT !.orignext = a] \in Frame
  BY <1>4 DEF Frame
<1>6. [NoFrame EXCEPT !.oldnext = a, !.orignext = b] \in Frame
  BY <1>4 DEF Frame
<1> QED
  BY <1>1, <1>2, <1>3, <1>5, <1>6

\* The codes of rb_errors_t are integers, and only RB_OK is not negative.
LEMMA CodesAreInt ==
    /\ RB_OK = 0
    /\ {RB_BAD_CALLER_DATA, RB_BLANK_HDR, RB_BAD_HDR, RB_WRAPPED_SECTOR_USED,
        RB_HDR_LOOP, RB_HDR_ID_NOT_FOUND, RB_FULL} \subseteq {i \in Int : i < 0}
  BY DEF RB_OK, RB_BAD_CALLER_DATA, RB_BLANK_HDR, RB_BAD_HDR,
         RB_WRAPPED_SECTOR_USED, RB_HDR_LOOP, RB_HDR_ID_NOT_FOUND, RB_FULL

\* The control blocks start with everything in its place.
LEMMA InitIInv == Init => IInv
<1> SUFFICES ASSUME Init PROVE IInv
  OBVIOUS
<1>1. RB_OK \in Int
  BY CodesAreInt
<1>2. TypeOK
  BY <1>1, NothingTypes, SizeFacts DEF Init, TypeOK, Location
<1>3. CallInv
  BY DEF Init, CallInv
<1> QED
  BY <1>2, <1>3 DEF IInv

\* rb_recreate leaves rb->next at a sector of the ring.
LEMMA RecreateKeeps ==
    ASSUME IInv, NEW c \in Ctx, NEW choice \in Choices, NEW stale \in StaleIndex,
           Recreate(c, choice, stale)
    PROVE  IInv'
<1>1. stale \in Nat
  BY ParameterAssumption
<1>2. PICK o \in rb_find_ring_oldest_sector(stale),
           m \in Largest(stale, SectorIs(RB_OK)) :
         /\ flash' = flash \/ flash' = BlankFlash
         /\ next' = [next EXCEPT ![c] = 0] \/ next' = [next EXCEPT ![c] = o.next]
         /\ \/ sector_index' = [sector_index EXCEPT ![c] = stale]
            \/ sector_index' = [sector_index EXCEPT ![c] = m]
         /\ \E r \in {RB_OK, rb_check_sector_ring, o.st} : ret' = [ret EXCEPT ![c] = r]
         /\ \E l \in {"idle", "closed"} : pc' = [pc EXCEPT ![c] = l]
         /\ call' = [call EXCEPT ![c] = [NoCall EXCEPT !.fn = "recreate"]]
  BY DEF Recreate
<1>3. flash \in [Addr -> Cell]
  BY DEF IInv, TypeOK
<1>4. m \in Nat
  BY <1>1, <1>3, LargestType
<1>5. o.next \in Addr /\ o.st \in Int
  BY <1>1, <1>3, OldestType, CodesAreInt
<1>6. rb_check_sector_ring \in Int
  BY CodesAreInt DEF rb_check_sector_ring
<1>7. [NoCall EXCEPT !.fn = "recreate"] \in Call
  BY NothingTypes DEF Call
<1>8. flash' \in [Addr -> Cell] /\ next' \in [Ctx -> Addr]
        /\ sector_index' \in [Ctx -> Nat]
  <2>1. flash' \in [Addr -> Cell]
    BY <1>2, <1>3, NothingTypes
  <2>2. next' \in [Ctx -> Addr]
    BY <1>2, <1>5, SizeFacts DEF IInv, TypeOK
  <2>3. sector_index' \in [Ctx -> Nat]
    BY <1>1, <1>2, <1>4 DEF IInv, TypeOK
  <2> QED
    BY <2>1, <2>2, <2>3
<1>9. ret' \in [Ctx -> Int] /\ pc' \in [Ctx -> Location] /\ call' \in [Ctx -> Call]
  BY <1>2, <1>5, <1>6, <1>7, CodesAreInt DEF IInv, TypeOK, Location
<1>10. page' = page /\ fr' = fr
  BY DEF Recreate
<1>11. CallInv'
  BY <1>2, <1>10 DEF IInv, TypeOK, CallInv
<1> QED
  BY <1>8, <1>9, <1>10, <1>11 DEF IInv, TypeOK

\* The scan at the top of rb_append keeps the invariant.
LEMMA AppendOldestKeeps ==
    ASSUME IInv, NEW c \in Ctx, AppendOldest(c)
    PROVE  IInv'
<1>1. PICK o \in rb_find_ring_oldest_sector(sector_index[c]) :
         /\ sector_index' = [sector_index EXCEPT ![c] = o.sector_index]
         /\ \/ Return(c, RB_BAD_HDR, o.next)
            \/ /\ Goto(c, "walk", o.next)
               /\ fr' = [fr EXCEPT ![c].orignext = o.next]
  BY DEF AppendOldest
<1>2. o.next \in Addr /\ o.sector_index \in Nat
  BY OldestType DEF IInv, TypeOK
<1>3. UNCHANGED <<flash, page, call>> /\ sector_index' \in [Ctx -> Nat]
  BY <1>1, <1>2 DEF AppendOldest, IInv, TypeOK
<1>c. call'[c].id \in Ids /\ \A x \in Ctx \ {c} : call'[x] = call[x]
  BY StepCall DEF AppendOldest
<1>4. CASE Return(c, RB_BAD_HDR, o.next)
  BY <1>2, <1>3, <1>4, ReturnKeeps, <1>c, CodesAreInt DEF IInv, TypeOK
<1>5. CASE Goto(c, "walk", o.next) /\ fr' = [fr EXCEPT ![c].orignext = o.next]
  <2> DEFINE f == [fr[c] EXCEPT !.orignext = o.next]
  <2>1. f \in Frame /\ fr' = [fr EXCEPT ![c] = f] /\ "walk" \in Location
    BY <1>2, <1>5, FrameUpdates DEF IInv, TypeOK, Location
  <2> HIDE DEF f
  <2> QED
    BY <1>2, <1>3, <1>5, <2>1, GotoKeeps, <1>c DEF IInv, TypeOK
<1> QED
  BY <1>1, <1>4, <1>5

\* The entry of rb_append keeps the invariant.
LEMMA AppendCallKeeps ==
    ASSUME IInv, NEW c \in Ctx, NEW id \in Ids, NEW d \in Data, NEW e \in EraseIfFull,
           AppendCall(c, id, d, e)
    PROVE  IInv'
<1> DEFINE k == [fn |-> "append", id |-> id, data |-> d, size |-> Len(d), erase |-> e]
<1>1. k \in Call
  <2>1. Len(d) \in Nat /\ e \in BOOLEAN
    BY ParameterAssumption
  <2> QED
    BY <2>1, Zenon DEF Call
<1>2. call' = [call EXCEPT ![c] = k] /\ UNCHANGED <<flash, page, sector_index>>
  BY DEF AppendCall
<1> HIDE DEF k
<1>3. call' \in [Ctx -> Call] /\ next[c] \in Addr
  BY <1>1, <1>2 DEF IInv, TypeOK
<1>c. call'[c].id \in Ids /\ \A x \in Ctx \ {c} : call'[x] = call[x]
  BY <1>2 DEF IInv, TypeOK, k
<1>4. CASE Return(c, RB_BAD_CALLER_DATA, next[c])
  BY <1>2, <1>3, <1>4, ReturnKeeps, <1>c, CodesAreInt DEF IInv, TypeOK
<1>5. CASE /\ Goto(c, "oldest", next[c])
           /\ fr' = [fr EXCEPT ![c] = [NoFrame EXCEPT !.oldnext = next[c]]]
  <2> DEFINE f == [NoFrame EXCEPT !.oldnext = next[c]]
  <2>1. f \in Frame /\ "oldest" \in Location
    BY <1>3, NothingTypes, FrameUpdates DEF Location
  <2> HIDE DEF f
  <2> QED
    BY <1>2, <1>3, <1>5, <2>1, GotoKeeps, <1>c DEF IInv, TypeOK, f
<1> QED
  BY <1>4, <1>5 DEF AppendCall

\* rb_findnext_writeable stays in the ring and stops where a header fits.
LEMMA WalkKeeps ==
    ASSUME IInv, NEW c \in Ctx, Walk(c)
    PROVE  IInv'
<1> DEFINE a == IF MOD_SECTOR(next[c]) > S - H - 1
                THEN NextSectorOf(next[c]) ELSE next[c]
           st == fetch_and_check_header(a)
           after == rb_incr(Fetched(a), HeaderAt(Fetched(a)).len + H)
<1>1. /\ next[c] \in Addr /\ fr[c] \in Frame /\ flash \in [Addr -> Cell]
      /\ fr = [fr EXCEPT ![c] = fr[c]]
  BY DEF IInv, TypeOK
<1>2. a \in Addr /\ MOD_SECTOR(a) <= S - H - 1
  BY <1>1, NextSectorInRing, SectorOfAddr, SizeFacts, GeometryAssumption
<1>3. UNCHANGED <<flash, page, sector_index, call>>
  BY DEF Walk
<1>c. call'[c].id \in Ids /\ \A x \in Ctx \ {c} : call'[x] = call[x]
  BY StepCall DEF Walk
<1>4. \/ st = RB_OK /\ Goto(c, "walk", after) /\ fr' = fr
      \/ st = RB_OK /\ Goto(c, "erase_full", FLASH_SECTOR(after)) /\ fr' = fr
      \/ Return(c, RB_HDR_LOOP, fr[c].oldnext)
      \/ Goto(c, "sector_append", Fetched(a)) /\ fr' = fr
      \/ Return(c, RB_BAD_HDR, fr[c].oldnext)
  BY Zenon DEF Walk
<1> HIDE DEF a, st
<1>5. /\ Fetched(a) \in Addr
      /\ MOD_SECTOR(Fetched(a)) <= S - H - 1
  BY <1>2, FetchedInRing, GeometryAssumption
<1>6. ASSUME st = RB_OK PROVE after \in Addr
  <2>1. HeaderAt(Fetched(a)).len \in Nat
    BY <1>1, <1>6, StatusType, HeaderType DEF st, HeaderCells
  <2>2. Fetched(a) \in Nat /\ HeaderAt(Fetched(a)).len + H \in Nat
    BY <1>5, <2>1, GeometryAssumption DEF Addr
  <2> QED
    BY <2>2, NextIncrInRing
<1> HIDE DEF after
<1>7. CASE st = RB_OK /\ Goto(c, "walk", after) /\ fr' = fr
  BY <1>1, <1>3, <1>6, <1>7, GotoKeeps, <1>c DEF IInv, TypeOK, Location
<1>8. CASE st = RB_OK /\ Goto(c, "erase_full", FLASH_SECTOR(after)) /\ fr' = fr
  <2>1. FLASH_SECTOR(after) \in Addr
    BY <1>6, <1>8, SectorOfAddr
  <2> QED
    BY <1>1, <1>3, <1>8, <2>1, GotoKeeps, <1>c DEF IInv, TypeOK, Location
<1>9. CASE Goto(c, "sector_append", Fetched(a)) /\ fr' = fr
  BY <1>1, <1>3, <1>5, <1>9, GotoKeeps, <1>c DEF IInv, TypeOK, Location
<1>10. CASE Return(c, RB_HDR_LOOP, fr[c].oldnext) \/ Return(c, RB_BAD_HDR, fr[c].oldnext)
  <2>1. fr[c].oldnext \in Addr /\ RB_HDR_LOOP \in Int /\ RB_BAD_HDR \in Int
    BY <1>1, CodesAreInt DEF Frame
  <2> QED
    BY <1>3, <1>10, <2>1, ReturnKeeps, <1>c DEF IInv, TypeOK
<1> QED
  BY <1>4, <1>7, <1>8, <1>9, <1>10

\* Erasing the oldest sector leaves rb->next at its start.
LEMMA EraseOldestKeeps ==
    ASSUME IInv, NEW c \in Ctx, EraseOldest(c)
    PROVE  IInv'
<1>1. PICK o \in rb_find_ring_oldest_sector(sector_index[c]) :
         /\ flash' = [a \in Addr |-> IF FLASH_SECTOR(a) = o.next
                                     THEN Blank ELSE flash[a]]
         /\ sector_index' = [sector_index EXCEPT ![c] = o.sector_index]
         /\ \E l \in {"sector_append", "oldest"} : Goto(c, l, o.next)
  BY DEF EraseOldest
<1>2. /\ o.next \in Addr /\ o.sector_index \in Nat
      /\ MOD_SECTOR(o.next) <= S - H - 1
  BY OldestType, GeometryAssumption DEF IInv, TypeOK
<1>3. flash' \in [Addr -> Cell]
  <2>1. Blank \in Cell
    BY DEF Cell
  <2> QED
    BY <1>1, <2>1 DEF IInv, TypeOK
<1>4. UNCHANGED <<page, call>> /\ sector_index' \in [Ctx -> Nat]
  BY <1>1, <1>2 DEF EraseOldest, IInv, TypeOK
<1>c. call'[c].id \in Ids /\ \A x \in Ctx \ {c} : call'[x] = call[x]
  BY StepCall DEF EraseOldest
<1>5. PICK l \in {"sector_append", "oldest"} : Goto(c, l, o.next)
  BY <1>1
<1> DEFINE f == [fr[c] EXCEPT !.erases = fr[c].erases + 1]
<1>6. fr[c] \in Frame
  BY DEF IInv, TypeOK
<1>7. f \in Frame /\ fr' = [fr EXCEPT ![c] = f] /\ l \in Location
  <2>1. f \in Frame
    BY <1>6, SizeFacts, FrameUpdates
  <2>2. fr' = [fr EXCEPT ![c] = f]
    BY DEF EraseOldest, IInv, TypeOK
  <2> QED
    BY <2>1, <2>2 DEF Location
<1> HIDE DEF f
<1> QED
  BY <1>2, <1>3, <1>4, <1>5, <1>7, GotoKeeps, <1>c DEF IInv, TypeOK

\* Clearing or setting the pieces still to be written gives a frame again.
LEMMA TodoFrame ==
    ASSUME NEW f \in Frame, NEW t \in Seq(Seq(Cell))
    PROVE  /\ [f EXCEPT !.todo = t] \in Frame
           /\ [f EXCEPT !.todo = t].todo = t
  BY DEF Frame

\* The headers and the data of a record are at least two pieces.
LEMMA RecordSegsType ==
    ASSUME NEW a \in Nat, NEW n \in Nat, NEW hdr \in Seq(Cell), NEW data \in Seq(Cell)
    PROVE  RecordSegs(a, n, hdr, data) \in Seq(Seq(Cell))
           /\ RecordSegs(a, n, hdr, data) # <<>>
<1>1. SectorSeg(n) \in Seq(Cell)
  BY SegTypes
<1> QED
  BY <1>1 DEF RecordSegs

\* The first part of a split record fills its sector: the second part starts
\* at the start of the next one, or behind its sector header.
LEMMA SplitBoundary ==
    ASSUME NEW a \in Addr, NEW start \in {a, a + H},
           NEW m, m = S - MOD_SECTOR(a)
    PROVE  /\ (start + m) % Size \in Nat
           /\ MOD_SECTOR((start + m) % Size) \in {0, H}
<1> DEFINE x == IF start = a THEN 0 ELSE H
           e == FLASH_SECTOR(a) + S
<1>1. /\ a \in Nat /\ H \in Nat /\ S \in Nat /\ H < S /\ S >= 1
      /\ Size \in Nat /\ Size >= S /\ x \in 0 .. S - 1 /\ x \in {0, H}
  BY SizeFacts, GeometryAssumption DEF Addr
<1>2. PICK q \in Nat : FLASH_SECTOR(a) = q * S
  BY SectorOfAddr
<1>3. /\ FLASH_SECTOR(a) \in Nat /\ e \in Nat /\ e <= Size
      /\ MOD_SECTOR(a) \in 0 .. S - 1 /\ a = FLASH_SECTOR(a) + MOD_SECTOR(a)
  <2>1. FLASH_SECTOR(a) \in Addr /\ FLASH_SECTOR(a) + S <= Size
    BY SectorOfAddr
  <2>2. MOD_SECTOR(a) \in 0 .. S - 1 /\ a = FLASH_SECTOR(a) + MOD_SECTOR(a)
    BY SectorOfAddr
  <2>3. FLASH_SECTOR(a) \in Nat
    BY <1>1, <2>1 DEF Addr
  <2> QED
    BY <1>1, <2>1, <2>2, <2>3
<1>4. start + m = e + x
  BY <1>1, <1>3
<1> HIDE DEF x
<1>5. CASE e = Size
  <2>1. Size >= 1 /\ x \in 0 .. Size - 1
    BY <1>1
  <2>2. ((1 * Size) + x) % Size = x /\ ((0 * S) + x) % S = x
    BY <1>1, <2>1, ModUnique
  <2>3. (start + m) % Size = x
    BY <1>1, <1>4, <1>5, <2>2
  <2>4. x % S = x
    BY <1>1, <2>2
  <2> QED
    BY <1>1, <2>3, <2>4 DEF MOD_SECTOR
<1>6. CASE e < Size
  <2>1. /\ (q + 1) * S = e /\ q + 1 \in Nat
    BY <1>1, <1>2
  <2>2. ((q + 1) * S + x) % S = x
    BY <1>1, <2>1, ModUnique
  <2>3. q + 2 <= N
    <3>1. SUFFICES ASSUME q + 1 >= N PROVE FALSE
      BY <2>1, GeometryAssumption
    <3>2. N * S <= (q + 1) * S
      BY <3>1, TimesMonotone, GeometryAssumption
    <3> QED
      BY <1>1, <1>3, <1>6, <2>1, <3>2 DEF Size
  <2>4. e + S <= Size
    <3>1. (q + 2) * S <= N * S
      BY <2>3, TimesMonotone, GeometryAssumption
    <3>2. (q + 2) * S = e + S
      BY <1>2, GeometryAssumption
    <3> QED
      BY <3>1, <3>2 DEF Size
  <2> HIDE DEF e
  <2>5. e + x \in 0 .. Size - 1
    BY <1>1, <1>3, <2>4
  <2>6. ((0 * Size) + (e + x)) % Size = e + x
    BY <1>1, <2>5, ModUnique
  <2>7. (start + m) % Size = e + x
    BY <1>1, <1>3, <1>4, <2>6
  <2> QED
    BY <1>1, <1>3, <2>1, <2>2, <2>7 DEF MOD_SECTOR
<1> QED
  BY <1>1, <1>3, <1>5, <1>6

\* Giving up for want of room keeps the invariant.
LEMMA NoRoomKeeps ==
    ASSUME IInv, NEW c \in Ctx, NEW r \in Int, NoRoom(c, r),
           pc[c] \notin {"idle", "closed"}, UNCHANGED <<flash, page, sector_index, call>>
    PROVE  IInv'
<1>1. /\ next[c] \in Addr /\ fr[c] \in Frame /\ fr[c].oldnext \in Addr
      /\ fr = [fr EXCEPT ![c] = fr[c]] /\ "erase_retry" \in Location
  BY DEF IInv, TypeOK, Frame, Location
<1>c. call'[c].id \in Ids /\ \A x \in Ctx \ {c} : call'[x] = call[x]
  BY StepCall
<1>2. CASE Goto(c, "erase_retry", next[c]) /\ fr' = fr
  BY <1>1, <1>2, <1>c, GotoKeeps DEF IInv, TypeOK
<1>3. CASE Return(c, r, fr[c].oldnext)
  BY <1>1, <1>3, <1>c, ReturnKeeps DEF IInv, TypeOK
<1> QED
  BY <1>2, <1>3 DEF NoRoom

\* Starting to write keeps the invariant.
LEMMA WriteKeeps ==
    ASSUME IInv, NEW c \in Ctx, NEW a \in Addr, NEW t \in Seq(Seq(Cell)), t # <<>>,
           Goto(c, "append_page", a), fr' = [fr EXCEPT ![c].todo = t],
           sector_index' \in [Ctx -> Nat], UNCHANGED <<flash, page, call>>,
           pc[c] \notin {"idle", "closed"}
    PROVE  IInv'
<1> DEFINE f == [fr[c] EXCEPT !.todo = t]
<1>1. fr[c] \in Frame
  BY DEF IInv, TypeOK
<1>2. f \in Frame /\ f.todo # <<>> /\ fr' = [fr EXCEPT ![c] = f]
      /\ "append_page" \in Location
  BY <1>1, TodoFrame DEF IInv, TypeOK, Location
<1>c. call'[c].id \in Ids /\ \A x \in Ctx \ {c} : call'[x] = call[x]
  BY StepCall
<1> HIDE DEF f
<1> QED
  BY <1>2, <1>c, GotoKeeps DEF IInv, TypeOK

\* rb_sector_append writes to an address of the ring, and never a part of
\* negative length.
LEMMA SectorAppendKeeps ==
    ASSUME IInv, NEW c \in Ctx, SectorAppend(c)
    PROVE  IInv'
<1> DEFINE a == next[c]
           id == call[c].id
           d == call[c].data
           size == call[c].size
           rest == S - MOD_SECTOR(a)
           probe == fetch_and_check_header(NextSectorOf(a))
           start == a + Fetched(NextSectorOf(a)) - NextSectorOf(a)
           first == Minimum(rest - H, size)
           boundary == (start + H + first) % Size
           second == Minimum(size - first, S - MOD_SECTOR(boundary) - H)
           si == sector_index[c] + 1
           whole == RecordSegs(a, si, HeaderSeg(id, size, FALSE), DataSeg(d, 0, size))
           head == RecordSegs(start, si, HeaderSeg(id, first, FALSE), DataSeg(d, 0, first))
           tail == RecordSegs(boundary, si,
                              HeaderSeg(id, IF second = 0 THEN first ELSE second, TRUE),
                              DataSeg(d, second, second))
<1>1. /\ pc[c] = "sector_append" /\ UNCHANGED <<flash, page, call>>
      /\ pc[c] \notin {"idle", "closed"}
  BY DEF SectorAppend
<1>2. \/ Return(c, RB_BAD_CALLER_DATA, fr[c].oldnext) /\ sector_index' = sector_index
      \/ NoRoom(c, RB_FULL) /\ sector_index' = sector_index
      \/ /\ Goto(c, "append_page", a) /\ fr' = [fr EXCEPT ![c].todo = whole]
         /\ \E n \in {si, sector_index[c]} :
              sector_index' = [sector_index EXCEPT ![c] = n]
      \/ /\ size + H >= rest
         /\ Goto(c, "append_page", start) /\ fr' = [fr EXCEPT ![c].todo = head \o tail]
         /\ \E n \in {si, sector_index[c]} :
              sector_index' = [sector_index EXCEPT ![c] = n]
      \/ /\ NoRoom(c, IF probe = RB_OK THEN RB_WRAPPED_SECTOR_USED ELSE probe)
         /\ sector_index' = sector_index
  BY Zenon DEF SectorAppend
<1>3. /\ a \in Addr /\ a \in Nat /\ size \in Nat /\ d \in Seq(Byte) /\ id \in Ids
      /\ MOD_SECTOR(a) \in 0 .. S - H - 1 /\ si \in Nat /\ fr[c].oldnext \in Addr
  <2>1. a \in Addr /\ call[c] \in Call /\ si \in Nat /\ fr[c].oldnext \in Addr
    BY DEF IInv, TypeOK, Frame
  <2>2. a \in Nat /\ MOD_SECTOR(a) \in 0 .. S - 1
    BY <2>1, SectorOfAddr, SizeFacts DEF Addr
  <2>3. id \in Ids /\ MOD_SECTOR(a) <= S - H - 1
    BY <1>1 DEF IInv, CallInv
  <2>4. size \in Nat /\ d \in Data \cup {<<>>}
    BY <2>1 DEF Call
  <2>5. d \in Seq(Byte)
    <3>1. <<>> \in Seq(Byte)
      OBVIOUS
    <3> QED
      BY <2>4, <3>1, ParameterAssumption
  <2> QED
    BY <2>1, <2>2, <2>3, <2>4, <2>5, GeometryAssumption
<1>4. probe \in Int
  BY StatusType, CodesAreInt
<1>5. whole \in Seq(Seq(Cell)) /\ whole # <<>>
  <2>1. HeaderSeg(id, size, FALSE) \in Seq(Cell) /\ DataSeg(d, 0, size) \in Seq(Cell)
    BY <1>3, SegTypes
  <2> QED
    BY <1>3, <2>1, RecordSegsType
<1>6. start \in {a, a + H} /\ start \in Addr
  <2> DEFINE nx == NextSectorOf(a)
  <2>1. nx \in Addr
    BY <1>3, NextSectorInRing
  <2>2. Fetched(nx) \in {nx, nx + H} /\ nx \in Nat
    BY <2>1, FetchedInRing DEF Addr
  <2>3. start \in {a, a + H}
    <3> HIDE DEF nx
    <3>1. a + Fetched(nx) - nx \in {a, a + H}
      BY <1>3, <2>2, GeometryAssumption
    <3> QED
      BY <3>1 DEF nx
  <2>4. a + H \in Addr
    <3>1. FLASH_SECTOR(a) + S <= Size /\ a = FLASH_SECTOR(a) + MOD_SECTOR(a)
      BY <1>3, SectorOfAddr
    <3>2. FLASH_SECTOR(a) \in Int
      <4>1. FLASH_SECTOR(a) \in Addr
        BY <1>3, SectorOfAddr
      <4> QED
        BY <4>1, SizeFacts DEF Addr
    <3>3. a + H \in Nat /\ a + H < Size
      <4> HIDE DEF a
      <4>1. S \in Int /\ H \in Nat /\ Size \in Nat /\ H >= 1 /\ MOD_SECTOR(a) \in Int
        BY <1>3, SizeFacts, GeometryAssumption
      <4> QED
        BY <1>3, <3>1, <3>2, <4>1
    <3> QED
      BY <3>3, SizeFacts DEF Addr
  <2> QED
    BY <1>3, <2>3, <2>4
<1> HIDE DEF start
<1>7. first \in Nat
  BY <1>3, GeometryAssumption DEF Minimum
<1>8. ASSUME size + H >= rest
      PROVE  head \o tail \in Seq(Seq(Cell)) /\ head \o tail # <<>>
  <2>1. first = rest - H
    <3>1. rest \in Int /\ H \in Int /\ size \in Int /\ size + H >= rest
      BY <1>3, <1>8, GeometryAssumption
    <3> HIDE DEF rest
    <3> QED
      BY ONLY <3>1 DEF Minimum
  <2>2. start + H + first = start + rest
    BY <1>3, <1>6, <2>1, GeometryAssumption DEF Addr
  <2>3. boundary \in Nat /\ MOD_SECTOR(boundary) \in {0, H}
    BY <1>3, <1>6, <2>2, SplitBoundary
  <2>4. size - first \in Nat
    <3>1. rest \in Int /\ H \in Int /\ size \in Nat
      BY <1>3, GeometryAssumption
    <3> HIDE DEF rest, size, first
    <3> QED
      BY <1>8, <2>1, <3>1
  <2> HIDE DEF boundary, first
  <2>5. second \in Nat
    BY <2>3, <2>4, GeometryAssumption DEF Minimum
  <2> HIDE DEF second
  <2>6. head \in Seq(Seq(Cell)) /\ head # <<>>
    <3>1. HeaderSeg(id, first, FALSE) \in Seq(Cell) /\ DataSeg(d, 0, first) \in Seq(Cell)
      BY <1>3, <1>7, SegTypes
    <3>2. start \in Nat
      BY <1>6, <1>3, GeometryAssumption
    <3> QED
      BY <1>3, <3>1, <3>2, RecordSegsType
  <2>7. tail \in Seq(Seq(Cell))
    <3>1. (IF second = 0 THEN first ELSE second) \in Nat
      BY <1>7, <2>5
    <3>2. /\ HeaderSeg(id, IF second = 0 THEN first ELSE second, TRUE) \in Seq(Cell)
          /\ DataSeg(d, second, second) \in Seq(Cell)
      BY <1>3, <2>5, <3>1, SegTypes
    <3> QED
      BY <1>3, <2>3, <3>2, RecordSegsType
  <2> HIDE DEF head, tail
  <2> QED
    BY <2>6, <2>7
<1> HIDE DEF whole, head, tail, probe, rest, size
<1>9. ASSUME \E n \in {si, sector_index[c]} : sector_index' = [sector_index EXCEPT ![c] = n]
      PROVE  sector_index' \in [Ctx -> Nat]
  BY <1>3, <1>9 DEF IInv, TypeOK
<1>10. CASE Return(c, RB_BAD_CALLER_DATA, fr[c].oldnext) /\ sector_index' = sector_index
  BY <1>1, <1>3, <1>10, StepCall, ReturnKeeps, CodesAreInt DEF IInv, TypeOK
<1>11. CASE NoRoom(c, RB_FULL) /\ sector_index' = sector_index
  BY <1>1, <1>11, NoRoomKeeps, CodesAreInt
<1>12. CASE /\ NoRoom(c, IF probe = RB_OK THEN RB_WRAPPED_SECTOR_USED ELSE probe)
            /\ sector_index' = sector_index
  BY <1>1, <1>4, <1>12, NoRoomKeeps, CodesAreInt
<1>13. CASE /\ Goto(c, "append_page", a) /\ fr' = [fr EXCEPT ![c].todo = whole]
            /\ \E n \in {si, sector_index[c]} :
                 sector_index' = [sector_index EXCEPT ![c] = n]
  BY <1>1, <1>3, <1>5, <1>9, <1>13, WriteKeeps
<1>14. CASE /\ size + H >= rest
            /\ Goto(c, "append_page", start) /\ fr' = [fr EXCEPT ![c].todo = head \o tail]
            /\ \E n \in {si, sector_index[c]} :
                 sector_index' = [sector_index EXCEPT ![c] = n]
  BY <1>1, <1>6, <1>8, <1>9, <1>14, WriteKeeps
<1> QED
  BY <1>2, <1>10, <1>11, <1>12, <1>13, <1>14

\* A sequence that is not empty has a head and a tail.
LEMMA HeadTailType ==
    ASSUME NEW T, NEW s \in Seq(T), s # <<>>
    PROVE  Head(s) \in T /\ Tail(s) \in Seq(T)
  OBVIOUS

\* What is written to a page comes from the piece at the head of todo.
LEMMA WrittenFacts ==
    ASSUME IInv, NEW c \in Ctx, pc[c] \in {"append_page", "partial", "prog"}
    PROVE  /\ Head(fr[c].todo) \in Seq(Cell) /\ Tail(fr[c].todo) \in Seq(Seq(Cell))
           /\ next[c] \in Nat /\ MOD_PAGE(next[c]) \in 0 .. P - 1
           /\ Written(c) \in 0 .. Len(Head(fr[c].todo))
<1>1. fr[c].todo \in Seq(Seq(Cell)) /\ fr[c].todo # <<>> /\ next[c] \in Nat
  <2>1. fr[c] \in Frame /\ next[c] \in Addr /\ fr[c].todo # <<>>
    BY DEF IInv, TypeOK, CallInv
  <2>2. fr[c].todo \in Seq(Seq(Cell))
    BY <2>1 DEF Frame
  <2> QED
    BY <2>1, <2>2, SizeFacts DEF Addr
<1>2. Head(fr[c].todo) \in Seq(Cell) /\ Tail(fr[c].todo) \in Seq(Seq(Cell))
  BY <1>1, HeadTailType
<1>3. MOD_PAGE(next[c]) \in 0 .. P - 1
  <2>1. P \in Nat /\ P >= 1
    BY GeometryAssumption
  <2>2. next[c] % P \in 0 .. P - 1
    BY <1>1, <2>1, DivMod
  <2> QED
    BY <2>2 DEF MOD_PAGE
<1>4. Len(Head(fr[c].todo)) \in Nat
  BY <1>2
<1>5. Written(c) \in 0 .. Len(Head(fr[c].todo))
  BY <1>3, <1>4, GeometryAssumption DEF Written, Minimum
<1> QED
  BY <1>1, <1>2, <1>3, <1>5

\* Filling the page buffer reads only the piece it is given.
LEMMA FillPageKeeps ==
    ASSUME IInv, NEW c \in Ctx, FillPage(c)
    PROVE  IInv'
<1> DEFINE b == BufOf[c]
           off == MOD_PAGE(next[c])
           seg == Head(fr[c].todo)
           under(i) == IF pc[c] = "append_page" /\ i < P THEN Blank ELSE page[b][i]
           cell(i) == IF i \in off .. off + Written(c) - 1 THEN seg[i - off + 1] ELSE under(i)
           buf == [i \in 0 .. B - 1 |-> cell(i)]
<1>1. /\ pc[c] \in {"append_page", "partial"} /\ page' = [page EXCEPT ![b] = buf]
      /\ Goto(c, "prog", next[c]) /\ UNCHANGED <<flash, sector_index, call, fr>>
  BY DEF FillPage
<1>2. /\ seg \in Seq(Cell) /\ off \in 0 .. P - 1 /\ Written(c) \in 0 .. Len(seg)
  BY <1>1, WrittenFacts
<1>3. b \in Buffer /\ page[b] \in [0 .. B - 1 -> Cell] /\ page \in [Buffer -> [0 .. B - 1 -> Cell]]
  BY ParameterAssumption DEF IInv, TypeOK
<1>4. ASSUME NEW i \in 0 .. B - 1 PROVE cell(i) \in Cell
  <2>1. Blank \in Cell
    BY DEF Cell
  <2>2. under(i) \in Cell
    BY <1>3, <2>1
  <2>3. ASSUME i \in off .. off + Written(c) - 1 PROVE seg[i - off + 1] \in Cell
    <3> HIDE DEF seg, off
    <3>1. i - off + 1 \in 1 .. Len(seg)
      BY <1>2, <2>3
    <3> QED
      BY <1>2, <3>1
  <2> HIDE DEF under, seg, off
  <2> QED
    BY <2>2, <2>3
<1> HIDE DEF cell
<1>5. buf \in [0 .. B - 1 -> Cell]
  BY <1>4
<1> HIDE DEF buf, b
<1>6. page' \in [Buffer -> [0 .. B - 1 -> Cell]]
  BY <1>1, <1>3, <1>5
<1>7. /\ next[c] \in Addr /\ fr[c] \in Frame /\ fr[c].todo # <<>>
      /\ fr' = [fr EXCEPT ![c] = fr[c]] /\ "prog" \in Location
  BY <1>1 DEF IInv, TypeOK, CallInv, Location
<1>c. call'[c].id \in Ids /\ \A x \in Ctx \ {c} : call'[x] = call[x]
  BY <1>1, StepCall
<1> QED
  BY <1>1, <1>6, <1>7, <1>c, GotoKeeps DEF IInv, TypeOK

\* Programming a page takes every cell from the page buffer, and goes on in
\* the ring with what is left.
LEMMA ProgPageKeeps ==
    ASSUME IInv, NEW c \in Ctx, ProgPage(c)
    PROVE  IInv'
<1> DEFINE b == BufOf[c]
           from == FLASH_PAGE(next[c])
           seg == Head(fr[c].todo)
           left == SubSeq(seg, Written(c) + 1, Len(seg))
           todo == IF left = <<>> THEN Tail(fr[c].todo) ELSE <<left>> \o Tail(fr[c].todo)
           clean == [i \in 0 .. B - 1 |-> IF i < P THEN Blank ELSE page[b][i]]
<1>1. /\ pc[c] = "prog" /\ UNCHANGED <<sector_index, call>>
      /\ page' = [page EXCEPT ![b] = clean]
      /\ flash' = [a \in Addr |-> IF FLASH_PAGE(a) = from
                                  THEN ProgCell(flash[a], page[b][a - from])
                                  ELSE flash[a]]
  BY DEF ProgPage
<1>2. \/ Return(c, RB_OK, fr[c].oldnext)
      \/ /\ todo # <<>> /\ fr' = [fr EXCEPT ![c].todo = todo]
         /\ \E l \in {"append_page", "partial"} :
              Goto(c, l, nextincr(next[c], Written(c)))
  BY DEF ProgPage
<1>3. /\ b \in Buffer /\ page[b] \in [0 .. B - 1 -> Cell]
      /\ page \in [Buffer -> [0 .. B - 1 -> Cell]] /\ flash \in [Addr -> Cell]
  BY ParameterAssumption DEF IInv, TypeOK
<1>4. /\ seg \in Seq(Cell) /\ Tail(fr[c].todo) \in Seq(Seq(Cell)) /\ next[c] \in Nat
      /\ Written(c) \in 0 .. Len(seg)
  BY <1>1, WrittenFacts
<1>5. page' \in [Buffer -> [0 .. B - 1 -> Cell]]
  <2>1. clean \in [0 .. B - 1 -> Cell]
    <3>1. Blank \in Cell
      BY DEF Cell
    <3> QED
      BY <1>3, <3>1
  <2> HIDE DEF clean, b
  <2> QED
    BY <1>1, <1>3, <2>1
<1>6. flash' \in [Addr -> Cell]
  <2>1. ASSUME NEW a \in Addr, FLASH_PAGE(a) = from
        PROVE  ProgCell(flash[a], page[b][a - from]) \in Cell
    <3>1. a \in Nat
      BY SizeFacts DEF Addr
    <3>2. a % P \in 0 .. P - 1
      BY <3>1, DivMod, GeometryAssumption
    <3>3. a - from = a % P
      BY <2>1, <3>1, <3>2 DEF FLASH_PAGE, MOD_PAGE
    <3>4. a - from \in 0 .. B - 1
      BY <3>2, <3>3, GeometryAssumption
    <3> QED
      BY <1>3, <3>4, ProgCellType
  <2> HIDE DEF from, b
  <2> QED
    BY <1>1, <1>3, <2>1
<1>7. todo \in Seq(Seq(Cell))
  <2>1. left \in Seq(Cell)
    BY <1>4
  <2> HIDE DEF left
  <2> QED
    BY <1>4, <2>1
<1> HIDE DEF todo, seg
<1>8. nextincr(next[c], Written(c)) \in Addr
  <2>1. Written(c) \in Nat
    BY <1>4
  <2> QED
    BY <1>4, <2>1, NextIncrInRing
<1>9. fr[c] \in Frame /\ fr[c].oldnext \in Addr
  BY DEF IInv, TypeOK, Frame
<1>c. call'[c].id \in Ids /\ \A x \in Ctx \ {c} : call'[x] = call[x]
  BY <1>1, StepCall
<1>10. CASE Return(c, RB_OK, fr[c].oldnext)
  <2>1. RB_OK \in Int
    BY CodesAreInt
  <2> QED
    BY <1>1, <1>5, <1>6, <1>9, <1>10, <1>c, <2>1, ReturnKeeps DEF IInv, TypeOK
<1>11. ASSUME todo # <<>>, fr' = [fr EXCEPT ![c].todo = todo],
              NEW l \in {"append_page", "partial"},
              Goto(c, l, nextincr(next[c], Written(c)))
       PROVE  IInv'
  <2> DEFINE f == [fr[c] EXCEPT !.todo = todo]
  <2>1. f \in Frame /\ f.todo # <<>> /\ fr' = [fr EXCEPT ![c] = f] /\ l \in Location
    BY <1>7, <1>9, <1>11, TodoFrame DEF IInv, TypeOK, Location
  <2> HIDE DEF f
  <2>2. /\ pc' \in [Ctx -> Location] /\ ret' \in [Ctx -> Int]
        /\ next' \in [Ctx -> Addr] /\ fr' \in [Ctx -> Frame]
        /\ CallInv'
    BY <1>8, <1>11, <1>c, <2>1, GotoKeeps
  <2> QED
    BY <1>1, <1>5, <1>6, <2>2 DEF IInv, TypeOK
<1> QED
  BY <1>2, <1>10, <1>11

-----------------------------------------------------------------------------
(* Reading, finding and deleting *)

\* The entry of rb_read keeps the invariant.
LEMMA ReadCallKeeps ==
    ASSUME IInv, NEW c \in Ctx, NEW id \in Ids, NEW size \in ReadSizes,
           ReadCall(c, id, size)
    PROVE  IInv'
<1> DEFINE k == [NoCall EXCEPT !.fn = "read", !.id = id, !.size = size]
           f == [NoFrame EXCEPT !.readfrom = FLASH_SECTOR(next[c])]
<1>1. k \in Call /\ k.id = id
  <2>1. size \in Nat
    BY ParameterAssumption, GeometryAssumption
  <2> QED
    BY <2>1, NothingTypes DEF Call
<1>2. /\ call' = [call EXCEPT ![c] = k] /\ UNCHANGED <<flash, page, sector_index>>
      /\ \/ Return(c, RB_BAD_CALLER_DATA, next[c])
         \/ Goto(c, "read", next[c]) /\ fr' = [fr EXCEPT ![c] = f]
  BY DEF ReadCall
<1> HIDE DEF k
<1>3. call' \in [Ctx -> Call] /\ next[c] \in Addr /\ FLASH_SECTOR(next[c]) \in Addr
  BY <1>1, <1>2, SectorOfAddr DEF IInv, TypeOK
<1>c. call'[c].id \in Ids /\ \A x \in Ctx \ {c} : call'[x] = call[x]
  BY <1>1, <1>2 DEF IInv, TypeOK
<1>4. f \in Frame /\ "read" \in Location
  BY <1>3, NothingTypes, FrameUpdates DEF Location
<1> HIDE DEF f
<1>5. CASE Return(c, RB_BAD_CALLER_DATA, next[c])
  BY <1>2, <1>3, <1>5, <1>c, ReturnKeeps, CodesAreInt DEF IInv, TypeOK
<1>6. CASE Goto(c, "read", next[c]) /\ fr' = [fr EXCEPT ![c] = f]
  BY <1>2, <1>3, <1>4, <1>6, <1>c, GotoKeeps DEF IInv, TypeOK
<1> QED
  BY <1>2, <1>5, <1>6

\* rb_read comes back to its caller or to rb_find with the invariant.
LEMMA ReadReturnKeeps ==
    ASSUME IInv, NEW c \in Ctx, NEW r \in Int, NEW n \in Addr, ReadReturn(c, r, n),
           pc[c] = "read", UNCHANGED <<flash, sector_index, call>>,
           page' \in [Buffer -> [0 .. B - 1 -> Cell]]
    PROVE  IInv'
<1>c. call'[c].id \in Ids /\ \A x \in Ctx \ {c} : call'[x] = call[x]
  BY StepCall
<1>1. CASE Return(c, r, n)
  BY <1>1, <1>c, ReturnKeeps DEF IInv, TypeOK
<1>2. CASE /\ pc' = [pc EXCEPT ![c] = "compare"] /\ ret' = [ret EXCEPT ![c] = r]
           /\ next' = [next EXCEPT ![c] = n] /\ fr' = fr
  <2>1. TypeOK'
    BY <1>2 DEF IInv, TypeOK, Location
  <2>2. CallInv'
    BY <1>2, <1>c DEF IInv, TypeOK, CallInv
  <2> QED
    BY <2>1, <2>2 DEF IInv
<1> QED
  BY <1>1, <1>2 DEF ReadReturn

\* The loop of rb_read stays in the ring, whatever the lengths it finds.
LEMMA ReadStepKeeps ==
    ASSUME IInv, NEW c \in Ctx, ReadStep(c)
    PROVE  IInv'
<1> DEFINE st == fetch_and_check_header(next[c])
           a == Fetched(next[c])
           hdr == HeaderAt(a)
           skip == rb_incr(a, hdr.len + H)
           want == call[c].size - fr[c].total
           got == Minimum(hdr.len, want)
           total == fr[c].total + got
           end == rb_incr(a + H, hdr.len)
           peek == fetch_and_check_header(end)
           over == Fetched(end)
           buf == [i \in 0 .. B - 1 |->
                     IF i \in fr[c].total .. total - 1
                     THEN FlashAt(a + H + i - fr[c].total)
                     ELSE page[BufOf[c]][i]]
           Copy == page' = [page EXCEPT ![BufOf[c]] = buf]
<1>1. pc[c] = "read" /\ UNCHANGED <<flash, sector_index, call>>
  BY DEF ReadStep
<1>2. \/ ReadReturn(c, Outer(c, st), a) /\ page' = page
      \/ st = RB_OK /\ Goto(c, "read", skip) /\ page' = page /\ fr' = fr
      \/ st = RB_OK /\ ReadReturn(c, Outer(c, RB_HDR_ID_NOT_FOUND), skip) /\ page' = page
      \/ st = RB_OK /\ ReadReturn(c, Outer(c, RB_BAD_HDR), over) /\ Copy
      \/ /\ st = RB_OK /\ Goto(c, "read", over) /\ Copy
         /\ fr' = [fr EXCEPT ![c].total = total, ![c].readfrom = FLASH_SECTOR(over)]
      \/ /\ st = RB_OK /\ Copy
         /\ ReadReturn(c, total, IF MOD_SECTOR(end) = 0 THEN over ELSE end)
  BY Zenon DEF ReadStep
<1>3. /\ flash \in [Addr -> Cell] /\ page \in [Buffer -> [0 .. B - 1 -> Cell]]
      /\ next[c] \in Addr /\ fr[c] \in Frame /\ fr = [fr EXCEPT ![c] = fr[c]]
      /\ call[c] \in Call /\ BufOf[c] \in Buffer
  BY ParameterAssumption DEF IInv, TypeOK
<1>4. fr[c].total \in Nat /\ call[c].size \in Nat
  BY <1>3 DEF Frame, Call
<1>5. a \in Addr /\ a \in Nat /\ a + H \in Nat
  <2>1. a \in Addr
    BY <1>3, FetchedInRing
  <2> HIDE DEF a
  <2> QED
    BY ONLY <2>1, SizeFacts, GeometryAssumption DEF Addr
<1>6. st \in Int
  BY StatusType, CodesAreInt
<1>7. ASSUME st = RB_OK PROVE hdr.len \in Nat
  BY <1>3, <1>7, StatusType, HeaderType DEF HeaderCells
<1>8. ASSUME NEW e \in Int PROVE Outer(c, e) \in Int
  BY <1>4 DEF Outer
<1>9. ASSUME Copy PROVE page' \in [Buffer -> [0 .. B - 1 -> Cell]]
  <2>1. ASSUME NEW i \in 0 .. B - 1
        PROVE  (IF i \in fr[c].total .. total - 1
                THEN FlashAt(a + H + i - fr[c].total) ELSE page[BufOf[c]][i]) \in Cell
    <3>1. FlashAt(a + H + i - fr[c].total) \in Cell
      BY <1>3, FlashAtIsCell
    <3>2. page[BufOf[c]][i] \in Cell
      BY <1>3
    <3> QED
      BY <3>1, <3>2
  <2>2. buf \in [0 .. B - 1 -> Cell]
    BY <2>1
  <2> HIDE DEF buf
  <2> QED
    BY <1>3, <1>9, <2>2
<1> HIDE DEF st, a, hdr, buf
<1>10. ASSUME st = RB_OK
       PROVE  skip \in Addr /\ end \in Addr /\ total \in Nat
  <2>1. skip \in Addr
    <3>1. hdr.len + H \in Nat
      BY <1>7, <1>10, GeometryAssumption
    <3> QED
      BY <1>5, <3>1, NextIncrInRing
  <2>2. end \in Addr
    BY <1>5, <1>7, <1>10, NextIncrInRing
  <2>3. total \in Nat
    BY <1>4, <1>7, <1>10 DEF Minimum
  <2> QED
    BY <2>1, <2>2, <2>3
<1> HIDE DEF Copy, total, end, skip
<1>11. ASSUME st = RB_OK PROVE over \in Addr /\ FLASH_SECTOR(over) \in Addr
  <2>1. over \in Addr
    BY <1>10, <1>11, FetchedInRing
  <2> QED
    BY <2>1, SectorOfAddr
<1> HIDE DEF over
<1>c. call'[c].id \in Ids /\ \A x \in Ctx \ {c} : call'[x] = call[x]
  BY <1>1, StepCall
<1>12. CASE ReadReturn(c, Outer(c, st), a) /\ page' = page
  BY <1>1, <1>3, <1>5, <1>6, <1>8, <1>12, ReadReturnKeeps
<1>13. CASE st = RB_OK /\ Goto(c, "read", skip) /\ page' = page /\ fr' = fr
  BY <1>1, <1>3, <1>10, <1>13, <1>c, GotoKeeps DEF IInv, TypeOK, Location
<1>14. CASE st = RB_OK /\ ReadReturn(c, Outer(c, RB_HDR_ID_NOT_FOUND), skip) /\ page' = page
  BY <1>1, <1>3, <1>8, <1>10, <1>14, ReadReturnKeeps, CodesAreInt
<1>15. CASE st = RB_OK /\ ReadReturn(c, Outer(c, RB_BAD_HDR), over) /\ Copy
  BY <1>1, <1>8, <1>9, <1>11, <1>15, ReadReturnKeeps, CodesAreInt
<1>16. CASE /\ st = RB_OK /\ Goto(c, "read", over) /\ Copy
            /\ fr' = [fr EXCEPT ![c].total = total, ![c].readfrom = FLASH_SECTOR(over)]
  <2> DEFINE f == [fr[c] EXCEPT !.total = total, !.readfrom = FLASH_SECTOR(over)]
  <2>1. f \in Frame /\ "read" \in Location
    BY <1>3, <1>10, <1>11, <1>16, FrameUpdates DEF Location
  <2>2. fr' = [fr EXCEPT ![c] = f]
    BY <1>3, <1>16 DEF IInv, TypeOK
  <2> HIDE DEF f
  <2> QED
    BY <1>1, <1>9, <1>11, <1>16, <1>c, <2>1, <2>2, GotoKeeps DEF IInv, TypeOK
<1>17. CASE /\ st = RB_OK /\ Copy
            /\ ReadReturn(c, total, IF MOD_SECTOR(end) = 0 THEN over ELSE end)
  <2>1. total \in Int /\ (IF MOD_SECTOR(end) = 0 THEN over ELSE end) \in Addr
    BY <1>10, <1>11, <1>17
  <2> QED
    BY <1>1, <1>9, <1>17, <2>1, ReadReturnKeeps
<1> QED
  BY <1>2, <1>12, <1>13, <1>14, <1>15, <1>16, <1>17

\* The arguments of rb_find and rb_delete have their types.
LEMMA SearchCallType ==
    ASSUME IInv, NEW c \in Ctx, NEW fn \in {"find", "delete"}, NEW id \in Ids,
           NEW d \in Data, SearchCall(c, fn, id, d)
    PROVE  /\ call' \in [Ctx -> Call]
           /\ call'[c].id \in Ids /\ \A x \in Ctx \ {c} : call'[x] = call[x]
<1> DEFINE k == [NoCall EXCEPT !.fn = fn, !.id = id, !.data = d, !.size = Len(d)]
<1>1. k \in Call /\ k.id = id
  <2>1. Len(d) \in Nat
    BY ParameterAssumption
  <2> QED
    BY <2>1, NothingTypes DEF Call
<1>2. call' = [call EXCEPT ![c] = k]
  BY DEF SearchCall
<1> HIDE DEF k
<1> QED
  BY <1>1, <1>2 DEF IInv, TypeOK

\* The entry of rb_find keeps the invariant.
LEMMA FindCallKeeps ==
    ASSUME IInv, NEW c \in Ctx, NEW id \in Ids, NEW d \in Data, FindCall(c, id, d)
    PROVE  IInv'
<1> DEFINE f == [NoFrame EXCEPT !.orignext = FLASH_SECTOR(next[c])]
<1>1. /\ SearchCall(c, "find", id, d) /\ UNCHANGED <<flash, page, sector_index>>
      /\ \/ Return(c, RB_BAD_CALLER_DATA, next[c])
         \/ Goto(c, "find", next[c]) /\ fr' = [fr EXCEPT ![c] = f]
  BY DEF FindCall
<1>c. /\ call' \in [Ctx -> Call]
      /\ call'[c].id \in Ids /\ \A x \in Ctx \ {c} : call'[x] = call[x]
  BY <1>1, SearchCallType
<1>2. next[c] \in Addr /\ FLASH_SECTOR(next[c]) \in Addr
  BY SectorOfAddr DEF IInv, TypeOK
<1>3. f \in Frame /\ "find" \in Location
  BY <1>2, NothingTypes, FrameUpdates DEF Location
<1> HIDE DEF f
<1>4. CASE Return(c, RB_BAD_CALLER_DATA, next[c])
  BY <1>1, <1>2, <1>4, <1>c, ReturnKeeps, CodesAreInt DEF IInv, TypeOK
<1>5. CASE Goto(c, "find", next[c]) /\ fr' = [fr EXCEPT ![c] = f]
  BY <1>1, <1>2, <1>3, <1>5, <1>c, GotoKeeps DEF IInv, TypeOK
<1> QED
  BY <1>1, <1>4, <1>5

\* The entry of rb_delete keeps the invariant.
LEMMA DeleteCallKeeps ==
    ASSUME IInv, NEW c \in Ctx, NEW id \in Ids, NEW d \in Data, DeleteCall(c, id, d)
    PROVE  IInv'
<1>1. SearchCall(c, "delete", id, d) /\ UNCHANGED <<flash, page>>
  BY DEF DeleteCall
<1>2. PICK o \in rb_find_ring_oldest_sector(sector_index[c]) :
         /\ sector_index' = [sector_index EXCEPT ![c] = o.sector_index]
         /\ \/ Return(c, o.st, o.next)
            \/ Return(c, RB_BAD_CALLER_DATA, next[c])
            \/ /\ Goto(c, "find", o.next)
               /\ fr' = [fr EXCEPT ![c] = [NoFrame EXCEPT !.oldnext = next[c],
                                                          !.orignext = o.next]]
  BY DEF DeleteCall
<1>c. /\ call' \in [Ctx -> Call]
      /\ call'[c].id \in Ids /\ \A x \in Ctx \ {c} : call'[x] = call[x]
  BY <1>1, SearchCallType
<1>3. o.next \in Addr /\ o.sector_index \in Nat /\ o.st \in Int /\ next[c] \in Addr
  BY OldestType, CodesAreInt DEF IInv, TypeOK
<1>4. sector_index' \in [Ctx -> Nat]
  BY <1>2, <1>3 DEF IInv, TypeOK
<1> DEFINE f == [NoFrame EXCEPT !.oldnext = next[c], !.orignext = o.next]
<1>5. f \in Frame /\ "find" \in Location
  BY <1>3, NothingTypes, FrameUpdates DEF Location
<1>6. CASE Return(c, o.st, o.next) \/ Return(c, RB_BAD_CALLER_DATA, next[c])
  BY <1>1, <1>3, <1>4, <1>6, <1>c, ReturnKeeps, CodesAreInt DEF IInv, TypeOK
<1>7. CASE Goto(c, "find", o.next) /\ fr' = [fr EXCEPT ![c] = f]
  <2> HIDE DEF f
  <2> QED
    BY <1>1, <1>3, <1>4, <1>5, <1>7, <1>c, GotoKeeps DEF IInv, TypeOK
<1> QED
  BY <1>2, <1>6, <1>7

\* rb_find comes back with an error or with an address of the ring, which is
\* where rb_delete has rb_smudge look.
LEMMA FindReturnKeeps ==
    ASSUME IInv, NEW c \in Ctx, NEW r \in Int, r < 0 \/ r \in Addr, NEW n \in Addr,
           FindReturn(c, r, n), pc[c] \notin {"idle", "closed"},
           UNCHANGED <<flash, page, sector_index, call>>
    PROVE  IInv'
<1>c. call'[c].id \in Ids /\ \A x \in Ctx \ {c} : call'[x] = call[x]
  BY StepCall
<1>1. /\ fr[c] \in Frame /\ fr[c].oldnext \in Addr /\ fr = [fr EXCEPT ![c] = fr[c]]
      /\ "smudge" \in Location
  BY DEF IInv, TypeOK, Frame, Location
<1>2. CASE Return(c, r, n) \/ Return(c, r, fr[c].oldnext)
  BY <1>1, <1>2, <1>c, ReturnKeeps DEF IInv, TypeOK
<1>3. CASE r \in Addr /\ Goto(c, "smudge", r) /\ fr' = fr
  BY <1>1, <1>3, <1>c, GotoKeeps DEF IInv, TypeOK
<1> QED
  BY <1>2, <1>3 DEF FindReturn

\* The loop of rb_find stays in the ring.
LEMMA FindStepKeeps ==
    ASSUME IInv, NEW c \in Ctx, FindStep(c)
    PROVE  IInv'
<1> DEFINE st == fetch_and_check_header(next[c])
           a == Fetched(next[c])
           hdr == HeaderAt(a)
           skip == rb_incr(a, hdr.len + H)
<1>1. /\ pc[c] = "find" /\ pc[c] \notin {"idle", "closed"}
      /\ UNCHANGED <<flash, page, sector_index, call>>
  BY DEF FindStep
<1>2. \/ st # RB_OK /\ FindReturn(c, st, a)
      \/ st = RB_OK /\ Goto(c, "find", skip) /\ fr' = fr
      \/ st = RB_OK /\ FindReturn(c, RB_HDR_ID_NOT_FOUND, skip)
      \/ /\ Goto(c, "read", a)
         /\ fr' = [fr EXCEPT ![c].found = a, ![c].total = 0,
                             ![c].readfrom = FLASH_SECTOR(a)]
  BY Zenon DEF FindStep
<1>3. /\ flash \in [Addr -> Cell] /\ next[c] \in Addr /\ fr[c] \in Frame
      /\ fr = [fr EXCEPT ![c] = fr[c]] /\ {"find", "read"} \subseteq Location
  BY DEF IInv, TypeOK, Location
<1>4. a \in Addr /\ a \in Nat /\ FLASH_SECTOR(a) \in Addr
  <2>1. a \in Addr
    BY <1>3, FetchedInRing
  <2> QED
    BY <2>1, SectorOfAddr, SizeFacts DEF Addr
<1>5. st \in Int /\ (st # RB_OK => st < 0)
  BY StatusType, CodesAreInt
<1>6. ASSUME st = RB_OK PROVE skip \in Addr
  <2>1. hdr.len \in Nat
    BY <1>3, <1>6, StatusType, HeaderType DEF HeaderCells
  <2> HIDE DEF a, hdr
  <2>2. hdr.len + H \in Nat
    BY <2>1, GeometryAssumption
  <2> QED
    BY <1>4, <2>2, NextIncrInRing
<1>c. call'[c].id \in Ids /\ \A x \in Ctx \ {c} : call'[x] = call[x]
  BY <1>1, StepCall
<1> HIDE DEF st, a, skip
<1>7. CASE st # RB_OK /\ FindReturn(c, st, a)
  BY <1>1, <1>4, <1>5, <1>7, FindReturnKeeps
<1>8. CASE st = RB_OK /\ Goto(c, "find", skip) /\ fr' = fr
  BY <1>1, <1>3, <1>6, <1>8, <1>c, GotoKeeps DEF IInv, TypeOK
<1>9. CASE st = RB_OK /\ FindReturn(c, RB_HDR_ID_NOT_FOUND, skip)
  BY <1>1, <1>6, <1>9, FindReturnKeeps, CodesAreInt
<1>10. CASE /\ Goto(c, "read", a)
            /\ fr' = [fr EXCEPT ![c].found = a, ![c].total = 0,
                                ![c].readfrom = FLASH_SECTOR(a)]
  <2> DEFINE f == [fr[c] EXCEPT !.found = a, !.total = 0, !.readfrom = FLASH_SECTOR(a)]
  <2>1. f \in Frame
    BY <1>3, <1>4, FrameUpdates
  <2>2. fr' = [fr EXCEPT ![c] = f]
    BY <1>3, <1>10 DEF IInv, TypeOK
  <2> HIDE DEF f
  <2> QED
    BY <1>1, <1>3, <1>4, <1>10, <1>c, <2>1, <2>2, GotoKeeps DEF IInv, TypeOK
<1> QED
  BY <1>2, <1>7, <1>8, <1>9, <1>10

\* So does its comparison: an empty read takes the start of the ring for the
\* place of the record.
LEMMA CompareKeeps ==
    ASSUME IInv, NEW c \in Ctx, Compare(c)
    PROVE  IInv'
<1>1. /\ pc[c] = "compare" /\ pc[c] \notin {"idle", "closed"}
      /\ UNCHANGED <<flash, page, sector_index, call>>
  BY DEF Compare
<1>2. \/ ret[c] <= 0 /\ FindReturn(c, ret[c], next[c])
      \/ FindReturn(c, fr[c].found, next[c])
      \/ Goto(c, "find", next[c]) /\ fr' = fr
  BY Zenon DEF Compare
<1>3. /\ next[c] \in Addr /\ fr[c] \in Frame /\ ret[c] \in Int
      /\ fr = [fr EXCEPT ![c] = fr[c]] /\ "find" \in Location
  BY DEF IInv, TypeOK, Location
<1>4. fr[c].found \in Addr /\ fr[c].found \in Int
  BY <1>3, SizeFacts DEF Frame, Addr
<1>5. CASE ret[c] <= 0 /\ FindReturn(c, ret[c], next[c])
  <2>1. ret[c] < 0 \/ ret[c] \in Addr
    BY <1>3, <1>5, SizeFacts
  <2> QED
    BY <1>1, <1>3, <1>5, <2>1, FindReturnKeeps
<1>6. CASE FindReturn(c, fr[c].found, next[c])
  BY <1>1, <1>3, <1>4, <1>6, FindReturnKeeps
<1>7. CASE Goto(c, "find", next[c]) /\ fr' = fr
  <2>1. call'[c].id \in Ids /\ \A x \in Ctx \ {c} : call'[x] = call[x]
    BY <1>1, StepCall
  <2> QED
    BY <1>1, <1>3, <1>7, <2>1, GotoKeeps DEF IInv, TypeOK
<1> QED
  BY <1>2, <1>5, <1>6, <1>7

\* rb_smudge rewrites the last byte of a header of the ring.
LEMMA SmudgeKeeps ==
    ASSUME IInv, NEW c \in Ctx, Smudge(c)
    PROVE  IInv'
<1> DEFINE st == fetch_and_check_header(next[c])
           a == Fetched(next[c])
           hdr == HeaderAt(a)
           t == << <<[hdr EXCEPT !.live = FALSE]>> >>
<1>1. /\ pc[c] = "smudge" /\ pc[c] \notin {"idle", "closed"}
      /\ UNCHANGED <<flash, page, sector_index, call>>
  BY DEF Smudge
<1>2. \/ Return(c, st, fr[c].oldnext)
      \/ st = RB_OK /\ Goto(c, "append_page", a + H - 1) /\ fr' = [fr EXCEPT ![c].todo = t]
  BY Zenon DEF Smudge
<1>3. /\ flash \in [Addr -> Cell] /\ fr[c].oldnext \in Addr
      /\ sector_index \in [Ctx -> Nat]
  BY DEF IInv, TypeOK, Frame
<1>4. st \in Int
  BY StatusType, CodesAreInt
<1>5. ASSUME st = RB_OK PROVE a + H - 1 \in Addr /\ t \in Seq(Seq(Cell)) /\ t # <<>>
  <2>1. hdr \in HeaderCells /\ a + H - 1 \in Addr
    BY <1>3, <1>5, StatusType, HeaderType
  <2> HIDE DEF hdr
  <2>2. [hdr EXCEPT !.live = FALSE] \in HeaderCells
    BY <2>1 DEF HeaderCells
  <2>3. [hdr EXCEPT !.live = FALSE] \in Cell
    BY <2>2 DEF HeaderCells, Cell
  <2> QED
    BY <2>1, <2>3
<1> HIDE DEF st, a, t
<1>6. CASE Return(c, st, fr[c].oldnext)
  <2>1. call'[c].id \in Ids /\ \A x \in Ctx \ {c} : call'[x] = call[x]
    BY <1>1, StepCall
  <2> QED
    BY <1>1, <1>3, <1>4, <1>6, <2>1, ReturnKeeps DEF IInv, TypeOK
<1>7. CASE st = RB_OK /\ Goto(c, "append_page", a + H - 1) /\ fr' = [fr EXCEPT ![c].todo = t]
  BY <1>1, <1>3, <1>5, <1>7, WriteKeeps
<1> QED
  BY <1>2, <1>6, <1>7

\* A power failure leaves flash and control blocks that have their types.
LEMMA CrashKeeps ==
    ASSUME IInv, Crash
    PROVE  IInv'
<1>1. TypeOK'
  BY NothingTypes, SizeFacts, CodesAreInt DEF IInv, TypeOK, Crash, Location
<1>2. CallInv'
  BY DEF Crash, CallInv
<1> QED
  BY <1>1, <1>2 DEF IInv

-----------------------------------------------------------------------------
\* Every step keeps the invariant.
LEMMA NextIInv ==
    ASSUME IInv, [Next]_vars
    PROVE  IInv'
<1>1. ASSUME NEW c \in Ctx, Request(c) PROVE IInv'
  BY <1>1, RecreateKeeps, AppendCallKeeps, ReadCallKeeps, FindCallKeeps,
     DeleteCallKeeps DEF Request
<1>2. ASSUME NEW c \in Ctx, Step(c) PROVE IInv'
  BY <1>2, AppendOldestKeeps, WalkKeeps, EraseOldestKeeps, SectorAppendKeeps,
     FillPageKeeps, ProgPageKeeps, ReadStepKeeps, FindStepKeeps, CompareKeeps,
     SmudgeKeeps DEF Step
<1>3. CASE Crash
  BY <1>3, CrashKeeps
<1>4. CASE UNCHANGED vars
  BY <1>4 DEF IInv, TypeOK, CallInv, vars
<1> QED
  BY <1>1, <1>2, <1>3, <1>4 DEF Next

\* The invariant of the type proof always holds.
LEMMA AlwaysTyped == Spec => []IInv
<1>1. Init => IInv
  BY InitIInv
<1>2. IInv /\ [Next]_vars => IInv'
  BY NextIInv
<1> QED
  BY <1>1, <1>2, PTL DEF Spec

\* Whatever the flash holds, however calls interleave and wherever the power
\* fails, every variable keeps its type: in particular rb_t.next and the
\* addresses the calls remember stay in the ring ("0<=next<number_of_bytes",
\* ring_buffer.h), and no part of a record has a negative length.
THEOREM TypeCorrect == Spec => []TypeOK
<1>1. IInv => TypeOK
  BY DEF IInv
<1> QED
  BY <1>1, AlwaysTyped, PTL

-----------------------------------------------------------------------------
(* The log in the flash, and what a context has to do with it *)

\* The addresses where sectors begin.
Base == {s * S : s \in Sector}
\* The sector after the one at b, around the ring.
After(b) == IF b + S >= Size THEN 0 ELSE b + S

\* The sectors that are not erased: their first byte is programmed.
Started(r) == {b \in Base : r[b] # Blank}
Erased(r, b) == \A i \in 0 .. S - 1 : r[b + i] = Blank
\* The sector at b begins with the whole header of a sector.
HasIndex(r, b) == \E x \in 1 .. MaxIndex : \A i \in 0 .. H - 1 : r[b + i] = SecCell(x, i)
Idx(r, b) == r[b].idx
\* The sectors with the largest and the smallest index.
Youngest(r, b) == b \in Started(r) /\ \A t \in Started(r) : Idx(r, t) <= Idx(r, b)
Eldest(r, b) == b \in Started(r) /\ \A t \in Started(r) : Idx(r, b) <= Idx(r, t)
\* Indices are distinct and grow from sector to sector, from the eldest one on.
Ordered(r) ==
    /\ \A s, t \in Started(r) : Idx(r, s) = Idx(r, t) => s = t
    /\ \A b \in Base, t \in Started(r) :
          After(b) \in Started(r) /\ Idx(r, t) < Idx(r, After(b)) =>
              b \in Started(r) /\ Idx(r, t) <= Idx(r, b) /\ Idx(r, b) < Idx(r, After(b))

\* A byte of the header of a record that is alive.
Part(id, len, split, i) == HdrCell(id, len, split, TRUE, i)
\* The whole header of a record is at a; the record may be deleted.
IsHdr(r, a) ==
    LET h == r[a + H - 1]
    IN  /\ h.k = "hdr"
        /\ \A i \in 0 .. H - 1 : r[a + i] = HdrCell(h.id, h.len, h.split, h.live, i)
\* The place behind the record whose header is at place q of the sector at b.
EndOf(r, b, q) == q + H + r[b + q + H - 1].len
\* The places of a sector where the header of a record may begin.
Room == H .. S - H - 1
\* A record of the sector at b ends at o, or the header of the sector does.
Bound(r, b, o) == o = H \/ \E q \in Room : IsHdr(r, b + q) /\ o = EndOf(r, b, q)
\* No header is at place o, where the walk over the records of the sector stops.
Open(r, b, o) == o \in Room /\ Bound(r, b, o) /\ ~IsHdr(r, b + o)
\* The sector has no room for a further record.
Closed(r, b) == \A o \in Room : ~Open(r, b, o)
BlankFrom(r, b, o) == \A i \in o .. S - 1 : r[b + i] = Blank

\* The records of the sector end inside it.  A place is open only in the
\* youngest sector, behind all its records, and all that follows is blank; a
\* power failure may have left the first bytes of a header there.
Laid(r, b) ==
    /\ \A q \in Room : IsHdr(r, b + q) => EndOf(r, b, q) <= S
    /\ \A o \in Room : Open(r, b, o) =>
          /\ Youngest(r, b)
          /\ \A u \in H .. S : Bound(r, b, u) => u <= o
          /\ BlankFrom(r, b, o + H - 1)
          /\ r[b + o] = Blank => BlankFrom(r, b, o)
\* What every step keeps true of the flash.
Log(r) ==
    /\ \A a \in Addr : r[a] # Junk
    /\ \A b \in Base : Erased(r, b) \/ HasIndex(r, b)
    /\ Ordered(r)
    /\ \A b \in Started(r) : Laid(r, b)
\* A header that is not whole ends the log.
Torn(r) == \E b \in Started(r) : \E o \in Room : Open(r, b, o) /\ r[b + o] # Blank

\* The sector at b is erased and is the next one to be used.
Fresh(r, b) ==
    /\ b \in Base /\ b \notin Started(r)
    /\ \/ Started(r) = {} /\ b = 0
       \/ \E p \in Started(r) : Youngest(r, p) /\ Closed(r, p) /\ After(p) = b
\* The sector after the youngest one is the eldest one: none is left.
FullFrom(r, p) == Youngest(r, p) /\ Eldest(r, After(p))

\* Where the walk from the eldest sector, o, may stand.
WalkAt(r, n, o) ==
    /\ IF Started(r) = {} THEN o = 0 ELSE Eldest(r, o)
    /\ \/ n = o
       \/ \E p \in Started(r) : Closed(r, p) /\ n = After(p)
       \/ \E b \in Started(r), q \in Room : Bound(r, b, q) /\ n = b + q
\* Where the walk may end: the end of the log.
PlaceAt(r, n) ==
    \/ Fresh(r, n)
    \/ \E b \in Base, o \in Room : Youngest(r, b) /\ Open(r, b, o) /\ BlankFrom(r, b, o) /\ n = b + o

DataCells(d) == \A i \in 1 .. Len(d) : d[i].k \in {"data", "wild"}
\* The segments from j + 1 on begin a sector: its header with an index above
\* those in use, a record header, and data that fit.
NewSector(r, si, todo, j) ==
    \E x \in 1 .. MaxIndex, len \in 0 .. S :
        /\ x <= si /\ \A t \in Started(r) : Idx(r, t) < x
        /\ todo[j + 1] = SectorSeg(x)
        /\ \E id \in Ids, split \in BOOLEAN : todo[j + 2] = HeaderSeg(id, len, split)
        /\ 2 * H + len <= S /\ DataCells(todo[j + 3]) /\ Len(todo[j + 3]) <= len

\* The end of a record at e of sector b, and what follows it.
Rest(r, b, e, si, todo, j) ==
    \/ Len(todo) = j
    \/ /\ Len(todo) = j + 3 /\ e = S
       /\ After(b) \notin Started(r) /\ NewSector(r, si, todo, j)

\* What is left to write of an append, todo, and where: at n.  It begins with
\* the header of a sector, with the rest of the header of a record whose
\* first bytes are in flash, or with the rest of the data of a record.
AtSector(r, n, si, todo) == Len(todo) = 3 /\ Fresh(r, n) /\ NewSector(r, si, todo, 0)
AtHeader(r, n, si, todo) ==
    \E b \in Base, h \in Room, j \in 0 .. H - 1, id \in Ids, len \in 0 .. S, split \in BOOLEAN :
        /\ n = b + h + j /\ Youngest(r, b) /\ Open(r, b, h) /\ BlankFrom(r, b, h + j)
        /\ \A i \in 0 .. j - 1 : r[b + h + i] = Part(id, len, split, i)
        /\ todo[1] = [i \in 1 .. H - j |-> Part(id, len, split, i + j - 1)]
        /\ DataCells(todo[2]) /\ Len(todo[2]) <= len /\ h + H + len <= S
        /\ Rest(r, b, h + H + Len(todo[2]), si, todo, 2)
AtData(r, n, si, todo) ==
    \E b \in Base, h \in Room, o \in Addr :
        /\ o < S /\ n = b + o /\ Youngest(r, b) /\ IsHdr(r, b + h) /\ h + H <= o
        /\ BlankFrom(r, b, o) /\ DataCells(todo[1]) /\ o + Len(todo[1]) <= EndOf(r, b, h)
        /\ Rest(r, b, o + Len(todo[1]), si, todo, 1)
Flight(r, n, si, todo) ==
    AtSector(r, n, si, todo) \/ AtHeader(r, n, si, todo) \/ AtData(r, n, si, todo)
\* What is left to write of a smudge: the byte of a header that says it is dead.
SmudgeFlight(r, n, todo) ==
    /\ Len(todo) = 1 /\ Len(todo[1]) = 1
    /\ r[n].k = "hdr" /\ r[n].part = H - 1 /\ todo[1][1] = [r[n] EXCEPT !.live = FALSE]

\* The program counters inside append_page, and those of an append before it.
Writing == {"append_page", "partial", "prog"}
Appending == {"oldest", "walk", "erase_full", "erase_retry", "sector_append"}
\* The page buffer is blank, or holds the bytes to be programmed and is blank elsewhere.
PageInv(c) ==
    LET pg == page[BufOf[c]]
        off == MOD_PAGE(next[c])
    IN  /\ pc[c] = "partial" => \A i \in 0 .. P - 1 : pg[i] = Blank
        /\ pc[c] = "prog" =>
              \A i \in 0 .. P - 1 : pg[i] = IF i \in off .. off + Written(c) - 1
                                            THEN Head(fr[c].todo)[i - off + 1] ELSE Blank
\* The control block knows the largest index in use.
IndexInv(c) ==
    pc[c] # "closed" => \A b \in Started(flash) : Idx(flash, b) <= sector_index[c]
\* The program counter tells an append from the other calls.
CallsInv(c) ==
    /\ pc[c] \in Appending =>
          call[c].fn = "append" /\ sector_index[c] < MaxIndex /\ call[c].size = Len(call[c].data)
    /\ pc[c] \in {"read", "find", "compare", "smudge"} => call[c].fn # "append"
\* An append erases when the ring is full, and then it is not any more.
EraseInv(c) ==
    /\ fr[c].erases \in {0, 1}
    /\ pc[c] \in {"erase_full", "erase_retry"} =>
          /\ fr[c].erases = 0
          /\ \E p \in Base : FullFrom(flash, p) /\ (pc[c] = "erase_full" => Closed(flash, p))
    /\ pc[c] \in {"oldest", "walk", "sector_append"} /\ fr[c].erases = 1 =>
          \E p \in Base : Youngest(flash, p) /\ After(p) \notin Started(flash)
\* The walk stays on the records of the log and ends behind them.
PlaceInv(c) ==
    /\ pc[c] = "walk" => WalkAt(flash, next[c], fr[c].orignext)
    /\ pc[c] = "sector_append" => PlaceAt(flash, next[c])
\* What is being written continues the log.
WriteInv(c) ==
    /\ pc[c] \in Writing /\ call[c].fn = "append" =>
          Flight(flash, next[c], sector_index[c], fr[c].todo)
    /\ pc[c] \in Writing /\ call[c].fn # "append" => SmudgeFlight(flash, next[c], fr[c].todo)
    /\ PageInv(c)
\* Without power failures only the append under way has a header that is not whole.
AppendOk(c) ==
    Returned(c, "append") /\ call[c].erase /\ call[c].size \in 1 .. RB_MAX_APPEND_SIZE
        => ret[c] = RB_OK
WholeInv(c) ==
    "crash" \notin Ops =>
        /\ Torn(flash) => pc[c] \in Writing /\ call[c].fn = "append"
        /\ AppendOk(c)
\* The inductive invariant: the flash is a log, and each context knows its end.
CtxInv(c) ==
    /\ IndexInv(c) /\ CallsInv(c) /\ EraseInv(c) /\ PlaceInv(c) /\ WriteInv(c) /\ WholeInv(c)
LogInv == Log(flash) /\ \A c \in Ctx : CtxInv(c)

\* A sector lies in the ring.
LEMMA BaseFacts ==
    ASSUME NEW b \in Base
    PROVE  /\ b \in Nat /\ b \in Addr /\ b + S <= Size
           /\ \A i \in 0 .. S - 1 : b + i \in Addr /\ b + i \in Nat
<1>1. PICK s \in Sector : b = s * S
  BY DEF Base
<1>2. s \in Nat /\ s + 1 <= N
  BY GeometryAssumption DEF Sector
<1>3. (s + 1) * S <= N * S
  BY <1>2, TimesMonotone, GeometryAssumption
<1>4. (s + 1) * S = (s * S) + S /\ s * S \in Nat
  BY <1>2, GeometryAssumption
<1>5. b \in Nat /\ b + S <= Size
  BY <1>1, <1>3, <1>4, GeometryAssumption DEF Size
<1> QED
  BY <1>5, SizeFacts, GeometryAssumption DEF Addr

\* An address is a sector and a position in it, in one way.
LEMMA InSector ==
    ASSUME NEW b \in Base, NEW i \in 0 .. S - 1
    PROVE  FLASH_SECTOR(b + i) = b /\ MOD_SECTOR(b + i) = i
<1>1. PICK s \in Sector : b = s * S
  BY DEF Base
<1>2. s \in Nat
  BY GeometryAssumption DEF Sector
<1>3. ((s * S) + i) % S = i
  BY <1>2, ModUnique, SizeFacts, GeometryAssumption
<1>4. MOD_SECTOR(b + i) = i
  BY <1>1, <1>3 DEF MOD_SECTOR
<1>5. b \in Nat
  BY BaseFacts
<1> QED
  BY <1>4, <1>5, GeometryAssumption DEF FLASH_SECTOR

\* Every address is in a sector.
LEMMA AddrSplit ==
    ASSUME NEW a \in Addr
    PROVE  /\ FLASH_SECTOR(a) \in Base /\ MOD_SECTOR(a) \in 0 .. S - 1
           /\ a = FLASH_SECTOR(a) + MOD_SECTOR(a)
<1>1. /\ FLASH_SECTOR(a) \in Addr /\ MOD_SECTOR(a) \in 0 .. S - 1
      /\ a = FLASH_SECTOR(a) + MOD_SECTOR(a) /\ FLASH_SECTOR(a) + S <= Size
  BY SectorOfAddr
<1>2. PICK q \in Nat : FLASH_SECTOR(a) = q * S
  BY SectorOfAddr
<1>3. q < N
  <2>1. SUFFICES ASSUME q >= N PROVE FALSE
    BY GeometryAssumption
  <2>2. N * S <= q * S
    BY <2>1, TimesMonotone, GeometryAssumption
  <2> QED
    BY <2>2, <1>1, <1>2, SizeFacts, GeometryAssumption DEF Size, Addr
<1>4. q \in Sector
  BY <1>3, GeometryAssumption DEF Sector
<1> QED
  BY <1>1, <1>2, <1>4 DEF Base

\* Two sectors have no address in common.
LEMMA OneWay ==
    ASSUME NEW b \in Base, NEW d \in Base, NEW i \in 0 .. S - 1, NEW j \in 0 .. S - 1,
           b + i = d + j
    PROVE  b = d /\ i = j
  BY InSector

\* The sector after a sector.
LEMMA AfterFacts ==
    ASSUME NEW b \in Base
    PROVE  /\ After(b) \in Base
           /\ N >= 2 => After(b) # b
           /\ \A i \in 0 .. S - 1 : NextSectorOf(b + i) = After(b)
           /\ (b + S) % Size = After(b)
<1>1. PICK s \in Sector : b = s * S
  BY DEF Base
<1>2. s \in Nat /\ s + 1 <= N /\ N \in Nat
  BY GeometryAssumption DEF Sector
<1>3. b \in Nat /\ b + S <= Size /\ Size \in Nat /\ S >= 1 /\ S \in Nat /\ Size >= S
  BY BaseFacts, SizeFacts, GeometryAssumption
<1>4. CASE s + 1 = N
  <2>1. N * S = (s * S) + S
    BY <1>2, <1>4, GeometryAssumption
  <2>2. b + S = Size
    BY <1>1, <2>1 DEF Size
  <2>3. After(b) = 0
    BY <1>3, <2>2 DEF After
  <2>4. 0 \in Sector /\ 0 * S = 0
    BY GeometryAssumption DEF Sector
  <2>5. 0 \in Base
    BY <2>4 DEF Base
  <2>6. N >= 2 => b # 0
    <3> SUFFICES ASSUME N >= 2 PROVE b # 0
      OBVIOUS
    <3>1. 1 * S <= s * S
      BY <1>2, <1>4, TimesMonotone, GeometryAssumption
    <3> QED
      BY <1>1, <3>1, <1>3
  <2>7. (b + S) % Size = 0
    BY <2>2, <1>3
  <2>8. \A i \in 0 .. S - 1 : NextSectorOf(b + i) = 0
    BY <1>3, <2>2, InSector DEF NextSectorOf, nextincr
  <2> QED
    BY <2>3, <2>5, <2>6, <2>7, <2>8
<1>5. CASE s + 1 < N
  <2>1. (s + 2) * S <= N * S
    BY <1>2, <1>5, TimesMonotone, GeometryAssumption
  <2>2. (s + 2) * S = (s * S) + S + S /\ (s + 1) * S = (s * S) + S
    BY <1>2, GeometryAssumption
  <2>3. b + S + S <= Size
    BY <1>1, <2>1, <2>2, <1>3 DEF Size
  <2>4. b + S < Size
    BY <1>3, <2>3
  <2>5. After(b) = b + S
    BY <1>3, <2>4 DEF After
  <2>6. s + 1 \in Sector /\ b + S = (s + 1) * S
    BY <1>1, <1>2, <1>5, <2>2 DEF Sector
  <2>7. b + S \in Base
    BY <2>6 DEF Base
  <2>8. (b + S) % Size = b + S
    BY <1>3, <2>4
  <2>9. \A i \in 0 .. S - 1 : NextSectorOf(b + i) = b + S
    BY <1>3, <2>4, InSector DEF NextSectorOf, nextincr
  <2> QED
    BY <1>3, <2>5, <2>7, <2>8, <2>9
<1> QED
  BY <1>2, <1>4, <1>5

\* It has one sector before it.
LEMMA AfterOne ==
    ASSUME NEW b \in Base, NEW d \in Base, After(b) = After(d)
    PROVE  b = d
<1>1. /\ b \in Nat /\ b + S <= Size /\ d \in Nat /\ d + S <= Size
      /\ Size \in Nat /\ S \in Nat /\ S >= 1
  BY BaseFacts, SizeFacts, GeometryAssumption
<1> QED
  BY <1>1 DEF After

\* Every sector comes after one.
LEMMA AfterOnto ==
    ASSUME NEW d \in Base
    PROVE  \E b \in Base : After(b) = d
<1>1. PICK s \in Sector : d = s * S
  BY DEF Base
<1>2. s \in Nat /\ s <= N - 1 /\ N \in Nat /\ N >= 1 /\ S \in Nat /\ S >= 1
  BY GeometryAssumption DEF Sector
<1>3. CASE s = 0
  <2>1. N - 1 \in Sector /\ (N - 1) * S + S = N * S /\ (N - 1) * S \in Nat
    BY <1>2 DEF Sector
  <2>2. After((N - 1) * S) = 0
    BY <2>1, <1>2 DEF After, Size
  <2> QED
    BY <1>1, <1>2, <1>3, <2>1, <2>2 DEF Base
<1>4. CASE s > 0
  <2>1. s - 1 \in Sector /\ (s - 1) * S + S = s * S /\ (s - 1) * S \in Nat
    BY <1>2, <1>4 DEF Sector
  <2>2. (s * S) < Size
    <3>1. d + S <= Size /\ d \in Nat /\ Size \in Nat
      BY BaseFacts, SizeFacts
    <3> QED
      BY <1>1, <1>2, <3>1
  <2>3. After((s - 1) * S) = s * S
    <3>1. Size \in Nat
      BY SizeFacts
    <3> QED
      BY <2>1, <2>2, <3>1, <1>2 DEF After
  <2> QED
    BY <1>1, <2>1, <2>3 DEF Base
<1> QED
  BY <1>2, <1>3, <1>4

\* The ring begins with a sector.
LEMMA ZeroIsBase == 0 \in Base
<1>1. 0 \in Sector /\ 0 * S = 0
  BY GeometryAssumption DEF Sector
<1> QED
  BY <1>1 DEF Base

\* Pages do not cross sectors.
LEMMA InPage ==
    ASSUME NEW b \in Base, NEW i \in 0 .. S - 1
    PROVE  /\ MOD_PAGE(b + i) = i % P /\ i % P \in 0 .. P - 1 /\ i % P <= i
           /\ (i - (i % P)) + P <= S
           /\ FLASH_PAGE(b + i) = b + (i - (i % P))
<1>1. /\ P \in Nat /\ P >= 1 /\ S \in Nat /\ S >= 1 /\ b \in Nat /\ i \in Nat
  BY BaseFacts, GeometryAssumption
<1>2. i % P \in 0 .. P - 1 /\ i % P <= i /\ i = ((i \div P) * P) + (i % P) /\ i \div P \in Nat
  BY <1>1, DivMod
<1>3. S = (S \div P) * P /\ S \div P \in Nat
  <2>1. S = ((S \div P) * P) + (S % P) /\ S \div P \in Nat
    BY <1>1, DivMod
  <2>2. (S \div P) * P \in Nat
    BY <1>1, <2>1
  <2> QED
    BY <2>1, <2>2, GeometryAssumption
<1>4. PICK s \in Nat : b = s * S
  BY GeometryAssumption DEF Base, Sector
<1>5. b = (s * (S \div P)) * P
  <2> DEFINE m == S \div P
  <2>1. m \in Nat /\ S = m * P
    BY <1>3
  <2> HIDE DEF m
  <2>2. s * (m * P) = (s * m) * P
    BY <2>1, <1>1
  <2> QED
    BY <1>4, <2>1, <2>2 DEF m
<1>6. MOD_PAGE(b + i) = i % P
  <2> DEFINE u == s * (S \div P)
             v == i \div P
  <2>1. u \in Nat /\ v \in Nat
    BY <1>2, <1>3
  <2>2. b = u * P /\ i = (v * P) + (i % P)
    BY <1>2, <1>5
  <2> HIDE DEF u, v
  <2>3. b + i = ((u + v) * P) + (i % P)
    <3>1. (u + v) * P = (u * P) + (v * P)
      BY <2>1, <1>1
    <3> QED
      BY <2>1, <2>2, <3>1, <1>1, <1>2
  <2>4. (((u + v) * P) + (i % P)) % P = i % P
    BY <2>1, <1>1, <1>2, ModUnique
  <2> QED
    BY <2>3, <2>4 DEF MOD_PAGE
<1>7. (i - (i % P)) + P <= S
  <2> DEFINE v == i \div P
             m == S \div P
  <2>1. v \in Nat /\ m \in Nat /\ i = (v * P) + (i % P) /\ S = m * P
    BY <1>2, <1>3
  <2> HIDE DEF v, m
  <2>2. v < m
    <3>1. SUFFICES ASSUME v >= m PROVE FALSE
      BY <2>1
    <3>2. m * P <= v * P
      BY <2>1, <3>1, <1>1, TimesMonotone
    <3> QED
      BY <2>1, <3>2, <1>1, <1>2
  <2>3. (v + 1) * P <= m * P
    BY <2>1, <2>2, <1>1, TimesMonotone
  <2>4. (v + 1) * P = (v * P) + P
    BY <2>1, <1>1
  <2> QED
    BY <2>1, <2>3, <2>4, <1>1, <1>2
<1> QED
  BY <1>1, <1>2, <1>6, <1>7 DEF FLASH_PAGE

-----------------------------------------------------------------------------
(* Cells and headers *)

\* The fields of the cells.
LEMMA Kinds ==
    /\ Blank.k = "blank" /\ Junk.k = "junk" /\ Wild.k = "wild"
    /\ \A x, i : SecCell(x, i).k = "sec" /\ SecCell(x, i).idx = x /\ SecCell(x, i).part = i
    /\ \A x : ByteCell(x).k = "data"
    /\ \A id, len, split, live, i :
          /\ HdrCell(id, len, split, live, i).k = "hdr"
          /\ HdrCell(id, len, split, live, i).part = i
          /\ HdrCell(id, len, split, live, i).id = id
          /\ HdrCell(id, len, split, live, i).len = len
          /\ HdrCell(id, len, split, live, i).split = split
  BY DEF Blank, Junk, Wild, SecCell, ByteCell, HdrCell

\* The fields of a byte of a header.
LEMMA PartKinds ==
    ASSUME NEW id, NEW len, NEW split, NEW i
    PROVE  /\ Part(id, len, split, i).k = "hdr" /\ Part(id, len, split, i).part = i
           /\ Part(id, len, split, i).id = id /\ Part(id, len, split, i).len = len
           /\ Part(id, len, split, i).split = split
           /\ Part(id, len, split, i) # Blank /\ Part(id, len, split, i) # Junk
  BY DEF Part, HdrCell, Blank, Junk

\* The places where a header can begin.
LEMMA RoomFacts ==
    /\ H \in Nat /\ H >= 1 /\ S \in Nat /\ S >= 2 * H + 1 /\ H \in Room
    /\ \A o \in Room : o \in Nat /\ o >= H /\ o >= 1 /\ o + H <= S - 1 /\ o \in 0 .. S - 1
    /\ \A o \in Room : \A i \in 0 .. H - 1 : o + i \in 0 .. S - 1
  BY GeometryAssumption DEF Room

\* flash_read inside a sector.
LEMMA FlashInSector ==
    ASSUME NEW b \in Base, NEW i \in 0 .. S - 1
    PROVE  FlashAt(b + i) = flash[b + i]
  BY BaseFacts DEF FlashAt

\* The headers of sectors, as rb_find_ring_oldest_sector sees them.
LEMMA SectorSeen ==
    ASSUME Log(flash), NEW b \in Base
    PROVE  /\ b \in Started(flash) =>
                 /\ SectorStatus(b) = RB_OK /\ SectorIndex(b) = Idx(flash, b)
                 /\ Idx(flash, b) \in 1 .. MaxIndex /\ HasIndex(flash, b)
           /\ b \notin Started(flash) => SectorStatus(b) = RB_BLANK_HDR /\ Erased(flash, b)
<1>1. /\ H \in Nat /\ H >= 1 /\ S \in Nat /\ b \in Nat /\ MaxIndex \in Nat
      /\ \A i \in 0 .. H - 1 : i \in 0 .. S - 1
      /\ \A i \in 0 .. H - 1 : FlashAt(b + i) = flash[b + i]
  BY BaseFacts, FlashInSector, GeometryAssumption
<1>2. b + 0 = b /\ 0 \in 0 .. H - 1 /\ 0 \in 0 .. S - 1
  BY <1>1
<1>3. FlashAt(b) = flash[b]
  BY <1>1, <1>2
<1>4. ASSUME b \in Started(flash)
      PROVE  /\ SectorStatus(b) = RB_OK /\ SectorIndex(b) = Idx(flash, b)
             /\ Idx(flash, b) \in 1 .. MaxIndex /\ HasIndex(flash, b)
  <2>1. flash[b] # Blank
    BY <1>4 DEF Started
  <2>2. HasIndex(flash, b)
    BY <1>2, <2>1 DEF Log, Erased
  <2>3. PICK x \in 1 .. MaxIndex : \A i \in 0 .. H - 1 : flash[b + i] = SecCell(x, i)
    BY <2>2 DEF HasIndex
  <2>4. flash[b] = SecCell(x, 0)
    BY <1>2, <2>3
  <2>5. \A i \in 0 .. H - 1 : [flash[b] EXCEPT !.part = i] = SecCell(x, i)
    BY <2>4 DEF SecCell
  <2>6. ~BlankRun(b, H)
    BY <1>1, <1>2, <2>1 DEF BlankRun
  <2>7. flash[b].k = "sec" /\ flash[b].idx = x
    BY <2>4, Kinds
  <2>8. SectorStatus(b) = RB_OK
    BY <1>1, <1>3, <2>3, <2>5, <2>6, <2>7 DEF SectorStatus
  <2> QED
    BY <2>2, <2>7, <2>8, <1>3 DEF SectorIndex, Idx
<1>5. ASSUME b \notin Started(flash)
      PROVE  SectorStatus(b) = RB_BLANK_HDR /\ Erased(flash, b)
  <2>1. flash[b] = Blank
    BY <1>5 DEF Started
  <2>2. Erased(flash, b)
    <3> SUFFICES ASSUME HasIndex(flash, b) PROVE FALSE
      BY DEF Log
    <3>1. PICK x \in 1 .. MaxIndex : \A i \in 0 .. H - 1 : flash[b + i] = SecCell(x, i)
      BY DEF HasIndex
    <3>2. flash[b] = SecCell(x, 0)
      BY <1>2, <3>1
    <3> QED
      BY <2>1, <3>2, Kinds
  <2>3. BlankRun(b, H)
    BY <1>1, <2>2 DEF BlankRun, Erased
  <2> QED
    BY <2>2, <2>3 DEF SectorStatus
<1> QED
  BY <1>4, <1>5

\* Record headers, as is_header_good sees them.
LEMMA HeaderSeen ==
    ASSUME NEW b \in Base, NEW o \in Room
    PROVE  /\ HeaderStatus(b + o) = RB_OK <=> IsHdr(flash, b + o)
           /\ HeaderStatus(b + o) = RB_BLANK_HDR => flash[b + o] = Blank /\ ~IsHdr(flash, b + o)
           /\ BlankFrom(flash, b, o) => HeaderStatus(b + o) = RB_BLANK_HDR
           /\ HeaderAt(b + o) = flash[b + o + H - 1]
<1>1. /\ H \in Nat /\ H >= 1 /\ o \in Nat /\ b \in Nat /\ S \in Nat
      /\ \A i \in 0 .. H - 1 : o + i \in 0 .. S - 1 /\ (b + o) + i = b + (o + i)
      /\ \A i \in 0 .. H - 1 : o + i \in o .. S - 1
  BY BaseFacts, RoomFacts
<1>2. \A i \in 0 .. H - 1 : FlashAt(b + o + i) = flash[b + o + i]
  BY <1>1, FlashInSector
<1>3. H - 1 \in 0 .. H - 1 /\ b + o + H - 1 = b + o + (H - 1) /\ 0 \in 0 .. H - 1 /\ b + o + 0 = b + o
  BY <1>1
<1>4. HeaderAt(b + o) = flash[b + o + H - 1]
  BY <1>2, <1>3 DEF HeaderAt
<1>5. BlankRun(b + o, H) <=> \A i \in 0 .. H - 1 : flash[b + o + i] = Blank
  BY <1>2 DEF BlankRun
<1>6. ASSUME IsHdr(flash, b + o) PROVE ~BlankRun(b + o, H)
  <2>1. flash[b + o + (H - 1)].k = "hdr"
    BY <1>3, <1>6 DEF IsHdr
  <2> QED
    BY <2>1, <1>3, <1>5, Kinds
<1>7. HeaderStatus(b + o) = RB_OK <=> IsHdr(flash, b + o)
  BY <1>2, <1>4, <1>6 DEF HeaderStatus, IsHdr, RB_OK, RB_BLANK_HDR, RB_BAD_HDR
<1>8. HeaderStatus(b + o) = RB_BLANK_HDR => BlankRun(b + o, H)
  BY DEF HeaderStatus, RB_OK, RB_BLANK_HDR, RB_BAD_HDR
<1>9. HeaderStatus(b + o) = RB_BLANK_HDR => flash[b + o] = Blank /\ ~IsHdr(flash, b + o)
  BY <1>3, <1>5, <1>6, <1>8
<1>10. BlankFrom(flash, b, o) => HeaderStatus(b + o) = RB_BLANK_HDR
  BY <1>1, <1>5 DEF BlankFrom, HeaderStatus
<1> QED
  BY <1>4, <1>7, <1>9, <1>10

\* fetch_and_check_header at a record and at the start of a sector.
LEMMA FetchedInside ==
    ASSUME NEW b \in Base, NEW o \in Room
    PROVE  /\ MOD_SECTOR(b + o) = o /\ o <= S - H - 1 /\ o # 0
           /\ Fetched(b + o) = b + o
           /\ fetch_and_check_header(b + o) = HeaderStatus(b + o)
<1>1. MOD_SECTOR(b + o) = o /\ o <= S - H - 1 /\ o # 0
  BY RoomFacts, InSector DEF Room
<1> QED
  BY <1>1 DEF Fetched, fetch_and_check_header

\* What the code sees at the beginning of a sector.
LEMMA FetchedStart ==
    ASSUME Log(flash), NEW b \in Base
    PROVE  /\ MOD_SECTOR(b) = 0
           /\ b \in Started(flash) =>
                 /\ Fetched(b) = b + H
                 /\ fetch_and_check_header(b) = HeaderStatus(b + H)
           /\ b \notin Started(flash) =>
                 Fetched(b) = b /\ fetch_and_check_header(b) = RB_BLANK_HDR
<1>1. b + 0 = b /\ 0 \in 0 .. S - 1
  BY BaseFacts, RoomFacts
<1>2. MOD_SECTOR(b) = 0
  BY <1>1, InSector
<1>3. RB_BLANK_HDR # RB_OK
  BY DEF RB_BLANK_HDR, RB_OK
<1> QED
  BY <1>2, <1>3, SectorSeen DEF Fetched, fetch_and_check_header

-----------------------------------------------------------------------------
(* The order of the sectors *)

\* Every set of natural numbers has a least element.
LEMMA LeastElement ==
    ASSUME NEW T, T \subseteq Nat, T # {}
    PROVE  \E x \in T : \A y \in T : x <= y
<1> DEFINE R == {p \in Nat \X Nat : p[1] < p[2]}
<1>1. IsWellFoundedOn(R, Nat)
  BY NatLessThanWellFounded DEF OpToRel
<1>2. PICK x \in T : \A y \in T : ~(<<y, x>> \in R)
  <2> HIDE DEF R
  <2> QED
    BY <1>1, WFMin
<1>3. \A y \in T : y < x => <<y, x>> \in R
  BY <1>2
<1>4. \A y \in T : ~(y < x)
  BY <1>2, <1>3
<1>5. \A y \in T : x <= y
  BY <1>4
<1> QED
  BY <1>5

\* A used sector has an index.
LEMMA IndexOfStarted ==
    ASSUME NEW r, Log(r), NEW b \in Started(r)
    PROVE  Idx(r, b) \in 1 .. MaxIndex /\ Idx(r, b) \in Nat /\ b \in Base
<1>1. b \in Base /\ r[b] # Blank /\ b \in Nat
  BY BaseFacts DEF Started
<1>2. b + 0 = b /\ 0 \in 0 .. H - 1 /\ 0 \in 0 .. S - 1
  BY <1>1, GeometryAssumption
<1>3. HasIndex(r, b)
  BY <1>1, <1>2 DEF Log, Erased
<1>4. PICK x \in 1 .. MaxIndex : \A i \in 0 .. H - 1 : r[b + i] = SecCell(x, i)
  BY <1>3 DEF HasIndex
<1>5. r[b] = SecCell(x, 0)
  BY <1>2, <1>4
<1> QED
  BY <1>1, <1>5, Kinds, GeometryAssumption DEF Idx

\* A sector that is not used is erased.
LEMMA NotStarted ==
    ASSUME NEW r, Log(r), NEW b \in Base, b \notin Started(r)
    PROVE  Erased(r, b)
<1>1. b + 0 = b /\ 0 \in 0 .. H - 1 /\ r[b] = Blank
  BY BaseFacts, GeometryAssumption DEF Started
<1> SUFFICES ASSUME HasIndex(r, b) PROVE FALSE
  BY DEF Log
<1>2. PICK x \in 1 .. MaxIndex : \A i \in 0 .. H - 1 : r[b + i] = SecCell(x, i)
  BY DEF HasIndex
<1>3. r[b] = SecCell(x, 0)
  BY <1>1, <1>2
<1> QED
  BY <1>1, <1>3, Kinds

\* A set of started sectors has one of the least index.
LEMMA LeastIndex ==
    ASSUME NEW r, Log(r), NEW T, T \subseteq Started(r), T # {}
    PROVE  \E e \in T : \A t \in T : Idx(r, e) <= Idx(r, t)
<1> DEFINE X == {Idx(r, t) : t \in T}
<1>1. X \subseteq Nat /\ X # {}
  BY IndexOfStarted
<1>2. PICK x \in X : \A y \in X : x <= y
  <2> HIDE DEF X
  <2> QED
    BY <1>1, LeastElement
<1>3. PICK e \in T : x = Idx(r, e)
  OBVIOUS
<1>4. \A t \in T : Idx(r, e) <= Idx(r, t)
  BY <1>2, <1>3
<1> QED
  BY <1>4

\* There is one eldest sector.
LEMMA EldestIsOne ==
    ASSUME NEW r, Log(r), NEW b, NEW d, Eldest(r, b), Eldest(r, d)
    PROVE  b = d
<1>1. /\ b \in Started(r) /\ d \in Started(r) /\ Idx(r, b) <= Idx(r, d)
      /\ Idx(r, d) <= Idx(r, b)
  BY DEF Eldest
<1>2. Idx(r, b) = Idx(r, d)
  BY <1>1, IndexOfStarted
<1> QED
  BY <1>1, <1>2 DEF Log, Ordered

\* There is one youngest sector.
LEMMA YoungestIsOne ==
    ASSUME NEW r, Log(r), NEW b, NEW d, Youngest(r, b), Youngest(r, d)
    PROVE  b = d
<1>1. /\ b \in Started(r) /\ d \in Started(r) /\ Idx(r, b) <= Idx(r, d)
      /\ Idx(r, d) <= Idx(r, b)
  BY DEF Youngest
<1>2. Idx(r, b) = Idx(r, d)
  BY <1>1, IndexOfStarted
<1> QED
  BY <1>1, <1>2 DEF Log, Ordered

\* A started sector is the youngest if nothing or the eldest comes after it.
LEMMA EndOfArc ==
    ASSUME NEW r, Log(r), NEW p \in Started(r),
           After(p) \notin Started(r) \/ Eldest(r, After(p))
    PROVE  Youngest(r, p)
<1> DEFINE T == {t \in Started(r) : Idx(r, p) < Idx(r, t)}
<1>1. SUFFICES ASSUME T # {} PROVE FALSE
  <2>1. \A t \in Started(r) : ~(Idx(r, p) < Idx(r, t))
    BY <1>1
  <2>2. \A t \in Started(r) : Idx(r, t) <= Idx(r, p)
    BY <2>1, IndexOfStarted
  <2> QED
    BY <2>2 DEF Youngest
<1>2. PICK t \in T : \A u \in T : Idx(r, t) <= Idx(r, u)
  BY <1>1, LeastIndex
<1>3. PICK q \in Base : After(q) = t
  <2>1. t \in Base
    BY IndexOfStarted
  <2> QED
    BY <2>1, AfterOnto
<1>4. q \in Started(r) /\ Idx(r, p) <= Idx(r, q) /\ Idx(r, q) < Idx(r, t)
  BY <1>2, <1>3 DEF Log, Ordered
<1>5. q \notin T
  BY <1>2, <1>4, IndexOfStarted
<1>6. Idx(r, p) = Idx(r, q)
  BY <1>4, <1>5, IndexOfStarted
<1>7. p = q
  BY <1>4, <1>6 DEF Log, Ordered
<1>8. Eldest(r, t) /\ Idx(r, p) < Idx(r, t)
  BY <1>2, <1>3, <1>7
<1> QED
  BY <1>8, IndexOfStarted DEF Eldest

\* After the youngest sector comes an erased one or the eldest.
LEMMA AfterYoungest ==
    ASSUME NEW r, Log(r), NEW p, Youngest(r, p), After(p) \in Started(r)
    PROVE  Eldest(r, After(p))
<1>1. p \in Started(r) /\ p \in Base
  BY IndexOfStarted DEF Youngest
<1>2. SUFFICES ASSUME NEW t \in Started(r), Idx(r, t) < Idx(r, After(p)) PROVE FALSE
  <2>1. \A t \in Started(r) : Idx(r, After(p)) <= Idx(r, t)
    BY <1>2, IndexOfStarted
  <2> QED
    BY <2>1 DEF Eldest
<1>3. Idx(r, p) < Idx(r, After(p))
  BY <1>1, <1>2 DEF Log, Ordered
<1> QED
  BY <1>1, <1>3, IndexOfStarted DEF Youngest

\* A record that reaches to the end of its sector closes it.
LEMMA EndCloses ==
    ASSUME NEW r, NEW b, Laid(r, b), NEW u \in H .. S, Bound(r, b, u), u > S - H - 1
    PROVE  Closed(r, b)
<1> SUFFICES ASSUME NEW o \in Room, Open(r, b, o) PROVE FALSE
  BY DEF Closed
<1>1. u <= o
  BY DEF Laid
<1> QED
  BY <1>1, RoomFacts DEF Room

-----------------------------------------------------------------------------
(* What a change of the flash does to the log *)

SameIn(r, q, b) == \A i \in 0 .. S - 1 : q[b + i] = r[b + i]
SameHdrs(r, q, b) ==
    \A o \in Room : /\ IsHdr(q, b + o) <=> IsHdr(r, b + o)
                    /\ IsHdr(r, b + o) => EndOf(q, b, o) = EndOf(r, b, o)

\* Headers do not change where the cells do not.
LEMMA SameCells ==
    ASSUME NEW r, NEW q, NEW b \in Base, SameIn(r, q, b)
    PROVE  SameHdrs(r, q, b) /\ q[b] = r[b]
<1>1. \A o \in Room : \A i \in 0 .. H - 1 : q[b + o + i] = r[b + o + i]
  <2> SUFFICES ASSUME NEW o \in Room, NEW i \in 0 .. H - 1 PROVE q[b + o + i] = r[b + o + i]
    OBVIOUS
  <2>1. o + i \in 0 .. S - 1 /\ b + o + i = b + (o + i)
    BY RoomFacts, BaseFacts
  <2> QED
    BY <2>1 DEF SameIn
<1>2. \A o \in Room : q[b + o + H - 1] = r[b + o + H - 1]
  <2> SUFFICES ASSUME NEW o \in Room PROVE q[b + o + H - 1] = r[b + o + H - 1]
    OBVIOUS
  <2>1. H - 1 \in 0 .. H - 1 /\ b + o + H - 1 = b + o + (H - 1)
    BY RoomFacts, BaseFacts
  <2> QED
    BY <1>1, <2>1
<1>3. 0 \in 0 .. S - 1 /\ b + 0 = b
  BY RoomFacts, BaseFacts
<1>4. q[b] = r[b]
  BY <1>3 DEF SameIn
<1> QED
  BY <1>1, <1>2, <1>4 DEF SameHdrs, IsHdr, EndOf

\* Records end where they ended.
LEMMA SameBounds ==
    ASSUME NEW r, NEW q, NEW b, SameHdrs(r, q, b)
    PROVE  /\ \A u : Bound(q, b, u) <=> Bound(r, b, u)
           /\ \A o : Open(q, b, o) <=> Open(r, b, o)
           /\ Closed(q, b) <=> Closed(r, b)
<1>1. \A u : Bound(q, b, u) <=> Bound(r, b, u)
  BY DEF SameHdrs, Bound
<1>2. \A o : Open(q, b, o) <=> Open(r, b, o)
  BY <1>1 DEF Open, SameHdrs
<1> QED
  BY <1>1, <1>2 DEF Closed

\* A sector with the same cells is as well laid out, if it is still the youngest.
LEMMA SameLaid ==
    ASSUME NEW r, NEW q, NEW b \in Base, SameIn(r, q, b), Laid(r, b),
           Youngest(r, b) => Youngest(q, b) \/ Closed(r, b)
    PROVE  Laid(q, b)
<1>1. SameHdrs(r, q, b)
  BY SameCells
<1>2. /\ \A u : Bound(q, b, u) <=> Bound(r, b, u)
      /\ \A o : Open(q, b, o) <=> Open(r, b, o)
  BY <1>1, SameBounds
<1>3. \A p \in Room : IsHdr(q, b + p) => EndOf(q, b, p) <= S
  BY <1>1 DEF SameHdrs, Laid
<1>4. ASSUME NEW o \in Room, Open(q, b, o)
      PROVE  /\ Youngest(q, b)
             /\ \A u \in H .. S : Bound(q, b, u) => u <= o
             /\ BlankFrom(q, b, o + H - 1)
             /\ q[b + o] = Blank => BlankFrom(q, b, o)
  <2>1. Open(r, b, o)
    BY <1>2, <1>4
  <2>2. /\ Youngest(r, b) /\ \A u \in H .. S : Bound(r, b, u) => u <= o
        /\ BlankFrom(r, b, o + H - 1)
        /\ r[b + o] = Blank => BlankFrom(r, b, o)
    BY <2>1 DEF Laid
  <2>3. Youngest(q, b)
    BY <2>1, <2>2 DEF Closed
  <2>4. o \in 0 .. S - 1 /\ \A i \in o .. S - 1 : i \in 0 .. S - 1
    BY RoomFacts
  <2>5. \A i \in o + H - 1 .. S - 1 : i \in 0 .. S - 1
    BY RoomFacts
  <2>6. BlankFrom(q, b, o + H - 1)
    BY <2>2, <2>5 DEF BlankFrom, SameIn
  <2>7. q[b + o] = Blank => BlankFrom(q, b, o)
    BY <2>2, <2>4 DEF BlankFrom, SameIn
  <2> QED
    BY <1>2, <2>2, <2>3, <2>6, <2>7
<1> QED
  BY <1>3, <1>4 DEF Laid

\* A change of one sector that leaves the sector headers alone.
LEMMA HeadersKept ==
    ASSUME NEW r, NEW q, NEW d \in Base,
           \A b \in Base \ {d} : SameIn(r, q, b), q[d] = r[d]
    PROVE  /\ Started(q) = Started(r)
           /\ \A b \in Base : Idx(q, b) = Idx(r, b)
           /\ \A b : Youngest(q, b) <=> Youngest(r, b)
           /\ \A b : Eldest(q, b) <=> Eldest(r, b)
<1>1. \A b \in Base : q[b] = r[b]
  BY SameCells
<1>2. Started(q) = Started(r)
  BY <1>1 DEF Started
<1>3. \A b \in Base : Idx(q, b) = Idx(r, b)
  BY <1>1 DEF Idx
<1>4. \A b \in Started(r) : Idx(q, b) = Idx(r, b)
  BY <1>3 DEF Started
<1> QED
  BY <1>2, <1>3, <1>4 DEF Youngest, Eldest

\* The order of the sectors is the order of their indices.
LEMMA SameOrder ==
    ASSUME NEW r, NEW q, Ordered(r), Started(q) = Started(r),
           \A b \in Base : Idx(q, b) = Idx(r, b)
    PROVE  Ordered(q)
<1>1. \A b \in Started(r) : Idx(q, b) = Idx(r, b)
  BY DEF Started
<1> QED
  BY <1>1 DEF Ordered

\* A log in which the contents of one used sector change, and stay laid
\* out, is a log.
LEMMA OneChanged ==
    ASSUME NEW r, Log(r), NEW q, NEW d \in Started(r),
           \A b \in Base \ {d} : SameIn(r, q, b),
           \A i \in 0 .. H - 1 : q[d + i] = r[d + i],
           \A i \in 0 .. S - 1 : q[d + i] # Junk,
           Laid(q, d)
    PROVE  Log(q)
<1>0. d \in Base
  BY DEF Started
<1>1. 0 \in 0 .. H - 1 /\ d + 0 = d
  BY <1>0, BaseFacts, RoomFacts
<1>2. q[d] = r[d]
  BY <1>1
<1>3. /\ Started(q) = Started(r) /\ \A b \in Base : Idx(q, b) = Idx(r, b)
      /\ \A b : Youngest(q, b) <=> Youngest(r, b)
  BY <1>0, <1>2, HeadersKept
<1>4. ASSUME NEW a \in Addr PROVE q[a] # Junk
  <2>1. PICK b \in Base, i \in 0 .. S - 1 : a = b + i
    BY AddrSplit
  <2>2. r[b + i] # Junk
    BY <2>1 DEF Log
  <2> QED
    BY <2>1, <2>2 DEF SameIn
<1>5. ASSUME NEW b \in Base PROVE Erased(q, b) \/ HasIndex(q, b)
  <2>1. CASE b = d
    <3>1. HasIndex(r, d)
      BY <1>0, <1>1, RoomFacts DEF Log, Erased, Started
    <3>2. HasIndex(q, d)
      BY <3>1 DEF HasIndex
    <3> QED
      BY <2>1, <3>2
  <2>2. CASE b # d
    <3>1. SameIn(r, q, b) /\ \A i \in 0 .. H - 1 : i \in 0 .. S - 1
      BY <2>2, RoomFacts
    <3>2. \A i \in 0 .. H - 1 : q[b + i] = r[b + i]
      BY <3>1 DEF SameIn
    <3>3. HasIndex(r, b) => HasIndex(q, b)
      BY <3>2 DEF HasIndex
    <3>4. Erased(r, b) => Erased(q, b)
      BY <3>1 DEF SameIn, Erased
    <3> QED
      BY <3>3, <3>4 DEF Log
  <2> QED
    BY <2>1, <2>2
<1>6. Ordered(q)
  BY <1>3, SameOrder DEF Log
<1>7. ASSUME NEW b \in Started(q) PROVE Laid(q, b)
  <2>1. b \in Started(r) /\ b \in Base /\ Laid(r, b)
    BY <1>3 DEF Log, Started
  <2>2. CASE b # d
    BY <1>3, <2>1, <2>2, SameLaid
  <2> QED
    BY <2>2
<1> QED
  BY <1>4, <1>5, <1>6, <1>7 DEF Log

\* Where two places of a sector are open, they are one.
LEMMA OpenIsOne ==
    ASSUME NEW r, NEW b, Laid(r, b), NEW o, NEW u, Open(r, b, o), Open(r, b, u)
    PROVE  o = u
<1>1. /\ o \in Room /\ u \in Room /\ Bound(r, b, o) /\ Bound(r, b, u)
      /\ o \in H .. S /\ u \in H .. S
  BY RoomFacts DEF Open, Room
<1>2. o <= u /\ u <= o
  BY <1>1 DEF Laid
<1> QED
  BY <1>1, <1>2

\* Cells w .. of seg go to sector d from position o on.
Put(r, q, d, o, w, seg) ==
    /\ \A b \in Base \ {d} : SameIn(r, q, b)
    /\ \A i \in 0 .. S - 1 :
          q[d + i] = IF o <= i /\ i < o + w THEN seg[i - o + 1] ELSE r[d + i]

\* Of the header of a new record j bytes are there; the next w are written.
HeaderPut(r, q, d, h, j, w, id, len, split, seg) ==
    /\ Youngest(r, d) /\ h \in Room /\ Open(r, d, h) /\ j \in 0 .. H - 1 /\ w \in 1 .. H - j
    /\ BlankFrom(r, d, h + j)
    /\ \A i \in 0 .. j - 1 : r[d + h + i] = Part(id, len, split, i)
    /\ \A i \in 1 .. w : seg[i] = Part(id, len, split, i + j - 1)
    /\ Put(r, q, d, h + j, w, seg)

\* Other headers are as before.
LEMMA OtherHeaders ==
    ASSUME NEW r, NEW q, NEW d, NEW h, NEW j, NEW w, NEW id, NEW len, NEW split, NEW seg,
           HeaderPut(r, q, d, h, j, w, id, len, split, seg), NEW o \in Room, o # h
    PROVE  /\ IsHdr(q, d + o) <=> IsHdr(r, d + o)
           /\ IsHdr(r, d + o) => EndOf(q, d, o) = EndOf(r, d, o)
<1>0. /\ h \in Room /\ j \in 0 .. H - 1 /\ w \in 1 .. H - j /\ BlankFrom(r, d, h + j)
      /\ \A i \in 1 .. w : seg[i] = Part(id, len, split, i + j - 1)
      /\ Put(r, q, d, h + j, w, seg) /\ d \in Base
  BY DEF HeaderPut, Youngest, Started
<1>1. /\ H \in Nat /\ H >= 1 /\ S \in Nat /\ d \in Nat /\ o \in Nat /\ h \in Nat /\ j \in Nat
      /\ w \in Nat
      /\ \A i \in 0 .. H - 1 : o + i \in 0 .. S - 1 /\ d + o + i = d + (o + i)
  BY <1>0, RoomFacts, BaseFacts
<1> DEFINE In(i) == h + j <= o + i /\ o + i < h + j + w
<1>2. \A i \in 0 .. H - 1 :
         q[d + o + i] = IF In(i) THEN seg[(o + i) - (h + j) + 1] ELSE r[d + o + i]
  BY <1>0, <1>1 DEF Put
<1>3. ASSUME NEW i \in 0 .. H - 1, In(i)
      PROVE  r[d + o + i] = Blank /\ q[d + o + i].part # i /\ q[d + o + i].k = "hdr"
  <2>1. o + i \in h + j .. S - 1
    BY <1>1, <1>3
  <2>2. r[d + o + i] = Blank
    BY <1>0, <1>1, <2>1 DEF BlankFrom
  <2>3. (o + i) - (h + j) + 1 \in 1 .. w
    BY <1>1, <1>3
  <2>4. q[d + o + i] = Part(id, len, split, (o + i) - (h + j) + 1 + j - 1)
    BY <1>0, <1>2, <1>3, <2>3
  <2>5. (o + i) - (h + j) + 1 + j - 1 = (o - h) + i /\ (o - h) + i # i
    BY <1>1
  <2> QED
    BY <2>2, <2>4, <2>5, Kinds, PartKinds
<1>4. H - 1 \in 0 .. H - 1 /\ d + o + H - 1 = d + o + (H - 1)
  BY <1>1
<1> HIDE DEF In
<1>5. ASSUME NEW x, x \in {r, q}, IsHdr(x, d + o), NEW i \in 0 .. H - 1 PROVE ~In(i)
  <2>1. x[d + o + i].k = "hdr" /\ x[d + o + i].part = i
    BY <1>5, Kinds, PartKinds DEF IsHdr
  <2> QED
    BY <1>3, <1>5, <2>1, Kinds, PartKinds
<1>6. ASSUME IsHdr(r, d + o) \/ IsHdr(q, d + o)
      PROVE  /\ \A i \in 0 .. H - 1 : q[d + o + i] = r[d + o + i]
             /\ q[d + o + H - 1] = r[d + o + H - 1]
  <2>1. \A i \in 0 .. H - 1 : ~In(i)
    BY <1>5, <1>6
  <2>2. \A i \in 0 .. H - 1 : q[d + o + i] = r[d + o + i]
    BY <1>2, <2>1
  <2> QED
    BY <2>2, <1>4
<1>7. IsHdr(q, d + o) <=> IsHdr(r, d + o)
  BY <1>6 DEF IsHdr
<1> QED
  BY <1>6, <1>7 DEF EndOf

\* What the sector holds after a part of a header was written.
LEMMA HeaderBegun ==
    ASSUME NEW r, Log(r), NEW q, NEW d, NEW h, NEW j, NEW w, NEW id, NEW len, NEW split,
           NEW seg, HeaderPut(r, q, d, h, j, w, id, len, split, seg)
    PROVE  /\ \A i \in 0 .. j + w - 1 : q[d + h + i] = Part(id, len, split, i)
           /\ BlankFrom(q, d, h + j + w)
           /\ \A i \in 0 .. H - 1 : q[d + i] = r[d + i]
           /\ \A i \in 0 .. S - 1 : q[d + i] # Junk
           /\ q[d + h] # Blank
<1>0. /\ d \in Base /\ d \in Started(r) /\ Laid(r, d)
      /\ h \in Room /\ j \in 0 .. H - 1 /\ w \in 1 .. H - j /\ Open(r, d, h)
      /\ BlankFrom(r, d, h + j)
      /\ Put(r, q, d, h + j, w, seg)
      /\ \A i \in 0 .. j - 1 : r[d + h + i] = Part(id, len, split, i)
      /\ \A i \in 1 .. w : seg[i] = Part(id, len, split, i + j - 1)
  BY DEF Started, Youngest, Log, HeaderPut
<1>1. /\ H \in Nat /\ H >= 1 /\ S \in Nat /\ d \in Nat /\ h \in Nat /\ j \in Nat
      /\ w \in Nat /\ h >= H /\ h + H <= S - 1 /\ j + w <= H /\ w >= 1
      /\ \A i \in 0 .. H - 1 : h + i \in 0 .. S - 1 /\ d + h + i = d + (h + i)
  <2>1. d \in Nat /\ h \in Room /\ j \in 0 .. H - 1 /\ w \in 1 .. H - j
    BY <1>0, BaseFacts
  <2> QED
    BY <2>1, RoomFacts
<1>2. ASSUME NEW i \in 0 .. j + w - 1 PROVE q[d + h + i] = Part(id, len, split, i)
  <2>1. h + i \in 0 .. S - 1 /\ d + h + i = d + (h + i)
    BY <1>1
  <2>2. CASE i < j
    <3>1. ~(h + j <= h + i)
      BY <1>1, <2>2
    <3>2. q[d + (h + i)] = r[d + (h + i)]
      BY <1>0, <2>1, <3>1 DEF Put
    <3> QED
      BY <1>0, <2>1, <2>2, <3>2, <1>1
  <2>3. CASE i >= j
    <3>1. (h + i) - (h + j) + 1 \in 1 .. w /\ (h + i) - (h + j) + 1 + j - 1 = i
          /\ h + j <= h + i /\ h + i < h + j + w
      BY <1>1, <2>3
    <3>2. q[d + (h + i)] = seg[(h + i) - (h + j) + 1]
      BY <1>0, <2>1, <3>1 DEF Put
    <3> QED
      BY <1>0, <2>1, <3>1, <3>2
  <2> QED
    BY <1>1, <2>2, <2>3
<1>3. BlankFrom(q, d, h + j + w)
  <2> SUFFICES ASSUME NEW i \in h + j + w .. S - 1 PROVE q[d + i] = Blank
    BY DEF BlankFrom
  <2>1. i \in 0 .. S - 1 /\ ~(i < h + j + w) /\ i \in h + j .. S - 1
    BY <1>1
  <2> QED
    BY <1>0, <2>1 DEF Put, BlankFrom
<1>4. ASSUME NEW i \in 0 .. H - 1 PROVE q[d + i] = r[d + i]
  <2>1. i \in 0 .. S - 1 /\ ~(h + j <= i)
    BY <1>1
  <2> QED
    BY <1>0, <2>1 DEF Put
<1>5. ASSUME NEW i \in 0 .. S - 1 PROVE q[d + i] # Junk
  <2>1. CASE h + j <= i /\ i < h + j + w
    <3>1. i - (h + j) + 1 \in 1 .. w
      BY <1>1, <2>1
    <3>2. q[d + i] = seg[i - (h + j) + 1]
      BY <1>0, <2>1 DEF Put
    <3> QED
      BY <1>0, <3>1, <3>2, Kinds, PartKinds
  <2>2. CASE ~(h + j <= i /\ i < h + j + w)
    <3>1. q[d + i] = r[d + i] /\ d + i \in Addr
      BY <1>0, <2>2, BaseFacts DEF Put
    <3> QED
      BY <3>1 DEF Log
  <2> QED
    BY <2>1, <2>2
<1>6. q[d + h] # Blank
  <2>1. 0 \in 0 .. j + w - 1 /\ d + h + 0 = d + h
    BY <1>1
  <2>2. q[d + h] = Part(id, len, split, 0)
    BY <1>2, <2>1
  <2> QED
    BY <2>2, Kinds, PartKinds
<1> QED
  BY <1>2, <1>3, <1>4, <1>5, <1>6

\* A part of a header is not a header.
LEMMA PartOfHeader ==
    ASSUME NEW id, NEW len, NEW split, NEW j, NEW i, NEW c, c = Part(id, len, split, j)
    PROVE  HdrCell(c.id, c.len, c.split, c.live, i) = Part(id, len, split, i)
<1>1. c.live = TRUE
  BY DEF Part, HdrCell
<1>2. c.id = id /\ c.len = len /\ c.split = split
  BY PartKinds
<1> QED
  BY <1>1, <1>2, Zenon DEF Part

AllParts(q, a, id, len, split) ==
    \A i \in 0 .. H - 1 : q[a + i] = Part(id, len, split, i)
\* All parts of a header are a header.
LEMMA PartsAreHeader ==
    ASSUME NEW q, NEW a \in Nat, NEW id, NEW len, NEW split, AllParts(q, a, id, len, split)
    PROVE  IsHdr(q, a) /\ q[a + H - 1].len = len
<1>1. H - 1 \in 0 .. H - 1 /\ a + H - 1 = a + (H - 1)
  BY RoomFacts
<1>2. q[a + H - 1] = Part(id, len, split, H - 1)
  BY <1>1 DEF AllParts
<1> DEFINE c == q[a + H - 1]
<1>3. c.k = "hdr" /\ c.len = len
  BY <1>2, PartKinds
<1>4. \A i : HdrCell(c.id, c.len, c.split, c.live, i) = Part(id, len, split, i)
  BY <1>2, PartOfHeader
<1> QED
  BY <1>3, <1>4 DEF IsHdr, AllParts

\* A record begins at the open place of the youngest sector: its header is not
\* whole yet.
LEMMA HeaderPart ==
    ASSUME NEW r, Log(r), NEW q, NEW d, NEW h, NEW j, NEW w, NEW id, NEW len, NEW split,
           NEW seg, HeaderPut(r, q, d, h, j, w, id, len, split, seg), j + w < H
    PROVE  Log(q) /\ Open(q, d, h)
<1>0. /\ d \in Base /\ d \in Started(r) /\ Laid(r, d)
      /\ h \in Room /\ j \in 0 .. H - 1 /\ w \in 1 .. H - j /\ Open(r, d, h)
      /\ BlankFrom(r, d, h + j)
      /\ Put(r, q, d, h + j, w, seg)
  BY DEF Started, Youngest, Log, HeaderPut
<1>1. /\ \A i \in 0 .. j + w - 1 : q[d + h + i] = Part(id, len, split, i)
      /\ BlankFrom(q, d, h + j + w)
      /\ \A i \in 0 .. H - 1 : q[d + i] = r[d + i]
      /\ \A i \in 0 .. S - 1 : q[d + i] # Junk
      /\ q[d + h] # Blank
  BY HeaderBegun
<1>2. /\ H \in Nat /\ H >= 1 /\ S \in Nat /\ h \in Nat /\ h + H <= S - 1 /\ d \in Nat
      /\ j \in Nat /\ w \in Nat /\ h + H - 1 \in h + j + w .. S - 1
      /\ d + h + H - 1 = d + (h + H - 1)
  BY <1>0, RoomFacts, BaseFacts
<1>3. ~IsHdr(q, d + h)
  BY <1>1, <1>2, Kinds DEF IsHdr, BlankFrom
<1>4. ~IsHdr(r, d + h)
  BY <1>0 DEF Open
<1>5. SameHdrs(r, q, d)
  <2>1. ASSUME NEW o \in Room
        PROVE  /\ IsHdr(q, d + o) <=> IsHdr(r, d + o)
               /\ IsHdr(r, d + o) => EndOf(q, d, o) = EndOf(r, d, o)
    <3>1. CASE o = h
      BY <1>3, <1>4, <3>1
    <3>2. CASE o # h
      BY <3>2, OtherHeaders
    <3> QED
      BY <3>1, <3>2
  <2> QED
    BY <2>1 DEF SameHdrs
<1>6. /\ \A u : Bound(q, d, u) <=> Bound(r, d, u)
      /\ \A o : Open(q, d, o) <=> Open(r, d, o)
  BY <1>5, SameBounds
<1>7. q[d] = r[d]
  <2>1. 0 \in 0 .. H - 1 /\ d + 0 = d
    BY <1>2
  <2> QED
    BY <1>1, <2>1
<1>8. Youngest(q, d)
  BY <1>0, <1>7, HeadersKept DEF Put, HeaderPut
<1>9. Laid(q, d)
  <2>1. \A p \in Room : IsHdr(q, d + p) => EndOf(q, d, p) <= S
    BY <1>0, <1>5 DEF SameHdrs, Laid
  <2>2. ASSUME NEW o \in Room, Open(q, d, o)
        PROVE  /\ \A u \in H .. S : Bound(q, d, u) => u <= o
               /\ BlankFrom(q, d, o + H - 1)
               /\ q[d + o] = Blank => BlankFrom(q, d, o)
    <3>1. o = h
      BY <1>0, <1>6, <2>2, OpenIsOne
    <3>2. \A u \in H .. S : Bound(q, d, u) => u <= o
      BY <1>0, <1>6, <2>2 DEF Laid
    <3>3. \A i \in h + H - 1 .. S - 1 : i \in h + j + w .. S - 1
      BY <1>2
    <3>4. BlankFrom(q, d, h + H - 1)
      BY <1>1, <3>3 DEF BlankFrom
    <3> QED
      BY <1>1, <3>1, <3>2, <3>4
  <2> QED
    BY <1>8, <2>1, <2>2 DEF Laid
<1>10. Log(q)
  <2>1. \A b \in Base \ {d} : SameIn(r, q, b)
    BY <1>0 DEF Put
  <2> QED
    BY <1>0, <1>1, <1>9, <2>1, OneChanged
<1> QED
  BY <1>0, <1>6, <1>10

\* The header is whole: the record ends where the next may begin.
LEMMA HeaderWhole ==
    ASSUME NEW r, Log(r), NEW q, NEW d, NEW h, NEW j, NEW w, NEW id, NEW len \in Nat, NEW split,
           NEW seg, HeaderPut(r, q, d, h, j, w, id, len, split, seg),
           j + w = H, h + H + len <= S
    PROVE  /\ Log(q) /\ IsHdr(q, d + h) /\ EndOf(q, d, h) = h + H + len
           /\ BlankFrom(q, d, h + H)
<1>0. /\ d \in Base /\ d \in Started(r) /\ Laid(r, d)
      /\ h \in Room /\ j \in 0 .. H - 1 /\ w \in 1 .. H - j /\ Open(r, d, h)
      /\ BlankFrom(r, d, h + j)
      /\ Put(r, q, d, h + j, w, seg)
  BY DEF Started, Youngest, Log, HeaderPut
<1>1. /\ \A i \in 0 .. j + w - 1 : q[d + h + i] = Part(id, len, split, i)
      /\ BlankFrom(q, d, h + j + w)
      /\ \A i \in 0 .. H - 1 : q[d + i] = r[d + i]
      /\ \A i \in 0 .. S - 1 : q[d + i] # Junk
      /\ q[d + h] # Blank
  BY HeaderBegun
<1>2. /\ H \in Nat /\ H >= 1 /\ S \in Nat /\ h \in Nat /\ h + H <= S - 1 /\ d \in Nat
      /\ j \in Nat /\ w \in Nat /\ h + j + w = h + H /\ d + h \in Nat
      /\ j + w - 1 = H - 1
  BY <1>0, RoomFacts, BaseFacts
<1>3. IsHdr(q, d + h) /\ EndOf(q, d, h) = h + H + len
  <2>1. \A i \in 0 .. H - 1 : q[(d + h) + i] = Part(id, len, split, i)
    BY <1>1, <1>2
  <2>2. IsHdr(q, d + h) /\ q[d + h + H - 1].len = len
    <3>1. AllParts(q, d + h, id, len, split)
      BY <2>1 DEF AllParts
    <3> QED
      BY <1>2, <3>1, PartsAreHeader
  <2> QED
    BY <2>2 DEF EndOf
<1>4. ASSUME NEW o \in Room, o # h
      PROVE  /\ IsHdr(q, d + o) <=> IsHdr(r, d + o)
             /\ IsHdr(r, d + o) => EndOf(q, d, o) = EndOf(r, d, o)
  BY <1>4, OtherHeaders
<1>5. ~IsHdr(r, d + h)
  BY <1>0 DEF Open
<1>6. \A u : Bound(q, d, u) <=> (Bound(r, d, u) \/ u = h + H + len)
  <2>1. h \in Room
    BY <1>0
  <2>2. \A u : Bound(q, d, u) => Bound(r, d, u) \/ u = h + H + len
    BY <1>3, <1>4 DEF Bound
  <2>3. \A u : Bound(r, d, u) => Bound(q, d, u)
    BY <1>4, <1>5 DEF Bound
  <2>4. Bound(q, d, h + H + len)
    BY <1>3, <2>1 DEF Bound
  <2> QED
    BY <2>2, <2>3, <2>4
<1>7. q[d] = r[d]
  <2>1. 0 \in 0 .. H - 1 /\ d + 0 = d
    BY <1>2
  <2> QED
    BY <1>1, <2>1
<1>8. Youngest(q, d)
  BY <1>0, <1>7, HeadersKept DEF Put, HeaderPut
<1>9. BlankFrom(q, d, h + H)
  BY <1>1, <1>2
<1>10. Laid(q, d)
  <2>1. \A p \in Room : IsHdr(q, d + p) => EndOf(q, d, p) <= S
    <3> SUFFICES ASSUME NEW p \in Room, IsHdr(q, d + p) PROVE EndOf(q, d, p) <= S
      OBVIOUS
    <3>1. CASE p = h
      BY <1>3, <3>1
    <3>2. CASE p # h
      BY <1>0, <1>4, <3>2 DEF Laid
    <3> QED
      BY <3>1, <3>2
  <2>2. ASSUME NEW o \in Room, Open(q, d, o)
        PROVE  /\ \A u \in H .. S : Bound(q, d, u) => u <= o
               /\ BlankFrom(q, d, o + H - 1)
               /\ BlankFrom(q, d, o)
    <3>1. o = h + H + len
      <4>1. SUFFICES ASSUME Bound(r, d, o) PROVE FALSE
        BY <1>6, <2>2 DEF Open
      <4>2. o # h
        BY <1>3, <2>2 DEF Open
      <4>3. Open(r, d, o)
        BY <1>4, <2>2, <4>1, <4>2 DEF Open
      <4> QED
        BY <1>0, <4>2, <4>3, OpenIsOne
    <3>2. \A u \in H .. S : Bound(r, d, u) => u <= h
      BY <1>0 DEF Laid
    <3>3. \A u \in H .. S : Bound(q, d, u) => u <= o
      BY <1>2, <1>6, <3>1, <3>2
    <3>4. /\ \A i \in o + H - 1 .. S - 1 : i \in h + H .. S - 1
          /\ \A i \in o .. S - 1 : i \in h + H .. S - 1
      BY <1>2, <3>1
    <3>5. BlankFrom(q, d, o + H - 1) /\ BlankFrom(q, d, o)
      BY <1>9, <3>4 DEF BlankFrom
    <3> QED
      BY <3>3, <3>5
  <2> QED
    BY <1>8, <2>1, <2>2 DEF Laid
<1>11. Log(q)
  <2>1. \A b \in Base \ {d} : SameIn(r, q, b)
    BY <1>0 DEF Put
  <2> QED
    BY <1>0, <1>1, <1>10, <2>1, OneChanged
<1> QED
  BY <1>3, <1>9, <1>11

\* The next w bytes of the youngest record's data are written at o.
DataPut(r, q, d, h, o, w, seg) ==
    /\ Youngest(r, d) /\ h \in Room /\ IsHdr(r, d + h) /\ o \in Nat /\ w \in Nat
    /\ EndOf(r, d, h) \in Nat
    /\ h + H <= o /\ o + w <= EndOf(r, d, h) /\ BlankFrom(r, d, o)
    /\ \A i \in 1 .. w : seg[i].k \in {"data", "wild"}
    /\ Put(r, q, d, o, w, seg)

\* Data passes for no header and hides none.
LEMMA DataKeepsHeaders ==
    ASSUME NEW r, Log(r), NEW q, NEW d, NEW h, NEW o, NEW w, NEW seg,
           DataPut(r, q, d, h, o, w, seg)
    PROVE  SameHdrs(r, q, d)
<1>0. /\ d \in Base /\ h \in Room /\ o \in Nat /\ w \in Nat /\ h + H <= o
      /\ BlankFrom(r, d, o) /\ Put(r, q, d, o, w, seg)
      /\ \A i \in 1 .. w : seg[i].k \in {"data", "wild"}
  BY DEF DataPut, Youngest, Started
<1> SUFFICES ASSUME NEW p \in Room
             PROVE  /\ IsHdr(q, d + p) <=> IsHdr(r, d + p)
                    /\ IsHdr(r, d + p) => EndOf(q, d, p) = EndOf(r, d, p)
  BY DEF SameHdrs
<1>1. /\ H \in Nat /\ H >= 1 /\ S \in Nat /\ d \in Nat /\ p \in Nat
      /\ \A i \in 0 .. H - 1 : p + i \in 0 .. S - 1 /\ d + p + i = d + (p + i)
  BY <1>0, RoomFacts, BaseFacts
<1> DEFINE In(i) == o <= p + i /\ p + i < o + w
<1>2. \A i \in 0 .. H - 1 :
         q[d + p + i] = IF In(i) THEN seg[(p + i) - o + 1] ELSE r[d + p + i]
  BY <1>0, <1>1 DEF Put
<1>3. ASSUME NEW i \in 0 .. H - 1, In(i)
      PROVE  r[d + p + i] = Blank /\ q[d + p + i].k # "hdr"
  <2>1. p + i \in o .. S - 1
    BY <1>0, <1>1, <1>3
  <2>2. r[d + p + i] = Blank
    BY <1>0, <1>1, <2>1 DEF BlankFrom
  <2>3. (p + i) - o + 1 \in 1 .. w
    BY <1>0, <1>1, <1>3
  <2>4. q[d + p + i] = seg[(p + i) - o + 1]
    BY <1>2, <1>3
  <2> QED
    BY <1>0, <2>2, <2>3, <2>4
<1>4. H - 1 \in 0 .. H - 1 /\ d + p + H - 1 = d + p + (H - 1)
  BY <1>1
<1> HIDE DEF In
<1>5. ASSUME NEW x, x \in {r, q}, IsHdr(x, d + p), NEW i \in 0 .. H - 1 PROVE ~In(i)
  <2>1. x[d + p + i].k = "hdr"
    BY <1>5, Kinds DEF IsHdr
  <2> QED
    BY <1>3, <1>5, <2>1, Kinds
<1>6. ASSUME IsHdr(r, d + p) \/ IsHdr(q, d + p)
      PROVE  /\ \A i \in 0 .. H - 1 : q[d + p + i] = r[d + p + i]
             /\ q[d + p + H - 1] = r[d + p + H - 1]
  <2>1. \A i \in 0 .. H - 1 : ~In(i)
    BY <1>5, <1>6
  <2>2. \A i \in 0 .. H - 1 : q[d + p + i] = r[d + p + i]
    BY <1>2, <2>1
  <2> QED
    BY <2>2, <1>4
<1>7. IsHdr(q, d + p) <=> IsHdr(r, d + p)
  BY <1>6 DEF IsHdr
<1> QED
  BY <1>6, <1>7 DEF EndOf

\* Data is written behind the last header: the log stays a log.
LEMMA DataWritten ==
    ASSUME NEW r, Log(r), NEW q, NEW d, NEW h, NEW o, NEW w, NEW seg,
           DataPut(r, q, d, h, o, w, seg)
    PROVE  /\ Log(q) /\ IsHdr(q, d + h) /\ EndOf(q, d, h) = EndOf(r, d, h)
           /\ BlankFrom(q, d, o + w) /\ q[d] = r[d]
<1>0. /\ d \in Base /\ d \in Started(r) /\ Laid(r, d) /\ Youngest(r, d)
      /\ h \in Room /\ o \in Nat /\ w \in Nat /\ h + H <= o
      /\ IsHdr(r, d + h) /\ EndOf(r, d, h) \in Nat /\ o + w <= EndOf(r, d, h)
      /\ BlankFrom(r, d, o) /\ Put(r, q, d, o, w, seg)
      /\ \A i \in 1 .. w : seg[i].k \in {"data", "wild"}
  BY DEF DataPut, Youngest, Started, Log
<1>1. SameHdrs(r, q, d)
  BY DataKeepsHeaders
<1>2. /\ H \in Nat /\ H >= 1 /\ S \in Nat /\ d \in Nat /\ h \in Nat /\ h >= H
  BY <1>0, RoomFacts, BaseFacts
<1>3. ASSUME NEW i \in 0 .. S - 1 PROVE q[d + i] # Junk
  <2>1. CASE o <= i /\ i < o + w
    <3>1. i - o + 1 \in 1 .. w
      BY <1>0, <2>1
    <3>2. q[d + i] = seg[i - o + 1]
      BY <1>0, <2>1 DEF Put
    <3> QED
      BY <1>0, <3>1, <3>2, Kinds
  <2>2. CASE ~(o <= i /\ i < o + w)
    <3>1. q[d + i] = r[d + i] /\ d + i \in Addr
      BY <1>0, <2>2, BaseFacts DEF Put
    <3> QED
      BY <3>1 DEF Log
  <2> QED
    BY <2>1, <2>2
<1>4. ASSUME NEW i \in 0 .. H - 1 PROVE q[d + i] = r[d + i]
  <2>1. i \in 0 .. S - 1 /\ ~(o <= i)
    BY <1>0, <1>2, RoomFacts
  <2> QED
    BY <1>0, <2>1 DEF Put
<1>5. q[d] = r[d]
  <2>1. 0 \in 0 .. H - 1 /\ d + 0 = d
    BY <1>2
  <2> QED
    BY <1>4, <2>1
<1>6. Youngest(q, d)
  BY <1>0, <1>5, HeadersKept DEF Put
<1>7. BlankFrom(q, d, o + w)
  <2> SUFFICES ASSUME NEW i \in o + w .. S - 1 PROVE q[d + i] = Blank
    BY DEF BlankFrom
  <2>1. i \in 0 .. S - 1 /\ ~(i < o + w) /\ i \in o .. S - 1
    BY <1>0, <1>2
  <2> QED
    BY <1>0, <2>1 DEF Put, BlankFrom
<1>8. /\ \A u : Bound(q, d, u) <=> Bound(r, d, u)
      /\ \A u : Open(q, d, u) <=> Open(r, d, u)
  BY <1>1, SameBounds
<1>9. IsHdr(q, d + h) /\ EndOf(q, d, h) = EndOf(r, d, h)
  BY <1>0, <1>1 DEF SameHdrs
<1>10. Laid(q, d)
  <2>1. \A p \in Room : IsHdr(q, d + p) => EndOf(q, d, p) <= S
    BY <1>0, <1>1 DEF SameHdrs, Laid
  <2>2. ASSUME NEW u \in Room, Open(q, d, u)
        PROVE  /\ \A v \in H .. S : Bound(q, d, v) => v <= u
               /\ BlankFrom(q, d, u + H - 1)
               /\ q[d + u] = Blank => BlankFrom(q, d, u)
    <3>1. Open(r, d, u) /\ u \in Nat /\ u + H <= S - 1
      BY <1>8, <2>2, RoomFacts
    <3>2. \A v \in H .. S : Bound(r, d, v) => v <= u
      BY <1>0, <3>1 DEF Laid
    <3>3. EndOf(r, d, h) <= u
      <4>1. Bound(r, d, EndOf(r, d, h))
        BY <1>0 DEF Bound
      <4>2. EndOf(r, d, h) <= S
        BY <1>0 DEF Laid
      <4>3. EndOf(r, d, h) \in H .. S
        BY <1>0, <1>2, <4>2
      <4> QED
        BY <3>2, <4>1, <4>3
    <3>4. o + w <= u
      BY <1>0, <3>1, <3>3
    <3>5. /\ \A i \in u + H - 1 .. S - 1 : i \in o + w .. S - 1
          /\ \A i \in u .. S - 1 : i \in o + w .. S - 1
      BY <1>0, <1>2, <3>1, <3>4
    <3>6. BlankFrom(q, d, u + H - 1) /\ BlankFrom(q, d, u)
      BY <1>7, <3>5 DEF BlankFrom
    <3> QED
      BY <1>8, <3>2, <3>6
  <2> QED
    BY <1>6, <2>1, <2>2 DEF Laid
<1>11. Log(q)
  <2>1. \A b \in Base \ {d} : SameIn(r, q, b)
    BY <1>0 DEF Put
  <2> QED
    BY <1>0, <1>3, <1>4, <1>10, <2>1, OneChanged
<1> QED
  BY <1>5, <1>7, <1>9, <1>11

\* The same headers and the same blanks: the sector is as well laid out.
SameBlanks(r, q, b) == \A i \in 0 .. S - 1 : q[b + i] = Blank <=> r[b + i] = Blank
\* A sector with the same headers and the same blanks is laid out as before.
LEMMA Relaid ==
    ASSUME NEW r, NEW q, NEW b, SameHdrs(r, q, b), SameBlanks(r, q, b), Laid(r, b),
           Youngest(r, b) => Youngest(q, b)
    PROVE  Laid(q, b)
<1>1. /\ \A u : Bound(q, b, u) <=> Bound(r, b, u)
      /\ \A o : Open(q, b, o) <=> Open(r, b, o)
  BY SameBounds
<1>2. \A p \in Room : IsHdr(q, b + p) => EndOf(q, b, p) <= S
  BY DEF SameHdrs, Laid
<1>3. ASSUME NEW o \in Room, Open(q, b, o)
      PROVE  /\ Youngest(q, b)
             /\ \A u \in H .. S : Bound(q, b, u) => u <= o
             /\ BlankFrom(q, b, o + H - 1)
             /\ q[b + o] = Blank => BlankFrom(q, b, o)
  <2>1. /\ Youngest(r, b) /\ \A u \in H .. S : Bound(r, b, u) => u <= o
        /\ BlankFrom(r, b, o + H - 1)
        /\ r[b + o] = Blank => BlankFrom(r, b, o)
    BY <1>1, <1>3 DEF Laid
  <2>2. o \in 0 .. S - 1 /\ \A i \in o .. S - 1 : i \in 0 .. S - 1
    BY RoomFacts
  <2>3. \A i \in o + H - 1 .. S - 1 : i \in 0 .. S - 1
    BY RoomFacts
  <2>4. BlankFrom(q, b, o + H - 1)
    BY <2>1, <2>3 DEF BlankFrom, SameBlanks
  <2>5. q[b + o] = Blank => BlankFrom(q, b, o)
    BY <2>1, <2>2 DEF BlankFrom, SameBlanks
  <2> QED
    BY <1>1, <2>1, <2>4, <2>5
<1> QED
  BY <1>2, <1>3 DEF Laid

Dead(id, len, split, i) == HdrCell(id, len, split, FALSE, i)

\* The flag of a header is cleared in its last byte.
Smudged(r, q, d, o) ==
    /\ d \in Base /\ o \in 0 .. S - 1
    /\ \A b \in Base \ {d} : SameIn(r, q, b)
    /\ \A i \in 0 .. S - 1 : i # o => q[d + i] = r[d + i]
    /\ \E id, len, split : \E live \in BOOLEAN :
          /\ r[d + o] = HdrCell(id, len, split, live, H - 1)
          /\ q[d + o] = Dead(id, len, split, H - 1)

\* Only the last byte of a header tells whether the record is alive.
LEMMA FlagIsLast ==
    ASSUME NEW id, NEW len, NEW split, NEW live, NEW i, i # H - 1
    PROVE  HdrCell(id, len, split, live, i) = Dead(id, len, split, i)
<1>1. (live \/ i # H - 1) = TRUE /\ (FALSE \/ i # H - 1) = TRUE
  OBVIOUS
<1> QED
  BY <1>1, Zenon DEF HdrCell, Dead

\* The flag in the last byte of a header.
LEMMA LastCell ==
    ASSUME NEW id, NEW len, NEW split, NEW live \in BOOLEAN, NEW c,
           c = HdrCell(id, len, split, live, H - 1)
    PROVE  c.live = live
<1>1. c.live = (live \/ H - 1 # H - 1)
  BY DEF HdrCell
<1> QED
  BY <1>1

\* The fields of a byte of the header of a deleted record.
LEMMA DeadKinds ==
    ASSUME NEW id, NEW len, NEW split, NEW i
    PROVE  /\ Dead(id, len, split, i).k = "hdr" /\ Dead(id, len, split, i).part = i
           /\ Dead(id, len, split, i).id = id /\ Dead(id, len, split, i).len = len
           /\ Dead(id, len, split, i).split = split
  BY DEF Dead, HdrCell

\* A record that is marked as deleted keeps its header and its place.
LEMMA SmudgeKeepsHeaders ==
    ASSUME NEW r, NEW q, NEW d, NEW o, Smudged(r, q, d, o)
    PROVE  SameHdrs(r, q, d)
<1>0. /\ d \in Base /\ o \in 0 .. S - 1
      /\ \A i \in 0 .. S - 1 : i # o => q[d + i] = r[d + i]
  BY DEF Smudged
<1>1. PICK id, len, split : \E live \in BOOLEAN :
          /\ r[d + o] = HdrCell(id, len, split, live, H - 1)
          /\ q[d + o] = Dead(id, len, split, H - 1)
  BY DEF Smudged
<1>2. PICK live \in BOOLEAN :
          /\ r[d + o] = HdrCell(id, len, split, live, H - 1)
          /\ q[d + o] = Dead(id, len, split, H - 1)
  BY <1>1
<1> SUFFICES ASSUME NEW p \in Room
             PROVE  /\ IsHdr(q, d + p) <=> IsHdr(r, d + p)
                    /\ IsHdr(r, d + p) => EndOf(q, d, p) = EndOf(r, d, p)
  BY DEF SameHdrs
<1>3. /\ H \in Nat /\ H >= 1 /\ S \in Nat /\ d \in Nat /\ p \in Nat /\ o \in Nat
      /\ \A i \in 0 .. H - 1 : p + i \in 0 .. S - 1 /\ d + p + i = d + (p + i)
      /\ H - 1 \in 0 .. H - 1 /\ d + p + H - 1 = d + (p + (H - 1))
  BY <1>0, RoomFacts, BaseFacts
<1>4. CASE o = p + (H - 1)
  <2>1. /\ r[d + p + H - 1] = HdrCell(id, len, split, live, H - 1)
        /\ q[d + p + H - 1] = Dead(id, len, split, H - 1)
    BY <1>2, <1>3, <1>4
  <2> DEFINE c == r[d + p + H - 1]
             e == q[d + p + H - 1]
  <2>2. c.k = "hdr" /\ c.id = id /\ c.len = len /\ c.split = split
    BY <2>1, Kinds
  <2>3. e.k = "hdr" /\ e.id = id /\ e.len = len /\ e.split = split
    BY <2>1, DeadKinds
  <2>4. c.live = live
    BY <2>1, LastCell
  <2>9. e.live = FALSE
    <3>1. Dead(id, len, split, H - 1) = HdrCell(id, len, split, FALSE, H - 1)
      BY DEF Dead
    <3>2. e = HdrCell(id, len, split, FALSE, H - 1) /\ FALSE \in BOOLEAN
      BY <2>1, <3>1, Zenon
    <3> HIDE DEF e
    <3> QED
      BY <3>2, LastCell, Zenon
  <2>5. ASSUME NEW i \in 0 .. H - 1
        PROVE  q[d + p + i] = Dead(id, len, split, i)
                  <=> r[d + p + i] = HdrCell(id, len, split, live, i)
    <3>1. CASE i = H - 1
      <4>1. d + p + i = d + o
        BY <1>3, <1>4, <3>1
      <4>2. q[d + p + i] = Dead(id, len, split, i)
        BY <1>2, <3>1, <4>1, Zenon
      <4>3. r[d + p + i] = HdrCell(id, len, split, live, i)
        BY <1>2, <3>1, <4>1, Zenon
      <4> QED
        BY <4>2, <4>3, Zenon
    <3>2. CASE i # H - 1
      <4>1. p + i # o /\ p + i \in 0 .. S - 1 /\ d + p + i = d + (p + i)
        BY <1>3, <1>4, <3>2
      <4>2. q[d + p + i] = r[d + p + i]
        BY <1>0, <4>1
      <4>3. HdrCell(id, len, split, live, i) = Dead(id, len, split, i)
        BY <3>2, FlagIsLast
      <4> QED
        BY <4>2, <4>3, Zenon
    <3> QED
      BY <3>1, <3>2, Zenon
  <2>6. IsHdr(r, d + p) <=> \A i \in 0 .. H - 1 : r[d + p + i] = HdrCell(id, len, split, live, i)
    BY <2>2, <2>4, Zenon DEF IsHdr
  <2>7. IsHdr(q, d + p) <=> \A i \in 0 .. H - 1 : q[d + p + i] = Dead(id, len, split, i)
    BY <2>3, <2>9, Zenon DEF IsHdr, Dead
  <2>8. IsHdr(q, d + p) <=> IsHdr(r, d + p)
    BY <2>5, <2>6, <2>7, Zenon
  <2> QED
    BY <2>2, <2>3, <2>8 DEF EndOf
<1>5. CASE \E i \in 0 .. H - 1 : o = p + i /\ i # H - 1
  <2>1. PICK i \in 0 .. H - 1 : o = p + i /\ i # H - 1
    BY <1>5
  <2>2. r[d + o].part = H - 1 /\ q[d + o].part = H - 1
    BY <1>2, Kinds, DeadKinds
  <2>5. d + o = d + p + i
    BY <1>3, <2>1
  <2>3. IsHdr(r, d + p) => r[d + p + i].part = i
    BY Kinds DEF IsHdr
  <2>4. IsHdr(q, d + p) => q[d + p + i].part = i
    BY Kinds DEF IsHdr
  <2> QED
    BY <2>1, <2>2, <2>3, <2>4, <2>5
<1>6. CASE \A i \in 0 .. H - 1 : o # p + i
  <2>1. \A i \in 0 .. H - 1 : q[d + p + i] = r[d + p + i]
    BY <1>0, <1>3, <1>6
  <2>2. q[d + p + H - 1] = r[d + p + H - 1]
    BY <1>3, <2>1
  <2> QED
    BY <2>1, <2>2 DEF IsHdr, EndOf
<1> QED
  BY <1>4, <1>5, <1>6

\* Marking a record as deleted leaves a log with the same sectors.
LEMMA SmudgeSound ==
    ASSUME NEW r, Log(r), NEW q, NEW d, NEW o, Smudged(r, q, d, o)
    PROVE  Log(q) /\ Started(q) = Started(r) /\ (Torn(q) <=> Torn(r))
           /\ \A b \in Base : Idx(q, b) = Idx(r, b)
<1>0. /\ d \in Base /\ o \in 0 .. S - 1
      /\ \A b \in Base \ {d} : SameIn(r, q, b)
      /\ \A i \in 0 .. S - 1 : i # o => q[d + i] = r[d + i]
  BY DEF Smudged
<1>1. r[d + o].k = "hdr" /\ q[d + o].k = "hdr"
  BY Kinds, DeadKinds DEF Smudged
<1>2. SameHdrs(r, q, d)
  BY SmudgeKeepsHeaders
<1>3. d \in Started(r)
  <2>1. ~Erased(r, d)
    BY <1>0, <1>1, Kinds DEF Erased
  <2> QED
    BY <1>0, <2>1, NotStarted
<1>4. ASSUME NEW i \in 0 .. H - 1 PROVE q[d + i] = r[d + i]
  <2>1. HasIndex(r, d)
    BY <1>0, <1>3, RoomFacts, BaseFacts DEF Log, Erased, Started
  <2>2. r[d + i].k = "sec" /\ i \in 0 .. S - 1
    BY <2>1, Kinds, RoomFacts DEF HasIndex
  <2> QED
    BY <1>0, <1>1, <2>2
<1>5. q[d] = r[d]
  <2>1. 0 \in 0 .. H - 1 /\ d + 0 = d
    BY <1>0, RoomFacts, BaseFacts
  <2> QED
    BY <1>4, <2>1
<1>6. /\ Started(q) = Started(r) /\ \A b \in Base : Idx(q, b) = Idx(r, b)
      /\ \A b : Youngest(q, b) <=> Youngest(r, b)
  BY <1>0, <1>5, HeadersKept
<1>7. SameBlanks(r, q, d)
  BY <1>0, <1>1, Kinds DEF SameBlanks
<1>8. Laid(q, d)
  BY <1>2, <1>3, <1>6, <1>7, Relaid DEF Log
<1>9. \A i \in 0 .. S - 1 : q[d + i] # Junk
  <2>1. \A i \in 0 .. S - 1 : r[d + i] # Junk
    BY <1>0, BaseFacts DEF Log
  <2> QED
    BY <1>0, <1>1, <2>1, Kinds
<1>10. Log(q)
  BY <1>0, <1>3, <1>4, <1>8, <1>9, OneChanged
<1>11. \A b \in Base : SameHdrs(r, q, b) /\ SameBlanks(r, q, b)
  <2> SUFFICES ASSUME NEW b \in Base, b # d PROVE SameHdrs(r, q, b) /\ SameBlanks(r, q, b)
    BY <1>2, <1>7
  <2>1. SameIn(r, q, b)
    BY <1>0
  <2> QED
    BY <2>1, SameCells DEF SameIn, SameBlanks
<1>12. \A b \in Base, u \in Room :
          /\ Open(q, b, u) <=> Open(r, b, u)
          /\ q[b + u] = Blank <=> r[b + u] = Blank
  <2> SUFFICES ASSUME NEW b \in Base, NEW u \in Room
               PROVE  /\ Open(q, b, u) <=> Open(r, b, u)
                      /\ q[b + u] = Blank <=> r[b + u] = Blank
    OBVIOUS
  <2>1. Open(q, b, u) <=> Open(r, b, u)
    BY <1>11, SameBounds
  <2>2. u \in 0 .. S - 1
    BY RoomFacts
  <2> QED
    BY <1>11, <2>1, <2>2 DEF SameBlanks
<1>13. Torn(q) <=> Torn(r)
  <2>1. \A b \in Started(r) : b \in Base
    BY DEF Started
  <2> QED
    BY <1>6, <1>12, <2>1 DEF Torn
<1> QED
  BY <1>6, <1>10, <1>13

-----------------------------------------------------------------------------
(* Sectors begun and erased *)

\* A sector without a record header has one place for a record.
LEMMA NewLaid ==
    ASSUME NEW q, NEW d \in Base, BlankFrom(q, d, H), Youngest(q, d)
    PROVE  Laid(q, d) /\ Open(q, d, H) /\ \A o : Open(q, d, o) => o = H
<1>1. /\ H \in Nat /\ H >= 1 /\ S \in Nat /\ d \in Nat /\ H \in Room
  BY RoomFacts, BaseFacts
<1>2. \A p \in Room : ~IsHdr(q, d + p)
  <2> SUFFICES ASSUME NEW p \in Room PROVE ~IsHdr(q, d + p)
    OBVIOUS
  <2>1. p + H - 1 \in H .. S - 1 /\ d + p + H - 1 = d + (p + H - 1)
    BY <1>1, RoomFacts
  <2> QED
    BY <2>1, Kinds DEF IsHdr, BlankFrom
<1>3. \A u : Bound(q, d, u) <=> u = H
  BY <1>2 DEF Bound
<1>4. \A o : Open(q, d, o) => o = H
  BY <1>3 DEF Open
<1>5. BlankFrom(q, d, H + H - 1)
  <2>1. \A i \in H + H - 1 .. S - 1 : i \in H .. S - 1
    BY <1>1
  <2> QED
    BY <2>1 DEF BlankFrom
<1>6. \A u \in H .. S : Bound(q, d, u) => u <= H
  BY <1>1, <1>3
<1>7. Laid(q, d)
  BY <1>2, <1>4, <1>5, <1>6 DEF Laid
<1> QED
  BY <1>1, <1>2, <1>3, <1>4, <1>7 DEF Open

\* The header of a sector is written: it has the next index and comes after
\* the youngest sector, which has no room left.
SectorPut(r, q, d, x) ==
    /\ Fresh(r, d) /\ x \in 1 .. MaxIndex
    /\ \A t \in Started(r) : Idx(r, t) < x
    /\ \A b \in Base \ {d} : SameIn(r, q, b)
    /\ \A i \in 0 .. S - 1 : q[d + i] = IF i < H THEN SecCell(x, i) ELSE r[d + i]

\* What the ring holds after a sector header was written.
LEMMA SectorBegun ==
    ASSUME NEW r, Log(r), NEW q, NEW d, NEW x, SectorPut(r, q, d, x)
    PROVE  /\ d \in Base /\ Started(q) = Started(r) \cup {d}
           /\ Idx(q, d) = x /\ \A b \in Started(r) : Idx(q, b) = Idx(r, b)
           /\ HasIndex(q, d) /\ BlankFrom(q, d, H) /\ Youngest(q, d)
           /\ \A i \in 0 .. S - 1 : q[d + i] # Junk
<1>0. /\ d \in Base /\ d \notin Started(r) /\ x \in 1 .. MaxIndex /\ x \in Nat
      /\ \A t \in Started(r) : Idx(r, t) < x
      /\ \A b \in Base \ {d} : SameIn(r, q, b)
      /\ \A i \in 0 .. S - 1 : q[d + i] = IF i < H THEN SecCell(x, i) ELSE r[d + i]
  BY GeometryAssumption DEF SectorPut, Fresh
<1>1. /\ H \in Nat /\ H >= 1 /\ S \in Nat /\ d \in Nat /\ \A i \in 0 .. H - 1 : i \in 0 .. S - 1 /\ i < H
      /\ 0 \in 0 .. H - 1 /\ d + 0 = d
  BY <1>0, RoomFacts, BaseFacts
<1>2. \A i \in 0 .. H - 1 : q[d + i] = SecCell(x, i)
  BY <1>0, <1>1
<1>3. q[d] = SecCell(x, 0)
  BY <1>1, <1>2
<1>4. q[d] # Blank /\ Idx(q, d) = x
  BY <1>3, Kinds DEF Idx
<1>5. \A b \in Base \ {d} : q[b] = r[b]
  BY <1>0, SameCells
<1>6. Started(q) = Started(r) \cup {d}
  BY <1>0, <1>4, <1>5 DEF Started
<1>7. \A b \in Started(r) : Idx(q, b) = Idx(r, b)
  BY <1>0, <1>5 DEF Started, Idx
<1>8. Erased(r, d)
  BY <1>0, NotStarted
<1>9. BlankFrom(q, d, H)
  <2> SUFFICES ASSUME NEW i \in H .. S - 1 PROVE q[d + i] = Blank
    BY DEF BlankFrom
  <2>1. i \in 0 .. S - 1 /\ ~(i < H)
    BY <1>1
  <2> QED
    BY <1>0, <1>8, <2>1 DEF Erased
<1>10. Youngest(q, d)
  BY <1>0, <1>4, <1>6, <1>7, IndexOfStarted DEF Youngest
<1>11. \A i \in 0 .. S - 1 : q[d + i] # Junk
  BY <1>0, <1>8, Kinds DEF Erased
<1> QED
  BY <1>0, <1>2, <1>4, <1>6, <1>7, <1>9, <1>10, <1>11 DEF HasIndex

\* The new sector is the youngest and follows the one that was.
LEMMA SectorOrdered ==
    ASSUME NEW r, Log(r), NEW q, NEW d, NEW x, SectorPut(r, q, d, x)
    PROVE  Ordered(q)
<1>0. /\ d \in Base /\ d \notin Started(r) /\ x \in Nat
      /\ \A t \in Started(r) : Idx(r, t) < x
      /\ Started(r) = {} \/ \E p \in Started(r) : Youngest(r, p) /\ After(p) = d
  BY GeometryAssumption DEF SectorPut, Fresh
<1>1. /\ Started(q) = Started(r) \cup {d} /\ Idx(q, d) = x
      /\ \A b \in Started(r) : Idx(q, b) = Idx(r, b)
  BY SectorBegun
<1>2. \A b \in Started(r) : Idx(r, b) \in Nat /\ b \in Base
  BY IndexOfStarted
<1>3. ASSUME NEW s \in Started(q), NEW t \in Started(q), Idx(q, s) = Idx(q, t) PROVE s = t
  BY <1>0, <1>1, <1>2, <1>3 DEF Log, Ordered
<1>4. ASSUME NEW b \in Base, NEW t \in Started(q),
             After(b) \in Started(q), Idx(q, t) < Idx(q, After(b))
      PROVE  b \in Started(q) /\ Idx(q, t) <= Idx(q, b) /\ Idx(q, b) < Idx(q, After(b))
  <2>1. t # d
    BY <1>0, <1>1, <1>2, <1>4
  <2>2. t \in Started(r)
    BY <1>1, <2>1
  <2>3. CASE After(b) = d
    <3>1. PICK p \in Started(r) : Youngest(r, p) /\ After(p) = d
      BY <1>0, <2>2
    <3>2. p = b
      BY <1>2, <2>3, <3>1, AfterOne
    <3> QED
      BY <1>0, <1>1, <2>2, <2>3, <3>1, <3>2 DEF Youngest
  <2>4. CASE After(b) # d
    <3>1. After(b) \in Started(r) /\ Idx(r, t) < Idx(r, After(b))
      BY <1>1, <1>4, <2>2, <2>4
    <3>2. b \in Started(r) /\ Idx(r, t) <= Idx(r, b) /\ Idx(r, b) < Idx(r, After(b))
      BY <2>2, <3>1 DEF Log, Ordered
    <3> QED
      BY <1>1, <2>2, <3>1, <3>2
  <2> QED
    BY <2>3, <2>4
<1> QED
  BY <1>3, <1>4 DEF Ordered

\* A sector is begun: the log stays a log, and its end is behind the header.
LEMMA SectorWritten ==
    ASSUME NEW r, Log(r), NEW q, NEW d, NEW x, SectorPut(r, q, d, x)
    PROVE  Log(q) /\ Youngest(q, d) /\ Open(q, d, H) /\ BlankFrom(q, d, H)
<1>0. /\ \A b \in Base \ {d} : SameIn(r, q, b)
      /\ Started(r) = {} \/ \E p \in Started(r) : Youngest(r, p) /\ Closed(r, p)
  BY DEF SectorPut, Fresh
<1>1. /\ d \in Base /\ Started(q) = Started(r) \cup {d}
      /\ HasIndex(q, d) /\ BlankFrom(q, d, H) /\ Youngest(q, d)
      /\ \A i \in 0 .. S - 1 : q[d + i] # Junk
  BY SectorBegun
<1>2. Laid(q, d) /\ Open(q, d, H)
  BY <1>1, NewLaid
<1>3. ASSUME NEW b \in Started(q) PROVE Laid(q, b)
  <2> SUFFICES ASSUME b # d PROVE Laid(q, b)
    BY <1>2
  <2>1. b \in Started(r) /\ b \in Base /\ Laid(r, b) /\ SameIn(r, q, b)
    BY <1>0, <1>1 DEF Log, Started
  <2>2. Youngest(r, b) => Closed(r, b)
    BY <1>0, <2>1, YoungestIsOne
  <2> QED
    BY <2>1, <2>2, SameLaid
<1>4. ASSUME NEW a \in Addr PROVE q[a] # Junk
  <2>1. PICK b \in Base, i \in 0 .. S - 1 : a = b + i
    BY AddrSplit
  <2>2. r[b + i] # Junk
    BY <2>1 DEF Log
  <2> QED
    BY <1>0, <1>1, <2>1, <2>2 DEF SameIn
<1>5. ASSUME NEW b \in Base PROVE Erased(q, b) \/ HasIndex(q, b)
  <2> SUFFICES ASSUME b # d PROVE Erased(q, b) \/ HasIndex(q, b)
    BY <1>1
  <2>1. SameIn(r, q, b) /\ \A i \in 0 .. H - 1 : i \in 0 .. S - 1
    BY <1>0, RoomFacts
  <2>2. \A i \in 0 .. H - 1 : q[b + i] = r[b + i]
    BY <2>1 DEF SameIn
  <2>3. HasIndex(r, b) => HasIndex(q, b)
    BY <2>2 DEF HasIndex
  <2>4. Erased(r, b) => Erased(q, b)
    BY <2>1 DEF SameIn, Erased
  <2> QED
    BY <2>3, <2>4 DEF Log
<1> QED
  BY <1>1, <1>2, <1>3, <1>4, <1>5, SectorOrdered DEF Log

\* The eldest sector is erased.
ErasedAt(r, q, e) ==
    /\ Eldest(r, e)
    /\ \A b \in Base \ {e} : SameIn(r, q, b)
    /\ Erased(q, e)

\* Erasing the eldest sector leaves a log without it.
LEMMA EldestErased ==
    ASSUME NEW r, Log(r), NEW q, NEW e, ErasedAt(r, q, e)
    PROVE  /\ Log(q) /\ Started(q) = Started(r) \ {e}
           /\ \A b \in Base \ {e} : SameIn(r, q, b) /\ Idx(q, b) = Idx(r, b)
           /\ \A b \in Started(q) : Youngest(q, b) <=> Youngest(r, b)
<1>0. /\ e \in Started(r) /\ e \in Base /\ \A t \in Started(r) : Idx(r, e) <= Idx(r, t)
      /\ \A b \in Base \ {e} : SameIn(r, q, b)
      /\ Erased(q, e)
  BY DEF ErasedAt, Eldest, Started
<1>1. \A b \in Base \ {e} : q[b] = r[b]
  BY <1>0, SameCells
<1>2. q[e] = Blank
  <2>1. 0 \in 0 .. S - 1 /\ e + 0 = e
    BY <1>0, RoomFacts, BaseFacts
  <2> QED
    BY <1>0, <2>1 DEF Erased
<1>3. Started(q) = Started(r) \ {e}
  BY <1>0, <1>1, <1>2 DEF Started
<1>4. \A b \in Base \ {e} : Idx(q, b) = Idx(r, b)
  BY <1>1 DEF Idx
<1>5. \A b \in Started(r) : Idx(r, b) \in Nat /\ b \in Base
  BY IndexOfStarted
<1>6. \A b \in Started(q) : Idx(q, b) = Idx(r, b) /\ b \in Started(r) /\ b # e
  BY <1>3, <1>4, <1>5
<1>7. \A b \in Started(q) : Youngest(q, b) <=> Youngest(r, b)
  <2> SUFFICES ASSUME NEW b \in Started(q) PROVE Youngest(q, b) <=> Youngest(r, b)
    OBVIOUS
  <2>1. Idx(r, e) <= Idx(r, b)
    BY <1>0, <1>6
  <2> QED
    BY <1>3, <1>6, <2>1 DEF Youngest
<1>8. Ordered(q)
  <2>1. ASSUME NEW s \in Started(q), NEW t \in Started(q), Idx(q, s) = Idx(q, t) PROVE s = t
    BY <1>6, <2>1 DEF Log, Ordered
  <2>2. ASSUME NEW b \in Base, NEW t \in Started(q),
               After(b) \in Started(q), Idx(q, t) < Idx(q, After(b))
        PROVE  b \in Started(q) /\ Idx(q, t) <= Idx(q, b) /\ Idx(q, b) < Idx(q, After(b))
    <3>1. /\ t \in Started(r) /\ After(b) \in Started(r) /\ t # e
          /\ Idx(r, t) < Idx(r, After(b)) /\ Idx(q, t) = Idx(r, t)
          /\ Idx(q, After(b)) = Idx(r, After(b))
      BY <1>6, <2>2
    <3>2. b \in Started(r) /\ Idx(r, t) <= Idx(r, b) /\ Idx(r, b) < Idx(r, After(b))
      BY <3>1 DEF Log, Ordered
    <3>3. b # e
      <4> SUFFICES ASSUME b = e PROVE FALSE
        OBVIOUS
      <4>1. Idx(r, t) = Idx(r, e)
        BY <1>0, <1>5, <3>1, <3>2
      <4> QED
        BY <1>0, <3>1, <4>1 DEF Log, Ordered
    <3> QED
      BY <1>3, <1>4, <3>1, <3>2, <3>3
  <2> QED
    BY <2>1, <2>2 DEF Ordered
<1>9. ASSUME NEW b \in Started(q) PROVE Laid(q, b)
  <2>1. b \in Started(r) /\ b \in Base /\ Laid(r, b) /\ SameIn(r, q, b)
    BY <1>0, <1>5, <1>6 DEF Log
  <2> QED
    BY <1>7, <2>1, SameLaid
<1>10. ASSUME NEW a \in Addr PROVE q[a] # Junk
  <2>1. PICK b \in Base, i \in 0 .. S - 1 : a = b + i
    BY AddrSplit
  <2>2. r[b + i] # Junk
    BY <2>1 DEF Log
  <2> QED
    BY <1>0, <2>1, <2>2, Kinds DEF SameIn, Erased
<1>11. ASSUME NEW b \in Base PROVE Erased(q, b) \/ HasIndex(q, b)
  <2> SUFFICES ASSUME b # e PROVE Erased(q, b) \/ HasIndex(q, b)
    BY <1>0
  <2>1. SameIn(r, q, b) /\ \A i \in 0 .. H - 1 : i \in 0 .. S - 1
    BY <1>0, RoomFacts
  <2>2. \A i \in 0 .. H - 1 : q[b + i] = r[b + i]
    BY <2>1 DEF SameIn
  <2>3. HasIndex(r, b) => HasIndex(q, b)
    BY <2>2 DEF HasIndex
  <2>4. Erased(r, b) => Erased(q, b)
    BY <2>1 DEF SameIn, Erased
  <2> QED
    BY <2>3, <2>4 DEF Log
<1>12. Log(q)
  BY <1>8, <1>9, <1>10, <1>11 DEF Log
<1> QED
  BY <1>0, <1>3, <1>4, <1>7, <1>12

\* Erasing a sector leaves no header half written.
LEMMA EraseKeepsWhole ==
    ASSUME NEW r, Log(r), NEW q, NEW e, ErasedAt(r, q, e), Torn(q)
    PROVE  Torn(r)
<1>1. PICK b \in Started(q) : \E o \in Room : Open(q, b, o) /\ q[b + o] # Blank
  BY DEF Torn
<1>2. PICK o \in Room : Open(q, b, o) /\ q[b + o] # Blank
  BY <1>1
<1>3. b \in Started(r) /\ b \in Base /\ SameIn(r, q, b)
  BY EldestErased DEF Started
<1>4. Open(r, b, o)
  BY <1>2, <1>3, SameCells, SameBounds
<1>5. r[b + o] # Blank
  BY <1>2, <1>3, RoomFacts DEF SameIn
<1> QED
  BY <1>3, <1>4, <1>5 DEF Torn

\* An erased flash is an empty log.
LEMMA BlankLog ==
    /\ Log(BlankFlash) /\ Started(BlankFlash) = {} /\ ~Torn(BlankFlash)
<1>1. \A a \in Addr : BlankFlash[a] = Blank
  BY DEF BlankFlash
<1>2. \A b \in Base : \A i \in 0 .. S - 1 : BlankFlash[b + i] = Blank
  BY <1>1, BaseFacts
<1>3. \A b \in Base : BlankFlash[b] = Blank
  BY <1>1, BaseFacts
<1>4. Started(BlankFlash) = {}
  BY <1>3 DEF Started
<1> QED
  BY <1>1, <1>2, <1>4, Kinds DEF Log, Erased, Ordered, Torn

-----------------------------------------------------------------------------
(* The scan for the oldest sector *)

\* Under Log every sector header is good or blank.
LEMMA SectorsSeen ==
    ASSUME Log(flash)
    PROVE  /\ SectorIs(RB_BAD_HDR) = {}
           /\ \A s \in Sector : s * S \in Base
           /\ \A s \in Sector : s \in SectorIs(RB_OK) <=> s * S \in Started(flash)
           /\ \A s \in SectorIs(RB_OK) : s \in Sector /\ SectorIndex(s * S) = Idx(flash, s * S)
                                         /\ Idx(flash, s * S) \in 1 .. MaxIndex
           /\ \A b \in Started(flash) : \E s \in SectorIs(RB_OK) : b = s * S
<1>1. RB_OK # RB_BAD_HDR /\ RB_BLANK_HDR # RB_BAD_HDR /\ RB_OK # RB_BLANK_HDR
  BY DEF RB_OK, RB_BAD_HDR, RB_BLANK_HDR
<1>2. \A s \in Sector : s * S \in Base
  BY DEF Base
<1>3. \A s \in Sector :
         /\ s * S \in Started(flash) =>
              /\ SectorStatus(s * S) = RB_OK /\ SectorIndex(s * S) = Idx(flash, s * S)
              /\ Idx(flash, s * S) \in 1 .. MaxIndex
         /\ s * S \notin Started(flash) => SectorStatus(s * S) = RB_BLANK_HDR
  BY <1>2, SectorSeen
<1>4. \A s \in Sector : s \in SectorIs(RB_OK) <=> s * S \in Started(flash)
  BY <1>1, <1>3 DEF SectorIs
<1>5. SectorIs(RB_BAD_HDR) = {}
  BY <1>1, <1>3 DEF SectorIs
<1>6. \A s \in SectorIs(RB_OK) : s \in Sector
  BY DEF SectorIs
<1>7. \A b \in Started(flash) : \E s \in SectorIs(RB_OK) : b = s * S
  BY <1>4 DEF Started, Base
<1> QED
  BY <1>2, <1>3, <1>4, <1>5, <1>6, <1>7

\* The largest index seen is the one the control block holds.
LEMMA LargestIs ==
    ASSUME Log(flash), NEW si \in Nat, NEW m \in Largest(si, SectorIs(RB_OK))
    PROVE  /\ \A b \in Started(flash) : Idx(flash, b) <= m
           /\ (\A b \in Started(flash) : Idx(flash, b) <= si) => m = si
<1> DEFINE seen == {si} \cup {SectorIndex(s * S) : s \in SectorIs(RB_OK)}
<1>1. m \in seen /\ \A k \in seen : k <= m
  BY DEF Largest
<1>2. \A b \in Started(flash) : Idx(flash, b) \in seen
  BY SectorsSeen
<1>3. \A b \in Started(flash) : Idx(flash, b) <= m
  BY <1>1, <1>2
<1>4. si \in seen
  OBVIOUS
<1>5. ASSUME \A b \in Started(flash) : Idx(flash, b) <= si PROVE m = si
  <2>1. \A k \in seen : k <= si /\ k \in Nat
    <3>1. \A s \in SectorIs(RB_OK) : SectorIndex(s * S) <= si /\ SectorIndex(s * S) \in Nat
      BY <1>5, SectorsSeen, GeometryAssumption
    <3> QED
      BY <3>1
  <2> HIDE DEF seen
  <2> QED
    BY <1>1, <1>4, <2>1
<1> QED
  BY <1>3, <1>5

\* rb_find_ring_oldest_sector finds the eldest sector.
LEMMA OldestFound ==
    ASSUME Log(flash), MaxIndex < IndexMask, NEW si \in Nat,
           \A b \in Started(flash) : Idx(flash, b) <= si,
           NEW o \in rb_find_ring_oldest_sector(si)
    PROVE  /\ o.st = SectorStatus(0) /\ o.st # RB_BAD_HDR
           /\ o.sector_index = si
           /\ IF Started(flash) = {} THEN o.next = 0 ELSE Eldest(flash, o.next)
<1> DEFINE bad == SectorIs(RB_BAD_HDR)
           stop == {s \in bad : \A b \in bad : b <= s}
           good == {s \in SectorIs(RB_OK) : \A b \in bad : b < s}
           oldest == {s \in good :
                        /\ SectorIndex(s * S) < IndexMask
                        /\ \A t \in good :
                             \/ SectorIndex(s * S) < SectorIndex(t * S)
                             \/ SectorIndex(s * S) = SectorIndex(t * S) /\ t <= s}
           at == IF bad # {} THEN stop ELSE IF oldest = {} THEN {0} ELSE oldest
           st == IF bad # {} THEN RB_BAD_HDR ELSE SectorStatus(0)
<1>0. o \in {[st |-> st, next |-> s * S, sector_index |-> m] :
               s \in at, m \in Largest(si, good)}
  BY SMTT(30) DEF rb_find_ring_oldest_sector
<1> HIDE DEF at, st, good
<1>1. PICK s \in at, m \in Largest(si, good) :
        o = [st |-> st, next |-> s * S, sector_index |-> m]
  BY <1>0
<1>2. o.st = st /\ o.next = s * S /\ o.sector_index = m
  BY <1>1
<1>3. bad = {}
  BY SectorsSeen
<1>4. good = SectorIs(RB_OK)
  BY <1>3 DEF good
<1>5. m = si
  BY <1>4, LargestIs
<1>6. o.st = SectorStatus(0)
  BY <1>2, <1>3 DEF st
<1>7. SectorStatus(0) # RB_BAD_HDR
  BY ZeroIsBase, SectorSeen DEF RB_OK, RB_BAD_HDR, RB_BLANK_HDR
<1>8. CASE Started(flash) = {}
  <2>1. SectorIs(RB_OK) = {}
    BY <1>8, SectorsSeen
  <2>2. oldest = {}
    BY <1>4, <2>1
  <2>3. s = 0
    BY <1>3, <2>2 DEF at
  <2>4. 0 * S = 0
    BY GeometryAssumption
  <2> QED
    BY <1>2, <1>5, <1>6, <1>7, <1>8, <2>3, <2>4
<1>9. CASE Started(flash) # {}
  <2>1. PICK e \in Started(flash) : \A t \in Started(flash) : Idx(flash, e) <= Idx(flash, t)
    BY <1>9, LeastIndex
  <2>2. PICK z \in SectorIs(RB_OK) : e = z * S
    BY SectorsSeen
  <2>3. \A t \in SectorIs(RB_OK) :
           /\ t * S \in Started(flash) /\ SectorIndex(t * S) = Idx(flash, t * S)
           /\ SectorIndex(t * S) \in Nat /\ SectorIndex(t * S) < IndexMask
           /\ t \in Int
    BY SectorsSeen, GeometryAssumption DEF Sector
  <2>4. z \in oldest
    <3>1. \A t \in SectorIs(RB_OK) :
             \/ SectorIndex(z * S) < SectorIndex(t * S)
             \/ SectorIndex(z * S) = SectorIndex(t * S) /\ t <= z
      <4> SUFFICES ASSUME NEW t \in SectorIs(RB_OK),
                          ~(SectorIndex(z * S) < SectorIndex(t * S))
                   PROVE  SectorIndex(z * S) = SectorIndex(t * S) /\ t <= z
        OBVIOUS
      <4>1. SectorIndex(z * S) <= SectorIndex(t * S)
        BY <2>1, <2>2, <2>3
      <4>2. SectorIndex(z * S) = SectorIndex(t * S)
        BY <2>3, <4>1
      <4>3. t * S = z * S
        BY <2>3, <4>2 DEF Log, Ordered
      <4>4. t <= z
        <5>1. SUFFICES ASSUME t >= z + 1 PROVE FALSE
          BY <2>3
        <5>2. (z + 1) * S <= t * S
          BY <2>3, <5>1, TimesMonotone, GeometryAssumption
        <5>3. (z + 1) * S = (z * S) + S
          BY <2>3, GeometryAssumption
        <5> QED
          BY <2>3, <4>3, <5>2, <5>3, GeometryAssumption
      <4> QED
        BY <4>2, <4>4
    <3> QED
      BY <1>4, <2>3, <3>1
  <2>5. s \in oldest
    BY <1>3, <2>4 DEF at
  <2>6. s \in SectorIs(RB_OK)
    BY <1>4, <2>5
  <2>7. \A t \in SectorIs(RB_OK) : SectorIndex(s * S) <= SectorIndex(t * S)
    BY <1>4, <2>3, <2>5
  <2>8. Eldest(flash, s * S)
    <3>1. ASSUME NEW b \in Started(flash) PROVE Idx(flash, s * S) <= Idx(flash, b)
      <4>1. PICK t \in SectorIs(RB_OK) : b = t * S
        BY SectorsSeen
      <4> QED
        BY <2>3, <2>6, <2>7, <4>1
    <3> QED
      BY <2>3, <2>6, <3>1 DEF Eldest
  <2> QED
    BY <1>2, <1>5, <1>6, <1>7, <1>9, <2>8
<1> QED
  BY <1>8, <1>9

-----------------------------------------------------------------------------
(* Writing *)

\* The place in its page of an address of the same page.
LEMMA SamePage ==
    ASSUME NEW i \in Nat, NEW k \in Nat, i - (i % P) <= k, k < (i - (i % P)) + P
    PROVE  k % P = k - (i - (i % P))
<1>1. P \in Nat /\ P >= 1
  BY GeometryAssumption
<1>2. PICK v \in Nat : i = (v * P) + (i % P) /\ i % P \in 0 .. P - 1
  BY <1>1, DivMod
<1>3. v * P \in Nat
  BY <1>1, <1>2
<1>4. i - (i % P) = v * P
  BY <1>2, <1>3, <1>1
<1> DEFINE x == k - (i - (i % P))
<1>5. x \in 0 .. P - 1 /\ k = (v * P) + x
  BY <1>1, <1>2, <1>3, <1>4
<1> HIDE DEF x
<1>6. ((v * P) + x) % P = x
  BY <1>1, <1>5, ModUnique
<1> QED
  BY <1>5, <1>6 DEF x

\* What rb_append_page has prepared goes to the flash, and nothing else.
LEMMA ProgEffect ==
    ASSUME IInv, NEW c \in Ctx, ProgPage(c), PageInv(c),
           NEW b \in Base, NEW i \in 0 .. S - 1, next[c] = b + i,
           NEW w, w = Written(c), NEW seg, seg = Head(fr[c].todo)
    PROVE  /\ seg \in Seq(Cell) /\ w \in 0 .. Len(seg) /\ i + w <= S
           /\ w = Minimum(P - (i % P), Len(seg)) /\ i % P \in 0 .. P - 1
           /\ \A d \in Base \ {b} : SameIn(flash, flash', d)
           /\ \A k \in 0 .. S - 1 :
                 flash'[b + k] = IF i <= k /\ k < i + w
                                 THEN ProgCell(flash[b + k], seg[k - i + 1])
                                 ELSE flash[b + k]
<1>1. pc[c] = "prog"
  BY DEF ProgPage
<1>2. seg \in Seq(Cell) /\ w \in 0 .. Len(seg)
  BY <1>1, WrittenFacts
<1>3. /\ MOD_PAGE(next[c]) = i % P /\ i % P \in 0 .. P - 1 /\ i % P <= i
      /\ (i - (i % P)) + P <= S /\ FLASH_PAGE(next[c]) = b + (i - (i % P))
  BY InPage
<1>4. /\ P \in Nat /\ P >= 1 /\ S \in Nat /\ i \in Nat /\ b \in Nat /\ w \in Nat /\ i % P \in Nat
      /\ Len(seg) \in Nat
  BY <1>2, <1>3, BaseFacts, GeometryAssumption, SMTT(30)
<1>5. w = Minimum(P - (i % P), Len(seg))
  BY <1>3 DEF Written
<1>6. w <= P - (i % P)
  BY <1>4, <1>5 DEF Minimum
<1>7. i + w <= S
  BY <1>3, <1>4, <1>6
<1> DEFINE p == i - (i % P)
           pg == page[BufOf[c]]
<1>8. p \in Nat /\ p + P <= S /\ p \in 0 .. S - 1 /\ p <= i
  BY <1>3, <1>4
<1>9. \A a \in Addr : flash'[a] = IF FLASH_PAGE(a) = b + p
                                  THEN ProgCell(flash[a], pg[a - (b + p)])
                                  ELSE flash[a]
  BY <1>3 DEF ProgPage
<1>10. \A x \in 0 .. P - 1 : pg[x] = IF x \in (i % P) .. (i % P) + w - 1
                                     THEN seg[x - (i % P) + 1] ELSE Blank
  BY <1>1, <1>3 DEF PageInv
<1> HIDE DEF p, pg
<1>11. ASSUME NEW d \in Base, d # b PROVE SameIn(flash, flash', d)
  <2> SUFFICES ASSUME NEW k \in 0 .. S - 1 PROVE flash'[d + k] = flash[d + k]
    BY DEF SameIn
  <2>1. FLASH_PAGE(d + k) = d + (k - (k % P)) /\ k % P \in 0 .. P - 1 /\ k % P <= k
    BY InPage
  <2>2. k - (k % P) \in 0 .. S - 1
    BY <1>4, <2>1
  <2>3. FLASH_PAGE(d + k) # b + p
    BY <1>8, <1>11, <2>1, <2>2, OneWay
  <2>4. d + k \in Addr
    BY BaseFacts
  <2> QED
    BY <1>9, <2>3, <2>4
<1>12. ASSUME NEW k \in 0 .. S - 1
       PROVE  flash'[b + k] = IF i <= k /\ k < i + w
                              THEN ProgCell(flash[b + k], seg[k - i + 1])
                              ELSE flash[b + k]
  <2>1. FLASH_PAGE(b + k) = b + (k - (k % P)) /\ k % P \in 0 .. P - 1 /\ k % P <= k
    BY InPage
  <2>2. b + k \in Addr
    BY BaseFacts
  <2>3. CASE p <= k /\ k < p + P
    <3>1. k % P = k - p
      <4>1. k \in Nat /\ i \in Nat /\ i - (i % P) <= k /\ k < (i - (i % P)) + P
        BY <1>4, <2>3 DEF p
      <4>2. k % P = k - (i - (i % P))
        BY ONLY <4>1, SamePage
      <4> QED
        BY <4>2 DEF p
    <3>2. FLASH_PAGE(b + k) = b + p
      BY <1>4, <1>8, <2>1, <3>1, SMTT(30)
    <3>3. (b + k) - (b + p) = k - p /\ k - p \in 0 .. P - 1
      BY <1>4, <1>8, <2>3
    <3>4. flash'[b + k] = ProgCell(flash[b + k], pg[k - p])
      BY <1>9, <2>2, <3>2, <3>3
    <3>5. pg[k - p] = IF i <= k /\ k < i + w THEN seg[k - i + 1] ELSE Blank
      <4>1. k - p \in (i % P) .. (i % P) + w - 1 <=> i <= k /\ k < i + w
        BY <1>4, <1>8, <3>3, SMTT(30) DEF p
      <4>2. (k - p) - (i % P) + 1 = k - i + 1
        BY <1>4 DEF p
      <4> QED
        BY <1>10, <3>3, <4>1, <4>2
    <3>6. ProgCell(flash[b + k], Blank) = flash[b + k]
      BY DEF ProgCell
    <3> QED
      BY <3>4, <3>5, <3>6
  <2>4. CASE ~(p <= k /\ k < p + P)
    <3>1. ~(i <= k /\ k < i + w)
      BY <1>4, <1>6, <1>8, <2>4 DEF p
    <3>2. FLASH_PAGE(b + k) # b + p
      BY <1>4, <1>8, <2>1, <2>4
    <3> QED
      BY <1>9, <2>2, <3>1, <3>2
  <2> QED
    BY <2>3, <2>4
<1> QED
  BY <1>2, <1>3, <1>5, <1>7, <1>11, <1>12

\* Into blank flash the cells go as they are.
LEMMA BlankPut ==
    ASSUME IInv, NEW c \in Ctx, ProgPage(c), PageInv(c),
           NEW b \in Base, NEW i \in 0 .. S - 1, next[c] = b + i,
           NEW w, w = Written(c), NEW seg, seg = Head(fr[c].todo), BlankFrom(flash, b, i)
    PROVE  Put(flash, flash', b, i, w, seg)
<1>1. /\ \A d \in Base \ {b} : SameIn(flash, flash', d)
      /\ \A k \in 0 .. S - 1 :
            flash'[b + k] = IF i <= k /\ k < i + w
                            THEN ProgCell(flash[b + k], seg[k - i + 1])
                            ELSE flash[b + k]
  BY ProgEffect
<1>2. ASSUME NEW k \in 0 .. S - 1, i <= k
      PROVE  ProgCell(flash[b + k], seg[k - i + 1]) = seg[k - i + 1]
  <2>1. k \in i .. S - 1
    BY <1>2
  <2>2. flash[b + k] = Blank
    BY <2>1 DEF BlankFrom
  <2> QED
    BY <2>2 DEF ProgCell
<1> QED
  BY <1>1, <1>2 DEF Put

-----------------------------------------------------------------------------
(* Where a step leaves its context *)

\* Where a call that returns leaves its context.
LEMMA ReturnFacts ==
    ASSUME IInv, NEW c \in Ctx, NEW r, NEW n, Return(c, r, n)
    PROVE  pc'[c] = "idle" /\ ret'[c] = r /\ next'[c] = n /\ fr'[c] = NoFrame
  BY DEF IInv, TypeOK, Return

\* Where a call that goes on leaves its context.
LEMMA GotoFacts ==
    ASSUME IInv, NEW c \in Ctx, NEW l, NEW n, Goto(c, l, n)
    PROVE  pc'[c] = l /\ next'[c] = n /\ ret'[c] = ret[c]
  BY DEF IInv, TypeOK, Goto

\* The locals of a context at rest.
LEMMA NoErases == NoFrame.erases = 0 /\ NoFrame.todo = <<>>
  BY DEF NoFrame

\* A context at rest.
LEMMA RestInv ==
    ASSUME NEW c \in Ctx, pc'[c] \in {"idle", "closed"}, IndexInv(c)', fr'[c].erases \in {0, 1},
           WholeInv(c)'
    PROVE  CtxInv(c)'
<1>1. pc'[c] \notin Appending /\ pc'[c] \notin Writing
      /\ pc'[c] \notin {"read", "find", "compare", "smudge"}
  BY DEF Appending, Writing
<1>2. CallsInv(c)'
  BY <1>1 DEF CallsInv
<1>3. EraseInv(c)'
  BY <1>1 DEF EraseInv, Appending
<1>4. PlaceInv(c)'
  BY <1>1 DEF PlaceInv
<1>5. PageInv(c)'
  BY <1>1 DEF PageInv, Writing
<1>6. WriteInv(c)'
  BY <1>1, <1>5 DEF WriteInv
<1> QED
  BY <1>2, <1>3, <1>4, <1>6 DEF CtxInv

\* A context that reads or searches.
LEMMA SearchInv ==
    ASSUME NEW c \in Ctx, pc'[c] \in {"read", "find", "compare", "smudge"}, IndexInv(c)',
           fr'[c].erases \in {0, 1}, call'[c].fn # "append", WholeInv(c)'
    PROVE  CtxInv(c)'
<1>1. pc'[c] \notin Appending /\ pc'[c] \notin Writing /\ pc'[c] # "idle"
  BY DEF Appending, Writing
<1>2. CallsInv(c)'
  BY <1>1 DEF CallsInv
<1>3. EraseInv(c)'
  BY <1>1 DEF EraseInv, Appending
<1>4. PlaceInv(c)'
  BY <1>1 DEF PlaceInv
<1>5. PageInv(c)'
  BY <1>1 DEF PageInv, Writing
<1>6. WriteInv(c)'
  BY <1>1, <1>5 DEF WriteInv
<1> QED
  BY <1>2, <1>3, <1>4, <1>6 DEF CtxInv

\* An append that has written nothing yet.
LEMMA AppendingInv ==
    ASSUME NEW c \in Ctx, pc'[c] \in Appending, IndexInv(c)', CallsInv(c)', EraseInv(c)',
           PlaceInv(c)', WholeInv(c)'
    PROVE  CtxInv(c)'
<1>1. pc'[c] \notin Writing
  BY DEF Appending, Writing
<1>2. PageInv(c)'
  BY <1>1 DEF PageInv, Writing
<1>3. WriteInv(c)'
  BY <1>1, <1>2 DEF WriteInv
<1> QED
  BY <1>3 DEF CtxInv

\* Nothing is torn while nothing is written.
LEMMA WholeNow ==
    ASSUME NEW c \in Ctx, CtxInv(c), pc[c] \notin Writing \/ call[c].fn # "append",
           "crash" \notin Ops
    PROVE  ~Torn(flash)
  BY DEF CtxInv, WholeInv

\* A call that changes no sector returns.
LEMMA ReturnInv ==
    ASSUME IInv, Log(flash), NEW c \in Ctx, CtxInv(c), pc[c] # "closed", pc[c] \notin Writing,
           flash' = flash, sector_index'[c] = sector_index[c], NEW r, NEW n, Return(c, r, n),
           ("crash" \notin Ops /\ call'[c].fn = "append" /\ call'[c].erase
               /\ call'[c].size \in 1 .. RB_MAX_APPEND_SIZE) => r = RB_OK
    PROVE  Log(flash)' /\ CtxInv(c)'
<1>1. pc'[c] = "idle" /\ ret'[c] = r /\ fr'[c].erases = 0
  BY ReturnFacts, NoErases
<1>2. IndexInv(c)'
  BY DEF IndexInv, CtxInv
<1>3. WholeInv(c)'
  <2> SUFFICES ASSUME "crash" \notin Ops PROVE ~Torn(flash') /\ AppendOk(c)'
    BY DEF WholeInv
  <2>1. ~Torn(flash')
    BY WholeNow
  <2>2. AppendOk(c)'
    BY <1>1 DEF AppendOk, Returned
  <2> QED
    BY <2>1, <2>2
<1> QED
  BY <1>1, <1>2, <1>3, RestInv

\* A call that changes no sector reads on.
LEMMA ReadOnInv ==
    ASSUME IInv, Log(flash), NEW c \in Ctx, CtxInv(c), pc[c] # "closed", pc[c] \notin Writing,
           flash' = flash, sector_index'[c] = sector_index[c],
           pc'[c] \in {"read", "find", "compare", "smudge"}, fr'[c].erases \in {0, 1},
           call'[c].fn # "append"
    PROVE  Log(flash)' /\ CtxInv(c)'
<1>2. IndexInv(c)'
  BY DEF IndexInv, CtxInv
<1>3. WholeInv(c)'
  <2> SUFFICES ASSUME "crash" \notin Ops PROVE ~Torn(flash') /\ AppendOk(c)'
    BY DEF WholeInv
  <2>1. ~Torn(flash')
    BY WholeNow
  <2>2. AppendOk(c)'
    BY DEF AppendOk, Returned
  <2> QED
    BY <2>1, <2>2
<1> QED
  BY <1>2, <1>3, SearchInv

-----------------------------------------------------------------------------
(* Reading, finding and deleting leave the log alone *)

\* Locals that stay when others change.
LEMMA FrameKept ==
    ASSUME NEW f \in Frame, NEW a, NEW b, NEW t
    PROVE  /\ [f EXCEPT !.orignext = a].erases = f.erases
           /\ [f EXCEPT !.orignext = a].orignext = a
           /\ [f EXCEPT !.total = t, !.readfrom = a].erases = f.erases
           /\ [f EXCEPT !.found = a, !.total = t, !.readfrom = b].erases = f.erases
           /\ [f EXCEPT !.todo = a].erases = f.erases
           /\ [f EXCEPT !.todo = a].todo = a
           /\ [f EXCEPT !.erases = a].erases = a
           /\ [f EXCEPT !.erases = a].orignext = f.orignext
           /\ [NoFrame EXCEPT !.oldnext = a].erases = 0
           /\ [NoFrame EXCEPT !.readfrom = a].erases = 0
           /\ [NoFrame EXCEPT !.orignext = a].erases = 0
           /\ [NoFrame EXCEPT !.oldnext = a, !.orignext = b].erases = 0
  BY DEF Frame, NoFrame

\* rb_read is called.
LEMMA ReadCallLog ==
    ASSUME IInv, Log(flash), NEW c \in Ctx, CtxInv(c), NEW id, NEW size, ReadCall(c, id, size)
    PROVE  Log(flash)' /\ CtxInv(c)'
<1>1. /\ pc[c] = "idle" /\ flash' = flash /\ sector_index' = sector_index
      /\ pc[c] # "closed" /\ pc[c] \notin Writing
  BY DEF ReadCall, Writing
<1>2. call'[c].fn = "read"
  BY DEF ReadCall, IInv, TypeOK, NoCall
<1>3. \/ Return(c, RB_BAD_CALLER_DATA, next[c])
      \/ /\ Goto(c, "read", next[c])
         /\ fr' = [fr EXCEPT ![c] = [NoFrame EXCEPT !.readfrom = FLASH_SECTOR(next[c])]]
  BY DEF ReadCall
<1>4. CASE Return(c, RB_BAD_CALLER_DATA, next[c])
  BY <1>1, <1>2, <1>4, ReturnInv
<1>5. CASE /\ Goto(c, "read", next[c])
           /\ fr' = [fr EXCEPT ![c] = [NoFrame EXCEPT !.readfrom = FLASH_SECTOR(next[c])]]
  <2>1. pc'[c] = "read"
    BY <1>5, GotoFacts
  <2>2. fr'[c].erases = 0
    BY <1>5, FrameKept DEF IInv, TypeOK
  <2> QED
    BY <1>1, <1>2, <2>1, <2>2, ReadOnInv
<1> QED
  BY <1>3, <1>4, <1>5

\* rb_find is called.
LEMMA FindCallLog ==
    ASSUME IInv, Log(flash), NEW c \in Ctx, CtxInv(c), NEW id, NEW d, FindCall(c, id, d)
    PROVE  Log(flash)' /\ CtxInv(c)'
<1>1. /\ pc[c] = "idle" /\ flash' = flash /\ sector_index' = sector_index
      /\ pc[c] # "closed" /\ pc[c] \notin Writing
  BY DEF FindCall, Writing
<1>2. call'[c].fn = "find"
  BY DEF FindCall, SearchCall, IInv, TypeOK, NoCall
<1>3. \/ Return(c, RB_BAD_CALLER_DATA, next[c])
      \/ /\ Goto(c, "find", next[c])
         /\ fr' = [fr EXCEPT ![c] = [NoFrame EXCEPT !.orignext = FLASH_SECTOR(next[c])]]
  BY DEF FindCall
<1>4. CASE Return(c, RB_BAD_CALLER_DATA, next[c])
  BY <1>1, <1>2, <1>4, ReturnInv
<1>5. CASE /\ Goto(c, "find", next[c])
           /\ fr' = [fr EXCEPT ![c] = [NoFrame EXCEPT !.orignext = FLASH_SECTOR(next[c])]]
  <2>1. pc'[c] = "find"
    BY <1>5, GotoFacts
  <2>2. fr'[c].erases = 0
    BY <1>5, FrameKept DEF IInv, TypeOK
  <2> QED
    BY <1>1, <1>2, <2>1, <2>2, ReadOnInv
<1> QED
  BY <1>3, <1>4, <1>5

\* rb_delete is called.
LEMMA DeleteCallLog ==
    ASSUME IInv, MaxIndex < IndexMask, Log(flash), NEW c \in Ctx, CtxInv(c), NEW id, NEW d,
           DeleteCall(c, id, d)
    PROVE  Log(flash)' /\ CtxInv(c)'
<1>1. /\ pc[c] = "idle" /\ flash' = flash
      /\ pc[c] # "closed" /\ pc[c] \notin Writing
  BY DEF DeleteCall, Writing
<1>2. call'[c].fn = "delete"
  BY DEF DeleteCall, SearchCall, IInv, TypeOK, NoCall
<1>3. PICK o \in rb_find_ring_oldest_sector(sector_index[c]) :
         /\ sector_index' = [sector_index EXCEPT ![c] = o.sector_index]
         /\ \/ Return(c, o.st, o.next)
            \/ Return(c, RB_BAD_CALLER_DATA, next[c])
            \/ /\ Goto(c, "find", o.next)
               /\ fr' = [fr EXCEPT ![c] = [NoFrame EXCEPT !.oldnext = next[c],
                                                          !.orignext = o.next]]
  BY DEF DeleteCall
<1>4. o.sector_index = sector_index[c]
  <2>1. sector_index[c] \in Nat /\ \A b \in Started(flash) : Idx(flash, b) <= sector_index[c]
    BY <1>1 DEF IInv, TypeOK, CtxInv, IndexInv
  <2> QED
    BY <2>1, OldestFound
<1>5. sector_index'[c] = sector_index[c]
  BY <1>3, <1>4 DEF IInv, TypeOK
<1>6. CASE Return(c, o.st, o.next)
  BY <1>1, <1>2, <1>5, <1>6, ReturnInv
<1>7. CASE Return(c, RB_BAD_CALLER_DATA, next[c])
  BY <1>1, <1>2, <1>5, <1>7, ReturnInv
<1>8. CASE /\ Goto(c, "find", o.next)
           /\ fr' = [fr EXCEPT ![c] = [NoFrame EXCEPT !.oldnext = next[c],
                                                      !.orignext = o.next]]
  <2>1. pc'[c] = "find"
    BY <1>8, GotoFacts
  <2>2. fr'[c].erases = 0
    BY <1>8, FrameKept DEF IInv, TypeOK
  <2> QED
    BY <1>1, <1>2, <1>5, <2>1, <2>2, ReadOnInv
<1> QED
  BY <1>3, <1>6, <1>7, <1>8

\* A search under way is not an append, and has its frame.
LEMMA SearchFacts ==
    ASSUME IInv, NEW c \in Ctx, CtxInv(c), pc[c] \in {"read", "find", "compare", "smudge"}
    PROVE  /\ call[c].fn # "append" /\ fr[c] \in Frame /\ fr[c].erases \in {0, 1}
           /\ pc[c] # "closed" /\ pc[c] \notin Writing
  BY DEF IInv, TypeOK, CtxInv, CallsInv, EraseInv, Writing

\* rb_read returns.
LEMMA ReadReturnLog ==
    ASSUME IInv, Log(flash), NEW c \in Ctx, CtxInv(c), pc[c] = "read",
           flash' = flash, sector_index' = sector_index, call' = call,
           NEW r, NEW n, ReadReturn(c, r, n)
    PROVE  Log(flash)' /\ CtxInv(c)'
<1>1. /\ call[c].fn # "append" /\ fr[c].erases \in {0, 1}
      /\ pc[c] # "closed" /\ pc[c] \notin Writing
  BY SearchFacts
<1>2. CASE Return(c, r, n)
  BY <1>1, <1>2, ReturnInv
<1>3. CASE pc' = [pc EXCEPT ![c] = "compare"] /\ fr' = fr
  <2>1. pc'[c] = "compare"
    BY <1>3 DEF IInv, TypeOK
  <2> QED
    BY <1>1, <1>3, <2>1, ReadOnInv
<1> QED
  BY <1>2, <1>3 DEF ReadReturn

\* An iteration of rb_read.
LEMMA ReadStepLog ==
    ASSUME IInv, Log(flash), NEW c \in Ctx, CtxInv(c), ReadStep(c)
    PROVE  Log(flash)' /\ CtxInv(c)'
<1>1. pc[c] = "read" /\ flash' = flash /\ sector_index' = sector_index /\ call' = call
  BY DEF ReadStep
<1>2. /\ call[c].fn # "append" /\ fr[c] \in Frame /\ fr[c].erases \in {0, 1}
      /\ pc[c] # "closed" /\ pc[c] \notin Writing
  BY <1>1, SearchFacts
<1> DEFINE st == fetch_and_check_header(next[c])
           a == Fetched(next[c])
           hdr == HeaderAt(a)
           skip == rb_incr(a, hdr.len + H)
           got == Minimum(hdr.len, call[c].size - fr[c].total)
           total == fr[c].total + got
           end == rb_incr(a + H, hdr.len)
           over == Fetched(end)
           last == IF MOD_SECTOR(end) = 0 THEN over ELSE end
<1>7. \/ ReadReturn(c, Outer(c, st), a)
      \/ Goto(c, "read", skip) /\ fr' = fr
      \/ ReadReturn(c, Outer(c, RB_HDR_ID_NOT_FOUND), skip)
      \/ ReadReturn(c, Outer(c, RB_BAD_HDR), over)
      \/ /\ Goto(c, "read", over)
         /\ fr' = [fr EXCEPT ![c].total = total, ![c].readfrom = FLASH_SECTOR(over)]
      \/ ReadReturn(c, total, last)
  BY Zenon DEF ReadStep
<1> HIDE DEF st, a, hdr, skip, got, total, end, over, last
<1>3. \/ \E r, n : ReadReturn(c, r, n)
      \/ \E n : Goto(c, "read", n) /\ fr' = fr
      \/ \E n, t, f : /\ Goto(c, "read", n)
                      /\ fr' = [fr EXCEPT ![c].total = t, ![c].readfrom = f]
  BY <1>7
<1>4. CASE \E r, n : ReadReturn(c, r, n)
  BY <1>1, <1>4, ReadReturnLog
<1>5. CASE \E n : Goto(c, "read", n) /\ fr' = fr
  <2>1. pc'[c] = "read"
    BY <1>5, GotoFacts
  <2> QED
    BY <1>1, <1>2, <1>5, <2>1, ReadOnInv
<1>6. ASSUME NEW n, NEW t, NEW f, Goto(c, "read", n),
             fr' = [fr EXCEPT ![c].total = t, ![c].readfrom = f]
      PROVE  Log(flash)' /\ CtxInv(c)'
  <2>1. pc'[c] = "read"
    BY <1>6, GotoFacts
  <2>2. fr'[c] = [fr[c] EXCEPT !.total = t, !.readfrom = f]
    BY <1>6 DEF IInv, TypeOK
  <2>3. fr'[c].erases = fr[c].erases
    BY <1>2, <2>2, FrameKept
  <2> QED
    BY <1>1, <1>2, <2>1, <2>3, ReadOnInv
<1> QED
  BY <1>3, <1>4, <1>5, <1>6

\* rb_find returns.
LEMMA FindReturnLog ==
    ASSUME IInv, Log(flash), NEW c \in Ctx, CtxInv(c), pc[c] \in {"find", "compare"},
           flash' = flash, sector_index' = sector_index, call' = call,
           NEW r, NEW n, FindReturn(c, r, n)
    PROVE  Log(flash)' /\ CtxInv(c)'
<1>1. /\ call[c].fn # "append" /\ fr[c].erases \in {0, 1}
      /\ pc[c] # "closed" /\ pc[c] \notin Writing
  BY SearchFacts
<1>2. CASE \E x : Return(c, r, x)
  BY <1>1, <1>2, ReturnInv
<1>3. CASE Goto(c, "smudge", r) /\ fr' = fr
  <2>1. pc'[c] = "smudge"
    BY <1>3, GotoFacts
  <2> QED
    BY <1>1, <1>3, <2>1, ReadOnInv
<1> QED
  BY <1>2, <1>3 DEF FindReturn

\* An iteration of rb_find.
LEMMA FindStepLog ==
    ASSUME IInv, Log(flash), NEW c \in Ctx, CtxInv(c), FindStep(c)
    PROVE  Log(flash)' /\ CtxInv(c)'
<1>1. pc[c] = "find" /\ flash' = flash /\ sector_index' = sector_index /\ call' = call
  BY DEF FindStep
<1>2. /\ call[c].fn # "append" /\ fr[c] \in Frame /\ fr[c].erases \in {0, 1}
      /\ pc[c] # "closed" /\ pc[c] \notin Writing
  BY <1>1, SearchFacts
<1>3. \/ \E r, n : FindReturn(c, r, n)
      \/ \E n : Goto(c, "find", n) /\ fr' = fr
      \/ \E a, f : /\ Goto(c, "read", a)
                   /\ fr' = [fr EXCEPT ![c].found = a, ![c].total = 0, ![c].readfrom = f]
  BY DEF FindStep
<1>4. CASE \E r, n : FindReturn(c, r, n)
  BY <1>1, <1>4, FindReturnLog
<1>5. CASE \E n : Goto(c, "find", n) /\ fr' = fr
  <2>1. pc'[c] = "find"
    BY <1>5, GotoFacts
  <2> QED
    BY <1>1, <1>2, <1>5, <2>1, ReadOnInv
<1>6. ASSUME NEW a, NEW f, Goto(c, "read", a),
             fr' = [fr EXCEPT ![c].found = a, ![c].total = 0, ![c].readfrom = f]
      PROVE  Log(flash)' /\ CtxInv(c)'
  <2>1. pc'[c] = "read"
    BY <1>6, GotoFacts
  <2>2. fr'[c] = [fr[c] EXCEPT !.found = a, !.total = 0, !.readfrom = f]
    BY <1>6 DEF IInv, TypeOK
  <2>3. fr'[c].erases = fr[c].erases
    BY <1>2, <2>2, FrameKept
  <2> QED
    BY <1>1, <1>2, <2>1, <2>3, ReadOnInv
<1> QED
  BY <1>3, <1>4, <1>5, <1>6

\* rb_find compares.
LEMMA CompareLog ==
    ASSUME IInv, Log(flash), NEW c \in Ctx, CtxInv(c), Compare(c)
    PROVE  Log(flash)' /\ CtxInv(c)'
<1>1. pc[c] = "compare" /\ flash' = flash /\ sector_index' = sector_index /\ call' = call
  BY DEF Compare
<1>2. /\ call[c].fn # "append" /\ fr[c].erases \in {0, 1}
      /\ pc[c] # "closed" /\ pc[c] \notin Writing
  BY <1>1, SearchFacts
<1>3. \/ \E r, n : FindReturn(c, r, n)
      \/ \E n : Goto(c, "find", n) /\ fr' = fr
  BY DEF Compare
<1>4. CASE \E r, n : FindReturn(c, r, n)
  BY <1>1, <1>4, FindReturnLog
<1>5. CASE \E n : Goto(c, "find", n) /\ fr' = fr
  <2>1. pc'[c] = "find"
    BY <1>5, GotoFacts
  <2> QED
    BY <1>1, <1>2, <1>5, <2>1, ReadOnInv
<1> QED
  BY <1>3, <1>4, <1>5

\* rb_smudge prepares to clear the flag of a header that passed its check.
LEMMA SmudgeLog ==
    ASSUME IInv, Log(flash), NEW c \in Ctx, CtxInv(c), Smudge(c)
    PROVE  Log(flash)' /\ CtxInv(c)'
<1> DEFINE st == fetch_and_check_header(next[c])
           a == Fetched(next[c])
           hdr == HeaderAt(a)
           todo == << <<[hdr EXCEPT !.live = FALSE]>> >>
<1>1. pc[c] = "smudge" /\ flash' = flash /\ sector_index' = sector_index /\ call' = call
      /\ page' = page
  BY DEF Smudge
<1>2. /\ call[c].fn # "append" /\ fr[c] \in Frame /\ fr[c].erases \in {0, 1}
      /\ pc[c] # "closed" /\ pc[c] \notin Writing
  BY <1>1, SearchFacts
<1>3. CASE Return(c, st, fr[c].oldnext)
  BY <1>1, <1>2, <1>3, ReturnInv
<1>4. CASE /\ st = RB_OK /\ Goto(c, "append_page", a + H - 1)
           /\ fr' = [fr EXCEPT ![c].todo = todo]
  <2>1. pc'[c] = "append_page" /\ next'[c] = a + H - 1
    BY <1>4, GotoFacts
  <2>2. fr'[c] = [fr[c] EXCEPT !.todo = todo]
    BY <1>4 DEF IInv, TypeOK
  <2>3. fr'[c].todo = todo /\ fr'[c].erases = fr[c].erases
    <3> HIDE DEF todo
    <3> QED
      BY <1>2, <2>2, FrameKept
  <2>4. HeaderStatus(a) = RB_OK
    BY <1>4, StatusType
  <2>5. a + H - 1 \in Addr
    BY <2>4, HeaderType DEF IInv, TypeOK
  <2>6. hdr = flash[a + H - 1]
    BY <2>5 DEF HeaderAt, FlashAt
  <2>7. hdr.k = "hdr" /\ hdr.part = H - 1
    <3>1. /\ hdr.k = "hdr"
          /\ \A i \in 0 .. H - 1 :
                FlashAt(a + i) = HdrCell(hdr.id, hdr.len, hdr.split, hdr.live, i)
      BY <2>4 DEF HeaderStatus, RB_OK, RB_BLANK_HDR, RB_BAD_HDR
    <3>2. H - 1 \in 0 .. H - 1 /\ a + H - 1 = a + (H - 1)
      <4>1. a \in Int
        BY FetchedInRing, SizeFacts, GeometryAssumption DEF IInv, TypeOK, Addr
      <4> QED
        BY <4>1, GeometryAssumption
    <3>3. hdr = HdrCell(hdr.id, hdr.len, hdr.split, hdr.live, H - 1)
      BY <3>1, <3>2 DEF HeaderAt
    <3> HIDE DEF hdr
    <3> QED
      BY <3>1, <3>3, Kinds
  <2> DEFINE x == [hdr EXCEPT !.live = FALSE]
  <2>8. Len(todo) = 1 /\ Len(todo[1]) = 1 /\ todo[1][1] = [flash[a + H - 1] EXCEPT !.live = FALSE]
    <3>1. x = [flash[a + H - 1] EXCEPT !.live = FALSE]
      BY <2>6
    <3>2. todo = << <<x>> >>
      OBVIOUS
    <3> HIDE DEF todo, x
    <3> QED
      BY <3>1, <3>2
  <2> HIDE DEF todo
  <2>9. SmudgeFlight(flash', next'[c], fr'[c].todo)
    BY <1>1, <2>1, <2>3, <2>6, <2>7, <2>8 DEF SmudgeFlight
  <2>10. IndexInv(c)'
    BY <1>1, <1>2 DEF IndexInv, CtxInv
  <2>11. WholeInv(c)'
    <3> SUFFICES ASSUME "crash" \notin Ops PROVE ~Torn(flash') /\ AppendOk(c)'
      BY DEF WholeInv
    <3> QED
      BY <1>1, <1>2, <2>1, WholeNow DEF AppendOk, Returned
  <2>12. CallsInv(c)' /\ EraseInv(c)' /\ PlaceInv(c)'
    BY <1>2, <2>1, <2>3 DEF CallsInv, EraseInv, PlaceInv, Appending
  <2>13. WriteInv(c)'
    <3>1. PageInv(c)'
      BY <2>1 DEF PageInv
    <3> QED
      BY <1>1, <1>2, <2>9, <3>1 DEF WriteInv
  <2> QED
    BY <1>1, <2>10, <2>11, <2>12, <2>13 DEF CtxInv
<1> QED
  BY <1>3, <1>4 DEF Smudge

-----------------------------------------------------------------------------
(* rb_recreate and the power failure *)

\* rb_recreate finds a log, or erases everything.
LEMMA RecreateLog ==
    ASSUME IInv, Log(flash), NEW c \in Ctx, CtxInv(c), NEW choice, NEW stale \in StaleIndex,
           Recreate(c, choice, stale)
    PROVE  Log(flash)' /\ CtxInv(c)'
<1> DEFINE always == choice = "CREATE_INIT_ALWAYS"
           good(o) == (IF rb_check_sector_ring # RB_OK THEN rb_check_sector_ring ELSE o.st)
                          \in {RB_OK, RB_BLANK_HDR}
           wipe(o) == always \/ (choice = "CREATE_INIT_IF_FAIL" /\ ~good(o))
<1>1. PICK o \in rb_find_ring_oldest_sector(stale), m \in Largest(stale, SectorIs(RB_OK)) :
         /\ flash' = IF wipe(o) THEN BlankFlash ELSE flash
         /\ sector_index' = [sector_index EXCEPT ![c] = IF always THEN stale ELSE m]
         /\ pc' = [pc EXCEPT ![c] = IF wipe(o) \/ good(o) THEN "idle" ELSE "closed"]
         /\ call' = [call EXCEPT ![c] = [NoCall EXCEPT !.fn = "recreate"]]
  BY Zenon DEF Recreate
<1> DEFINE w == wipe(o)
           l == IF w \/ good(o) THEN "idle" ELSE "closed"
           x == IF always THEN stale ELSE m
<1>2. pc'[c] = l /\ l \in {"idle", "closed"} /\ sector_index'[c] = x
  BY <1>1 DEF IInv, TypeOK
<1>3. flash' = IF w THEN BlankFlash ELSE flash
  BY <1>1
<1>4. ~w => x = m
  OBVIOUS
<1>5. call'[c].fn = "recreate"
  BY <1>1 DEF IInv, TypeOK, NoCall
<1>6. /\ fr' = fr /\ fr[c].erases \in {0, 1} /\ pc[c] \notin Writing
  BY DEF Recreate, CtxInv, EraseInv, Writing
<1> HIDE DEF w, l, x
<1>7. Log(flash')
  BY <1>3, BlankLog
<1>8. stale \in Nat
  BY ParameterAssumption
<1>9. \A b \in Started(flash') : Idx(flash', b) <= sector_index'[c]
  BY <1>2, <1>3, <1>4, <1>8, BlankLog, LargestIs
<1>10. IndexInv(c)'
  BY <1>9 DEF IndexInv
<1>11. WholeInv(c)'
  <2> SUFFICES ASSUME "crash" \notin Ops PROVE ~Torn(flash') /\ AppendOk(c)'
    BY DEF WholeInv
  <2>1. ~Torn(flash)
    BY <1>6, WholeNow
  <2> QED
    BY <1>3, <1>5, <2>1, BlankLog DEF AppendOk, Returned
<1> QED
  BY <1>2, <1>6, <1>7, <1>10, <1>11, RestInv

\* After a power failure the flash still holds a log.
LEMMA CrashLog ==
    ASSUME Log(flash), NEW c \in Ctx, Crash
    PROVE  Log(flash)' /\ CtxInv(c)'
<1>1. /\ flash' = flash /\ pc'[c] = "closed" /\ fr'[c] = NoFrame /\ "crash" \in Ops
  BY DEF Crash
<1>2. IndexInv(c)'
  BY <1>1 DEF IndexInv
<1>3. WholeInv(c)'
  BY <1>1 DEF WholeInv
<1> QED
  BY <1>1, <1>2, <1>3, NoErases, RestInv

-----------------------------------------------------------------------------
(* rb_append looks for its place *)

\* rb_append is called.
LEMMA AppendCallLog ==
    ASSUME IInv, Log(flash), NEW c \in Ctx, CtxInv(c), NEW id, NEW d \in Data, NEW e,
           AppendCall(c, id, d, e)
    PROVE  Log(flash)' /\ CtxInv(c)'
<1>1. /\ pc[c] = "idle" /\ flash' = flash /\ sector_index' = sector_index
      /\ pc[c] # "closed" /\ pc[c] \notin Writing /\ sector_index[c] < MaxIndex
  BY DEF AppendCall, Writing
<1>2. /\ call'[c].fn = "append" /\ call'[c].size = Len(d) /\ call'[c].data = d
  BY DEF AppendCall, IInv, TypeOK
<1>3. d \in Seq(Byte) /\ Len(d) \in Nat
  BY ParameterAssumption
<1>4. CASE Return(c, RB_BAD_CALLER_DATA, next[c]) /\ (Len(d) = 0 \/ Len(d) > Size - H)
  <2>1. Len(d) \notin 1 .. RB_MAX_APPEND_SIZE
    BY <1>3, <1>4, SizeFacts, GeometryAssumption DEF RB_MAX_APPEND_SIZE
  <2> QED
    BY <1>1, <1>2, <1>4, <2>1, ReturnInv
<1>5. CASE /\ Goto(c, "oldest", next[c])
           /\ fr' = [fr EXCEPT ![c] = [NoFrame EXCEPT !.oldnext = next[c]]]
  <2>1. pc'[c] = "oldest"
    BY <1>5, GotoFacts
  <2>2. fr'[c].erases = 0
    BY <1>5, FrameKept DEF IInv, TypeOK
  <2>3. IndexInv(c)'
    BY <1>1 DEF IndexInv, CtxInv
  <2>4. CallsInv(c)' /\ EraseInv(c)' /\ PlaceInv(c)'
    BY <1>1, <1>2, <2>1, <2>2 DEF CallsInv, EraseInv, PlaceInv
  <2>5. WholeInv(c)'
    BY <1>1, <2>1, WholeNow DEF WholeInv, AppendOk, Returned
  <2> QED
    BY <1>1, <2>1, <2>3, <2>4, <2>5, AppendingInv DEF Appending
<1> QED
  BY <1>4, <1>5 DEF AppendCall

\* An append under way knows the largest index and its frame.
LEMMA AppendFacts ==
    ASSUME IInv, NEW c \in Ctx, CtxInv(c), pc[c] \in Appending
    PROVE  /\ call[c].fn = "append" /\ sector_index[c] < MaxIndex
           /\ call[c].size = Len(call[c].data) /\ sector_index[c] \in Nat
           /\ \A b \in Started(flash) : Idx(flash, b) <= sector_index[c]
           /\ fr[c] \in Frame /\ fr[c].erases \in {0, 1}
           /\ pc[c] # "closed" /\ pc[c] # "idle" /\ pc[c] \notin Writing
  BY DEF IInv, TypeOK, CtxInv, CallsInv, EraseInv, IndexInv, Writing, Appending

\* rb_append finds where the log begins.
LEMMA AppendOldestLog ==
    ASSUME IInv, MaxIndex < IndexMask, Log(flash), NEW c \in Ctx, CtxInv(c), AppendOldest(c)
    PROVE  Log(flash)' /\ CtxInv(c)'
<1>1. pc[c] = "oldest" /\ flash' = flash /\ call' = call
  BY DEF AppendOldest
<1>2. /\ call[c].fn = "append" /\ sector_index[c] < MaxIndex
      /\ call[c].size = Len(call[c].data) /\ sector_index[c] \in Nat
      /\ \A b \in Started(flash) : Idx(flash, b) <= sector_index[c]
      /\ fr[c] \in Frame /\ fr[c].erases \in {0, 1}
      /\ pc[c] # "closed" /\ pc[c] \notin Writing
  BY <1>1, AppendFacts DEF Appending
<1>3. PICK o \in rb_find_ring_oldest_sector(sector_index[c]) :
         /\ sector_index' = [sector_index EXCEPT ![c] = o.sector_index]
         /\ IF o.st = RB_BAD_HDR
            THEN Return(c, RB_BAD_HDR, o.next)
            ELSE /\ Goto(c, "walk", o.next)
                 /\ fr' = [fr EXCEPT ![c].orignext = o.next]
  BY DEF AppendOldest
<1>4. /\ o.st # RB_BAD_HDR /\ o.sector_index = sector_index[c]
      /\ IF Started(flash) = {} THEN o.next = 0 ELSE Eldest(flash, o.next)
  BY <1>2, OldestFound
<1>5. sector_index'[c] = sector_index[c]
  BY <1>3, <1>4 DEF IInv, TypeOK
<1>6. pc'[c] = "walk" /\ next'[c] = o.next
  BY <1>3, <1>4, GotoFacts
<1>7. fr'[c] = [fr[c] EXCEPT !.orignext = o.next]
  BY <1>3, <1>4 DEF IInv, TypeOK
<1>8. fr'[c].erases = fr[c].erases /\ fr'[c].orignext = o.next
  BY <1>2, <1>7, FrameKept
<1>9. PlaceInv(c)'
  BY <1>1, <1>4, <1>6, <1>8 DEF PlaceInv, WalkAt
<1>10. EraseInv(c)'
  BY <1>1, <1>2, <1>6, <1>8 DEF EraseInv, CtxInv
<1>11. IndexInv(c)' /\ CallsInv(c)'
  BY <1>1, <1>2, <1>5, <1>6 DEF IndexInv, CallsInv
<1>12. WholeInv(c)'
  BY <1>1, <1>2, <1>6, WholeNow DEF WholeInv, AppendOk, Returned
<1> QED
  BY <1>1, <1>6, <1>9, <1>10, <1>11, <1>12, AppendingInv DEF Appending

\* The length in a record header is a number.
LEMMA HeaderLength ==
    ASSUME flash \in [Addr -> Cell], NEW b \in Base, NEW q \in Room, IsHdr(flash, b + q)
    PROVE  /\ flash[b + q + H - 1].len \in Nat /\ HeaderAt(b + q) = flash[b + q + H - 1]
           /\ EndOf(flash, b, q) \in Nat
           /\ EndOf(flash, b, q) = q + (flash[b + q + H - 1].len + H)
           /\ EndOf(flash, b, q) >= q + H
<1>1. HeaderStatus(b + q) = RB_OK /\ HeaderAt(b + q) = flash[b + q + H - 1]
  BY HeaderSeen
<1>2. HeaderAt(b + q) \in HeaderCells
  BY <1>1, HeaderType
<1>3. flash[b + q + H - 1].len \in Nat
  BY <1>1, <1>2 DEF HeaderCells
<1> QED
  BY <1>1, <1>3, RoomFacts DEF EndOf

\* Where the walk goes from a record header, and what it is if there is none.
LEMMA RecordSeen ==
    ASSUME flash \in [Addr -> Cell], Log(flash), NEW b \in Started(flash), NEW q \in Room,
           Bound(flash, b, q),
           NEW after, after = rb_incr(b + q, HeaderAt(b + q).len + H)
    PROVE  /\ HeaderStatus(b + q) = RB_OK =>
                 \/ after = After(b) /\ Closed(flash, b)
                 \/ \E u \in Room : after = b + u /\ Bound(flash, b, u)
           /\ HeaderStatus(b + q) = RB_BLANK_HDR =>
                 Youngest(flash, b) /\ Open(flash, b, q) /\ BlankFrom(flash, b, q)
           /\ HeaderStatus(b + q) = RB_BAD_HDR => Torn(flash)
<1>1. b \in Base /\ Laid(flash, b)
  BY DEF Started, Log
<1>2. /\ H \in Nat /\ H >= 1 /\ S \in Nat /\ b \in Nat /\ q \in Nat /\ q >= H /\ q \in 0 .. S - 1
      /\ b + S <= Size /\ Size \in Nat
  BY <1>1, RoomFacts, BaseFacts, SizeFacts
<1>3. ASSUME HeaderStatus(b + q) = RB_OK
      PROVE  \/ after = After(b) /\ Closed(flash, b)
             \/ \E u \in Room : after = b + u /\ Bound(flash, b, u)
  <2> DEFINE len == flash[b + q + H - 1].len
             u == EndOf(flash, b, q)
  <2>1. IsHdr(flash, b + q)
    BY <1>1, <1>3, HeaderSeen
  <2>2. len \in Nat /\ HeaderAt(b + q).len = len /\ u \in Nat /\ u = q + (len + H) /\ u >= q + H
    BY <1>1, <2>1, HeaderLength
  <2>3. u <= S /\ Bound(flash, b, u)
    BY <1>1, <2>1 DEF Laid, Bound
  <2>4. MOD_SECTOR(b + q) = q /\ FLASH_SECTOR(b + q) = b
    BY <1>1, <1>2, InSector
  <2> HIDE DEF len, u
  <2>5. u \in H .. S
    BY <1>2, <2>2, <2>3
  <2>6. CASE u > S - (H + 1)
    <3>1. after = After(b)
      BY <2>2, <2>4, <2>6 DEF rb_incr, After
    <3>2. u > S - H - 1
      BY <1>2, <2>2, <2>6
    <3>3. Closed(flash, b)
      BY <1>1, <2>3, <2>5, <3>2, EndCloses
    <3> QED
      BY <3>1, <3>3
  <2>7. CASE ~(u > S - (H + 1))
    <3>1. u \in Room
      BY <1>2, <2>5, <2>7 DEF Room
    <3>2. b + q + (len + H) = b + u /\ b + u < Size
      BY <1>2, <2>2, <2>7
    <3>3. after = b + u
      BY <1>2, <2>2, <2>4, <2>7, <3>2 DEF rb_incr
    <3> QED
      BY <2>3, <3>1, <3>3
  <2> QED
    BY <2>6, <2>7
<1>4. ASSUME HeaderStatus(b + q) = RB_BLANK_HDR
      PROVE  Youngest(flash, b) /\ Open(flash, b, q) /\ BlankFrom(flash, b, q)
  <2>1. flash[b + q] = Blank /\ ~IsHdr(flash, b + q)
    BY <1>1, <1>4, HeaderSeen
  <2>2. Open(flash, b, q)
    BY <2>1 DEF Open
  <2> QED
    BY <1>1, <2>1, <2>2 DEF Laid
<1>5. ASSUME HeaderStatus(b + q) = RB_BAD_HDR PROVE Torn(flash)
  <2>1. RB_BAD_HDR # RB_OK /\ RB_BAD_HDR # RB_BLANK_HDR
    BY DEF RB_BAD_HDR, RB_OK, RB_BLANK_HDR
  <2>2. ~IsHdr(flash, b + q) /\ ~BlankFrom(flash, b, q)
    BY <1>1, <1>5, <2>1, HeaderSeen
  <2>3. Open(flash, b, q)
    BY <2>2 DEF Open
  <2>4. flash[b + q] # Blank
    BY <1>1, <2>2, <2>3 DEF Laid
  <2> QED
    BY <2>3, <2>4 DEF Torn
<1> QED
  BY <1>3, <1>4, <1>5

\* The walk stands at a record of a started sector or at a fresh sector.
LEMMA WalkStands ==
    ASSUME Log(flash), NEW n, NEW o, WalkAt(flash, n, o)
    PROVE  /\ MOD_SECTOR(n) <= S - H - 1
           /\ \/ /\ Fresh(flash, n) /\ Fetched(n) = n
                 /\ fetch_and_check_header(n) = RB_BLANK_HDR
              \/ \E b \in Started(flash), q \in Room :
                    /\ Bound(flash, b, q) /\ Fetched(n) = b + q
                    /\ fetch_and_check_header(n) = HeaderStatus(b + q)
<1>0. H \in Nat /\ S \in Nat /\ 0 <= S - H - 1 /\ H \in Room
  BY RoomFacts
<1>1. ASSUME n \in Started(flash)
      PROVE  /\ MOD_SECTOR(n) = 0 /\ Bound(flash, n, H) /\ Fetched(n) = n + H
             /\ fetch_and_check_header(n) = HeaderStatus(n + H)
  <2>1. n \in Base
    BY <1>1 DEF Started
  <2> QED
    BY <1>1, <2>1, FetchedStart DEF Bound
<1>2. ASSUME Fresh(flash, n)
      PROVE  /\ MOD_SECTOR(n) = 0 /\ Fetched(n) = n
             /\ fetch_and_check_header(n) = RB_BLANK_HDR
  <2>1. n \in Base /\ n \notin Started(flash)
    BY <1>2 DEF Fresh
  <2> QED
    BY <2>1, FetchedStart
<1>3. CASE n = o
  <2>1. CASE Started(flash) = {}
    <3>1. n = 0
      BY <1>3, <2>1 DEF WalkAt
    <3>2. Fresh(flash, n)
      BY <2>1, <3>1, ZeroIsBase DEF Fresh
    <3> QED
      BY <1>0, <1>2, <3>2
  <2>2. CASE Started(flash) # {}
    <3>1. n \in Started(flash)
      BY <1>3, <2>2 DEF WalkAt, Eldest
    <3> QED
      BY <1>0, <1>1, <3>1
  <2> QED
    BY <2>1, <2>2
<1>4. ASSUME NEW p \in Started(flash), Closed(flash, p), n = After(p)
      PROVE  n \in Started(flash) \/ Fresh(flash, n)
  <2>1. p \in Base
    BY DEF Started
  <2>2. n \in Base
    BY <1>4, <2>1, AfterFacts
  <2>3. n \notin Started(flash) => Youngest(flash, p)
    BY <1>4, EndOfArc
  <2> QED
    BY <1>4, <2>2, <2>3 DEF Fresh
<1>5. CASE \E p \in Started(flash) : Closed(flash, p) /\ n = After(p)
  <2>1. n \in Started(flash) \/ Fresh(flash, n)
    BY <1>4, <1>5
  <2> QED
    BY <1>0, <1>1, <1>2, <2>1
<1>6. CASE \E b \in Started(flash), q \in Room : Bound(flash, b, q) /\ n = b + q
  <2>1. PICK b \in Started(flash), q \in Room : Bound(flash, b, q) /\ n = b + q
    BY <1>6
  <2>2. b \in Base
    BY DEF Started
  <2>3. /\ MOD_SECTOR(b + q) = q /\ q <= S - H - 1 /\ Fetched(b + q) = b + q
        /\ fetch_and_check_header(b + q) = HeaderStatus(b + q)
    BY <2>2, FetchedInside
  <2> QED
    BY <2>1, <2>3
<1> QED
  BY <1>3, <1>5, <1>6 DEF WalkAt

\* The walk has come round to where it started: the ring is full.
LEMMA WalkRound ==
    ASSUME Log(flash), NEW b \in Started(flash), NEW o, Eldest(flash, o),
           \/ o = After(b) /\ Closed(flash, b)
           \/ \E u \in Room : o = b + u /\ Bound(flash, b, u)
    PROVE  FullFrom(flash, b) /\ Closed(flash, b)
<1>1. b \in Base /\ o \in Base /\ o \in Nat
  BY BaseFacts DEF Started, Eldest
<1>2. ASSUME NEW u \in Room, o = b + u PROVE FALSE
  <2>1. o + 0 = b + u /\ 0 \in 0 .. S - 1 /\ u \in 0 .. S - 1 /\ u >= 1
    BY <1>1, <1>2, RoomFacts
  <2>2. 0 = u
    BY <1>1, <2>1, OneWay
  <2> QED
    BY <2>1, <2>2
<1>3. o = After(b) /\ Closed(flash, b)
  BY <1>2
<1>4. Youngest(flash, b)
  BY <1>3, EndOfArc
<1> QED
  BY <1>3, <1>4 DEF FullFrom

\* After an erase the ring is not full.
LEMMA FullOnce ==
    ASSUME IInv, Log(flash), NEW c \in Ctx, CtxInv(c),
           pc[c] \in {"oldest", "walk", "sector_append"}, NEW p \in Base, FullFrom(flash, p)
    PROVE  fr[c].erases = 0
<1>1. Youngest(flash, p) /\ After(p) \in Started(flash)
  BY DEF FullFrom, Eldest
<1>2. SUFFICES ASSUME fr[c].erases = 1 PROVE FALSE
  BY DEF CtxInv, EraseInv
<1>3. PICK d \in Base : Youngest(flash, d) /\ After(d) \notin Started(flash)
  BY <1>2 DEF CtxInv, EraseInv
<1> QED
  BY <1>1, <1>3, YoungestIsOne

\* rb_findnext_writeable walks from record to record to the end of the log,
\* or finds the ring full.
LEMMA WalkLog ==
    ASSUME IInv, Log(flash), NEW c \in Ctx, CtxInv(c), Walk(c)
    PROVE  Log(flash)' /\ CtxInv(c)'
<1> DEFINE n == next[c]
           o == fr[c].orignext
           a == IF MOD_SECTOR(n) > S - H - 1 THEN NextSectorOf(n) ELSE n
           st == fetch_and_check_header(a)
           after == rb_incr(Fetched(a), HeaderAt(Fetched(a)).len + H)
<1>1. /\ pc[c] = "walk" /\ flash' = flash /\ call' = call /\ sector_index' = sector_index
  BY DEF Walk
<1>2. /\ call[c].fn = "append" /\ sector_index[c] < MaxIndex
      /\ call[c].size = Len(call[c].data)
      /\ \A b \in Started(flash) : Idx(flash, b) <= sector_index[c]
      /\ fr[c].erases \in {0, 1}
      /\ pc[c] # "closed" /\ pc[c] \notin Writing
  BY <1>1, AppendFacts DEF Appending
<1>3. WalkAt(flash, n, o)
  BY <1>1 DEF CtxInv, PlaceInv
<1>4. n \in Addr /\ MOD_SECTOR(n) \in Int
  BY SectorOfAddr DEF IInv, TypeOK
<1>5. a = n
  <2>1. MOD_SECTOR(n) <= S - H - 1
    BY <1>3, WalkStands
  <2> QED
    BY <1>4, <2>1, RoomFacts
<1>6. \/ st = RB_OK /\ after # o /\ Goto(c, "walk", after) /\ fr' = fr
      \/ /\ st = RB_OK /\ after = o /\ call[c].erase
         /\ Goto(c, "erase_full", FLASH_SECTOR(after)) /\ fr' = fr
      \/ st = RB_OK /\ after = o /\ ~call[c].erase /\ Return(c, RB_HDR_LOOP, fr[c].oldnext)
      \/ st = RB_BLANK_HDR /\ Goto(c, "sector_append", Fetched(a)) /\ fr' = fr
      \/ st = RB_BAD_HDR /\ Return(c, RB_BAD_HDR, fr[c].oldnext)
  BY DEF Walk
<1>7. RB_OK # RB_BLANK_HDR /\ RB_BAD_HDR # RB_BLANK_HDR /\ RB_BAD_HDR # RB_OK
  BY DEF RB_BAD_HDR, RB_OK, RB_BLANK_HDR
<1> HIDE DEF a
<1>8. \/ Fresh(flash, n) /\ Fetched(a) = n /\ st = RB_BLANK_HDR
      \/ \E b \in Started(flash), q \in Room :
            /\ Bound(flash, b, q) /\ Fetched(a) = b + q /\ st = HeaderStatus(b + q)
  BY <1>3, <1>5, WalkStands
<1>9. flash \in [Addr -> Cell]
  BY DEF IInv, TypeOK
<1>10. ASSUME st = RB_OK
       PROVE  /\ \E b \in Started(flash) :
                    \/ after = After(b) /\ Closed(flash, b)
                    \/ \E u \in Room : after = b + u /\ Bound(flash, b, u)
              /\ Started(flash) # {}
  <2>1. PICK b \in Started(flash), q \in Room :
            /\ Bound(flash, b, q) /\ Fetched(a) = b + q /\ st = HeaderStatus(b + q)
    BY <1>7, <1>8, <1>10
  <2>2. after = rb_incr(b + q, HeaderAt(b + q).len + H)
    BY <2>1
  <2> HIDE DEF after
  <2> QED
    BY <1>9, <1>10, <2>1, <2>2, RecordSeen
<1>11. IndexInv(c)'
  BY <1>1, <1>2 DEF IndexInv
<1>12. ASSUME pc'[c] \in Appending PROVE CallsInv(c)' /\ WholeInv(c)'
  <2>1. pc'[c] # "idle" /\ pc'[c] \notin {"read", "find", "compare", "smudge"}
    BY <1>12 DEF Appending
  <2> QED
    BY <1>1, <1>2, <2>1, WholeNow DEF WholeInv, AppendOk, Returned, CallsInv
<1> HIDE DEF st, after, o, n
<1>13. CASE st = RB_OK /\ Goto(c, "walk", after) /\ fr' = fr
  <2>1. pc'[c] = "walk" /\ next'[c] = after
    BY <1>13, GotoFacts
  <2>2. WalkAt(flash, after, o)
    BY <1>3, <1>10, <1>13 DEF WalkAt
  <2>3. PlaceInv(c)'
    BY <1>1, <1>13, <2>1, <2>2 DEF PlaceInv, o
  <2>4. EraseInv(c)'
    BY <1>1, <1>2, <1>13, <2>1 DEF EraseInv, CtxInv
  <2> QED
    BY <1>1, <1>11, <1>12, <2>1, <2>3, <2>4, AppendingInv DEF Appending
<1>14. CASE st = RB_OK /\ after = o /\ Goto(c, "erase_full", FLASH_SECTOR(after)) /\ fr' = fr
  <2>1. pc'[c] = "erase_full"
    BY <1>14, GotoFacts
  <2>2. PICK b \in Started(flash) :
            \/ after = After(b) /\ Closed(flash, b)
            \/ \E u \in Room : after = b + u /\ Bound(flash, b, u)
    BY <1>10, <1>14
  <2>3. Eldest(flash, o)
    BY <1>3, <1>10, <1>14 DEF WalkAt
  <2>4. FullFrom(flash, b) /\ Closed(flash, b) /\ b \in Base
    BY <1>14, <2>2, <2>3, WalkRound DEF Started
  <2>5. fr[c].erases = 0
    BY <1>1, <2>4, FullOnce
  <2>6. EraseInv(c)'
    BY <1>1, <1>14, <2>1, <2>4, <2>5 DEF EraseInv
  <2>7. PlaceInv(c)'
    BY <2>1 DEF PlaceInv
  <2> QED
    BY <1>1, <1>11, <1>12, <2>1, <2>6, <2>7, AppendingInv DEF Appending
<1>15. CASE ~call[c].erase /\ Return(c, RB_HDR_LOOP, fr[c].oldnext)
  BY <1>1, <1>2, <1>15, ReturnInv
<1>16. CASE st = RB_BLANK_HDR /\ Goto(c, "sector_append", Fetched(a)) /\ fr' = fr
  <2>1. pc'[c] = "sector_append" /\ next'[c] = Fetched(a)
    BY <1>16, GotoFacts
  <2>2. PlaceAt(flash, Fetched(a))
    <3>1. CASE Fresh(flash, n) /\ Fetched(a) = n
      BY <3>1 DEF PlaceAt
    <3>2. ASSUME NEW b \in Started(flash), NEW q \in Room,
                 Bound(flash, b, q), Fetched(a) = b + q, st = HeaderStatus(b + q)
          PROVE  PlaceAt(flash, Fetched(a))
      <4>1. Youngest(flash, b) /\ Open(flash, b, q) /\ BlankFrom(flash, b, q) /\ b \in Base
        BY <1>9, <1>16, <3>2, RecordSeen DEF Started
      <4> QED
        BY <3>2, <4>1 DEF PlaceAt
    <3> QED
      BY <1>8, <3>1, <3>2
  <2>3. PlaceInv(c)'
    BY <1>1, <2>1, <2>2 DEF PlaceInv
  <2>4. EraseInv(c)'
    BY <1>1, <1>2, <1>16, <2>1 DEF EraseInv, CtxInv
  <2> QED
    BY <1>1, <1>11, <1>12, <2>1, <2>3, <2>4, AppendingInv DEF Appending
<1>17. CASE st = RB_BAD_HDR /\ Return(c, RB_BAD_HDR, fr[c].oldnext)
  <2>1. PICK b \in Started(flash), q \in Room :
            /\ Bound(flash, b, q) /\ Fetched(a) = b + q /\ st = HeaderStatus(b + q)
    BY <1>7, <1>8, <1>17
  <2>2. Torn(flash)
    BY <1>9, <1>17, <2>1, RecordSeen
  <2>3. "crash" \in Ops
    BY <1>2, <2>2, WholeNow
  <2> QED
    BY <1>1, <1>2, <1>17, <2>3, ReturnInv
<1> QED
  BY <1>6, <1>13, <1>14, <1>15, <1>16, <1>17

\* The eldest sector is erased, once: then there is room.
LEMMA EraseOldestLog ==
    ASSUME IInv, MaxIndex < IndexMask, N >= 2, Log(flash), NEW c \in Ctx, CtxInv(c),
           EraseOldest(c)
    PROVE  Log(flash)' /\ CtxInv(c)' /\ \E e \in Base : ErasedAt(flash, flash', e)
<1>1. pc[c] \in {"erase_full", "erase_retry"} /\ call' = call /\ pc[c] \in Appending
      /\ fr' = [fr EXCEPT ![c].erases = @ + 1]
  BY DEF EraseOldest, Appending
<1>2. /\ call[c].fn = "append" /\ sector_index[c] < MaxIndex
      /\ call[c].size = Len(call[c].data) /\ sector_index[c] \in Nat
      /\ \A b \in Started(flash) : Idx(flash, b) <= sector_index[c]
      /\ fr[c] \in Frame /\ pc[c] \notin Writing
  BY <1>1, AppendFacts
<1>3. PICK o \in rb_find_ring_oldest_sector(sector_index[c]) :
         /\ flash' = [a \in Addr |-> IF FLASH_SECTOR(a) = o.next THEN Blank ELSE flash[a]]
         /\ sector_index' = [sector_index EXCEPT ![c] = o.sector_index]
         /\ Goto(c, IF pc[c] = "erase_full" THEN "sector_append" ELSE "oldest", o.next)
  BY DEF EraseOldest
<1>4. /\ o.sector_index = sector_index[c]
      /\ IF Started(flash) = {} THEN o.next = 0 ELSE Eldest(flash, o.next)
  BY <1>2, OldestFound
<1>5. PICK p \in Base : /\ FullFrom(flash, p)
                        /\ pc[c] = "erase_full" => Closed(flash, p)
  BY <1>1 DEF CtxInv, EraseInv
<1>6. /\ Youngest(flash, p) /\ Eldest(flash, After(p)) /\ p \in Started(flash)
      /\ fr[c].erases = 0
  BY <1>1, <1>5 DEF FullFrom, Youngest, CtxInv, EraseInv
<1> DEFINE e == o.next
<1>7. Eldest(flash, e) /\ e = After(p) /\ e \in Base /\ e # p
  <2>1. Eldest(flash, e)
    BY <1>4, <1>6
  <2>2. e = After(p)
    BY <1>6, <2>1, EldestIsOne
  <2> QED
    BY <2>1, <2>2, AfterFacts
<1> HIDE DEF e
<1>8. \A d \in Base, i \in 0 .. S - 1 :
         flash'[d + i] = IF d = e THEN Blank ELSE flash[d + i]
  BY <1>3, BaseFacts, InSector DEF e
<1>9. ErasedAt(flash, flash', e)
  BY <1>7, <1>8 DEF ErasedAt, SameIn, Erased
<1>10. /\ Log(flash') /\ Started(flash') = Started(flash) \ {e}
       /\ \A b \in Base \ {e} : SameIn(flash, flash', b) /\ Idx(flash', b) = Idx(flash, b)
       /\ \A b \in Started(flash') : Youngest(flash', b) <=> Youngest(flash, b)
  BY <1>9, EldestErased
<1>11. p \in Started(flash') /\ Youngest(flash', p) /\ After(p) \notin Started(flash')
  BY <1>6, <1>7, <1>10
<1>12. sector_index'[c] = sector_index[c]
  BY <1>3, <1>4 DEF IInv, TypeOK
<1>13. pc'[c] = (IF pc[c] = "erase_full" THEN "sector_append" ELSE "oldest") /\ next'[c] = e
  BY <1>3, GotoFacts DEF e
<1>14. fr'[c].erases = 1
  <2>1. fr'[c] = [fr[c] EXCEPT !.erases = fr[c].erases + 1]
    BY <1>1 DEF IInv, TypeOK
  <2> QED
    BY <1>2, <1>6, <2>1, FrameKept
<1>15. IndexInv(c)'
  <2>1. \A b \in Started(flash') : b \in Base \ {e} /\ b \in Started(flash)
    BY <1>10 DEF Started
  <2> QED
    BY <1>2, <1>10, <1>12, <2>1 DEF IndexInv
<1>16. CallsInv(c)'
  BY <1>1, <1>2, <1>12, <1>13 DEF CallsInv
<1>17. EraseInv(c)'
  BY <1>1, <1>11, <1>13, <1>14 DEF EraseInv
<1>18. PlaceInv(c)'
  <2>1. ASSUME pc[c] = "erase_full" PROVE PlaceAt(flash', e)
    <3>1. Closed(flash', p)
      BY <1>5, <1>7, <1>10, <2>1, SameCells, SameBounds
    <3> QED
      BY <1>7, <1>11, <3>1 DEF PlaceAt, Fresh
  <2> QED
    BY <1>1, <1>13, <2>1 DEF PlaceInv
<1>19. WholeInv(c)'
  <2> SUFFICES ASSUME "crash" \notin Ops PROVE ~Torn(flash') /\ AppendOk(c)'
    BY DEF WholeInv
  <2>1. ~Torn(flash')
    BY <1>2, <1>9, EraseKeepsWhole, WholeNow
  <2> QED
    BY <1>13, <2>1 DEF AppendOk, Returned
<1>20. CtxInv(c)'
  BY <1>13, <1>15, <1>16, <1>17, <1>18, <1>19, AppendingInv DEF Appending
<1> QED
  BY <1>7, <1>9, <1>10, <1>20

-----------------------------------------------------------------------------
(* rb_sector_append *)

\* Blanks up to the end of a sector.
LEMMA BlankRunIn ==
    ASSUME NEW b \in Base, NEW i \in 0 .. S - 1, NEW n \in Nat, i + n <= S,
           BlankFrom(flash, b, i)
    PROVE  BlankRun(b + i, n)
<1> SUFFICES ASSUME NEW k \in 0 .. n - 1 PROVE FlashAt(b + i + k) = Blank
  BY DEF BlankRun
<1>1. i + k \in i .. S - 1 /\ i + k \in 0 .. S - 1 /\ b + i + k = b + (i + k)
  BY BaseFacts, RoomFacts
<1> QED
  BY <1>1, FlashInSector DEF BlankFrom

\* An erased sector is blank.
LEMMA ErasedBlank ==
    ASSUME Log(flash), NEW b \in Base, b \notin Started(flash)
    PROVE  BlankFrom(flash, b, 0) /\ \A n \in 0 .. S : BlankRun(b, n)
<1>1. BlankFrom(flash, b, 0)
  BY NotStarted DEF Erased, BlankFrom
<1>2. b + 0 = b /\ 0 \in 0 .. S - 1 /\ \A n \in 0 .. S : n \in Nat /\ 0 + n <= S
  BY BaseFacts, RoomFacts
<1>3. \A n \in 0 .. S : BlankRun(b + 0, n)
  BY <1>1, <1>2, BlankRunIn
<1> QED
  BY <1>1, <1>2, <1>3

\* In a fresh sector there is room for any record.
LEMMA FreshRoom ==
    ASSUME Log(flash), NEW a, Fresh(flash, a), NEW size \in Nat, size <= RB_MAX_APPEND_SIZE
    PROVE  /\ MOD_SECTOR(a) = 0 /\ BlanksAtLeast(a, size + H) /\ size + H < S
<1>1. a \in Base /\ a \notin Started(flash)
  BY DEF Fresh
<1>2. MOD_SECTOR(a) = 0
  BY <1>1, FetchedStart
<1>3. size + H \in 0 .. S /\ size + H < S /\ S - 0 = S
  BY RoomFacts DEF RB_MAX_APPEND_SIZE
<1>4. BlankRun(a, size + H)
  BY <1>1, <1>3, ErasedBlank
<1> QED
  BY <1>2, <1>3, <1>4 DEF BlanksAtLeast

\* At the end of the youngest sector the sector after it decides.
LEMMA EndRoom ==
    ASSUME flash \in [Addr -> Cell], N >= 2, Log(flash), NEW b \in Base, NEW o \in Room,
           Youngest(flash, b), Open(flash, b, o), BlankFrom(flash, b, o),
           NEW size \in Nat, size <= RB_MAX_APPEND_SIZE
    PROVE  /\ MOD_SECTOR(b + o) = o /\ NextSectorOf(b + o) = After(b)
           /\ After(b) \notin Started(flash) =>
                 /\ BlanksAtLeast(b + o, size + H)
                 /\ fetch_and_check_header(After(b)) = RB_BLANK_HDR
                 /\ Fetched(After(b)) = After(b)
           /\ After(b) \in Started(flash) =>
                 /\ FullFrom(flash, b)
                 /\ fetch_and_check_header(After(b)) # RB_BLANK_HDR
                 /\ fetch_and_check_header(After(b)) # RB_OK => Torn(flash)
<1>1. /\ H \in Nat /\ H >= 1 /\ S \in Nat /\ b \in Nat /\ o \in Nat /\ o \in 0 .. S - 1
      /\ o + H <= S - 1 /\ o >= H
  BY BaseFacts, RoomFacts
<1>2. MOD_SECTOR(b + o) = o
  BY <1>1, InSector
<1>3. NextSectorOf(b + o) = After(b) /\ After(b) \in Base /\ After(b) # b
  BY <1>1, AfterFacts
<1>4. ASSUME After(b) \notin Started(flash)
      PROVE  /\ BlanksAtLeast(b + o, size + H)
             /\ fetch_and_check_header(After(b)) = RB_BLANK_HDR
             /\ Fetched(After(b)) = After(b)
  <2>1. /\ fetch_and_check_header(After(b)) = RB_BLANK_HDR
        /\ Fetched(After(b)) = After(b)
    BY <1>3, <1>4, FetchedStart
  <2>2. CASE size + H <= S - o
    <3>1. size + H \in Nat /\ o + (size + H) <= S
      BY <1>1, <2>2
    <3>2. BlankRun(b + o, size + H)
      BY <1>1, <3>1, BlankRunIn
    <3> QED
      BY <1>2, <2>1, <2>2, <3>2 DEF BlanksAtLeast
  <2>3. CASE ~(size + H <= S - o)
    <3>1. S - o \in Nat /\ o + (S - o) <= S /\ (size + H) - (S - o) \in 0 .. S
      BY <1>1, <2>3 DEF RB_MAX_APPEND_SIZE
    <3>2. BlankRun(b + o, S - o)
      BY <1>1, <3>1, BlankRunIn
    <3>3. BlankRun(After(b), (size + H) - (S - o))
      BY <1>3, <1>4, <3>1, ErasedBlank
    <3> QED
      BY <1>2, <1>3, <2>1, <2>3, <3>2, <3>3 DEF BlanksAtLeast
  <2> QED
    BY <2>2, <2>3
<1>5. ASSUME After(b) \in Started(flash)
      PROVE  /\ FullFrom(flash, b)
             /\ fetch_and_check_header(After(b)) # RB_BLANK_HDR
             /\ fetch_and_check_header(After(b)) # RB_OK => Torn(flash)
  <2>1. FullFrom(flash, b)
    BY <1>5, AfterYoungest DEF FullFrom
  <2>2. fetch_and_check_header(After(b)) = HeaderStatus(After(b) + H)
    BY <1>3, <1>5, FetchedStart
  <2>3. H \in Room /\ Bound(flash, After(b), H)
    BY RoomFacts DEF Bound
  <2>4. HeaderStatus(After(b) + H) # RB_BLANK_HDR
    BY <1>3, <1>5, <2>3, RecordSeen, YoungestIsOne
  <2>5. HeaderStatus(After(b) + H) # RB_OK => Torn(flash)
    BY <1>5, <2>3, <2>4, RecordSeen, StatusType
  <2> QED
    BY <2>1, <2>2, <2>4, <2>5
<1> QED
  BY <1>2, <1>3, <1>4, <1>5

\* There is no room: the append erases, or gives up.
LEMMA NoRoomLog ==
    ASSUME IInv, Log(flash), NEW c \in Ctx, CtxInv(c), pc[c] = "sector_append",
           flash' = flash, sector_index' = sector_index, call' = call,
           NEW st, NoRoom(c, st), NEW p \in Base, FullFrom(flash, p),
           st \in {RB_FULL, RB_WRAPPED_SECTOR_USED} \/ Torn(flash)
    PROVE  Log(flash)' /\ CtxInv(c)'
<1>2. /\ call[c].fn = "append" /\ sector_index[c] < MaxIndex
      /\ call[c].size = Len(call[c].data)
      /\ \A b \in Started(flash) : Idx(flash, b) <= sector_index[c]
      /\ fr[c].erases \in {0, 1}
      /\ pc[c] # "closed" /\ pc[c] \notin Writing
  BY AppendFacts DEF Appending
<1>3. CASE Goto(c, "erase_retry", next[c]) /\ fr' = fr
  <2>1. pc'[c] = "erase_retry"
    BY <1>3, GotoFacts
  <2>2. fr[c].erases = 0
    BY FullOnce
  <2>3. EraseInv(c)'
    BY <1>3, <2>1, <2>2 DEF EraseInv
  <2>4. PlaceInv(c)' /\ IndexInv(c)' /\ CallsInv(c)'
    BY <1>2, <2>1 DEF PlaceInv, IndexInv, CallsInv
  <2>5. WholeInv(c)'
    BY <1>2, <2>1, WholeNow DEF WholeInv, AppendOk, Returned
  <2> QED
    BY <2>1, <2>3, <2>4, <2>5, AppendingInv DEF Appending
<1>4. CASE /\ Return(c, st, fr[c].oldnext)
           /\ ~(st \in {RB_FULL, RB_WRAPPED_SECTOR_USED} /\ call[c].erase)
  <2>1. "crash" \notin Ops => ~call[c].erase
    BY <1>2, <1>4, WholeNow
  <2> QED
    BY <1>2, <1>4, <2>1, ReturnInv
<1> QED
  BY <1>3, <1>4 DEF NoRoom

\* The first write of an append is prepared.
LEMMA WriteLog ==
    ASSUME IInv, Log(flash), NEW c \in Ctx, CtxInv(c), pc[c] = "sector_append",
           flash' = flash, call' = call, NEW n, NEW todo, Goto(c, "append_page", n),
           fr' = [fr EXCEPT ![c].todo = todo], sector_index'[c] >= sector_index[c],
           sector_index'[c] \in Nat, Flight(flash, n, sector_index'[c], todo)
    PROVE  Log(flash)' /\ CtxInv(c)'
<1>2. /\ call[c].fn = "append" /\ sector_index[c] \in Nat
      /\ \A b \in Started(flash) : Idx(flash, b) <= sector_index[c]
      /\ fr[c] \in Frame /\ fr[c].erases \in {0, 1}
  BY AppendFacts DEF Appending
<1>3. pc'[c] = "append_page" /\ next'[c] = n
  BY GotoFacts
<1>4. fr'[c].erases = fr[c].erases /\ fr'[c].todo = todo
  <2>1. fr'[c] = [fr[c] EXCEPT !.todo = todo]
    BY DEF IInv, TypeOK
  <2>2. [fr[c] EXCEPT !.todo = todo].erases = fr[c].erases
        /\ [fr[c] EXCEPT !.todo = todo].todo = todo
    BY ONLY <1>2, FrameKept
  <2> QED
    BY <2>1, <2>2
<1>5. IndexInv(c)'
  BY <1>2, IndexOfStarted DEF IndexInv
<1>6. CallsInv(c)' /\ EraseInv(c)' /\ PlaceInv(c)'
  BY <1>2, <1>3, <1>4 DEF CallsInv, EraseInv, PlaceInv, Appending
<1>7. PageInv(c)'
  BY <1>3 DEF PageInv
<1>8. WriteInv(c)'
  BY <1>2, <1>3, <1>4, <1>7 DEF WriteInv
<1>9. WholeInv(c)'
  BY <1>2, <1>3 DEF WholeInv, AppendOk, Returned, Writing
<1> QED
  BY <1>5, <1>6, <1>8, <1>9 DEF CtxInv

\* The pieces rb_append_page is given.
LEMMA DataSegFacts ==
    ASSUME NEW d, NEW from \in Nat, NEW len \in Nat
    PROVE  Len(DataSeg(d, from, len)) = len /\ DataCells(DataSeg(d, from, len))
<1> DEFINE cell(i) == IF from + i <= Len(d) THEN ByteCell(d[from + i]) ELSE Wild
           s == [i \in 1 .. len |-> cell(i)]
<1>1. DataSeg(d, from, len) = s
  BY DEF DataSeg
<1>2. \A i \in 1 .. len : cell(i).k \in {"data", "wild"}
  BY Kinds
<1> HIDE DEF cell
<1>3. Len(s) = len /\ \A i \in 1 .. len : s[i] = cell(i)
  OBVIOUS
<1> HIDE DEF s
<1> QED
  BY <1>1, <1>2, <1>3 DEF DataCells

\* A header from its first byte on.
LEMMA HeaderSegIs ==
    ASSUME NEW id, NEW len, NEW split
    PROVE  HeaderSeg(id, len, split) = [i \in 1 .. H - 0 |-> Part(id, len, split, i + 0 - 1)]
<1>1. H - 0 = H /\ \A i \in 1 .. H : i + 0 - 1 = i - 1
  BY RoomFacts
<1>2. HeaderSeg(id, len, split) = [i \in 1 .. H |-> Part(id, len, split, i - 1)]
  BY Zenon DEF HeaderSeg, Part
<1> QED
  BY <1>1, <1>2

\* A record is about to begin at the open place of the youngest sector.
LEMMA NewHeader ==
    ASSUME NEW r, NEW b \in Base, NEW o \in Room, Youngest(r, b), Open(r, b, o),
           BlankFrom(r, b, o), NEW id \in Ids, NEW len \in 0 .. S, NEW split \in BOOLEAN,
           NEW todo, todo[1] = HeaderSeg(id, len, split), DataCells(todo[2]),
           Len(todo[2]) <= len, o + H + len <= S, NEW si,
           Rest(r, b, o + H + Len(todo[2]), si, todo, 2)
    PROVE  AtHeader(r, b + o, si, todo)
<1>1. 0 \in 0 .. H - 1 /\ b + o = b + o + 0 /\ o + 0 = o
  BY BaseFacts, RoomFacts
<1>2. todo[1] = [i \in 1 .. H - 0 |-> Part(id, len, split, i + 0 - 1)]
  BY HeaderSegIs
<1>3. \A i \in 0 .. 0 - 1 : r[b + o + i] = Part(id, len, split, i)
  OBVIOUS
<1>4. BlankFrom(r, b, o + 0)
  BY <1>1
<1>5. \E j \in 0 .. H - 1 :
        /\ b + o = b + o + j /\ BlankFrom(r, b, o + j)
        /\ \A i \in 0 .. j - 1 : r[b + o + i] = Part(id, len, split, i)
        /\ todo[1] = [i \in 1 .. H - j |-> Part(id, len, split, i + j - 1)]
  <2> 0 \in 0 .. H - 1
    BY <1>1
  <2> WITNESS 0 \in 0 .. H - 1
  <2> QED
    BY <1>1, <1>2, <1>3, <1>4
<1> QED
  BY <1>5 DEF AtHeader

\* A sector and its first record are about to begin.
LEMMA NewSectorIs ==
    ASSUME NEW r, NEW si \in Nat, si <= MaxIndex, si >= 1,
           \A t \in Started(r) : Idx(r, t) < si,
           NEW todo, NEW j \in Nat, todo[j + 1] = SectorSeg(si),
           NEW id \in Ids, NEW len \in Nat, NEW split \in BOOLEAN,
           todo[j + 2] = HeaderSeg(id, len, split),
           2 * H + len <= S, DataCells(todo[j + 3]), Len(todo[j + 3]) <= len
    PROVE  NewSector(r, si, todo, j)
<1>1. si \in 1 .. MaxIndex /\ si <= si /\ len \in 0 .. S
  BY RoomFacts, GeometryAssumption
<1> QED
  BY <1>1 DEF NewSector

\* A record that fits into its sector.
LEMMA WholeFlight ==
    ASSUME IInv, N >= 2, Log(flash), NEW c \in Ctx, CtxInv(c), pc[c] = "sector_append",
           NEW size, size = call[c].size, size <= RB_MAX_APPEND_SIZE,
           size + H < S - MOD_SECTOR(next[c]),
           NEW si, si = sector_index[c] + 1, NEW todo,
           todo = RecordSegs(next[c], si, HeaderSeg(call[c].id, size, FALSE),
                             DataSeg(call[c].data, 0, size))
    PROVE  /\ MOD_SECTOR(next[c]) = 0 => Flight(flash, next[c], si, todo)
           /\ MOD_SECTOR(next[c]) # 0 => Flight(flash, next[c], sector_index[c], todo)
<1> DEFINE a == next[c]
           ds == DataSeg(call[c].data, 0, size)
<1>1. /\ sector_index[c] < MaxIndex /\ sector_index[c] \in Nat
      /\ \A b \in Started(flash) : Idx(flash, b) <= sector_index[c]
      /\ call[c].id \in Ids /\ size \in Nat
  BY AppendFacts DEF Appending, IInv, TypeOK, CallInv, Call
<1>2. /\ si \in Nat /\ si <= MaxIndex /\ si >= 1 /\ \A t \in Started(flash) : Idx(flash, t) < si
  BY <1>1, IndexOfStarted, GeometryAssumption
<1>3. Len(ds) = size /\ DataCells(ds)
  BY <1>1, DataSegFacts
<1>4. PICK split \in BOOLEAN : split = FALSE
  OBVIOUS
<1> DEFINE hs == HeaderSeg(call[c].id, size, split)
<1>5. todo = RecordSegs(a, si, hs, ds)
  BY <1>4, Zenon
<1>6. /\ 2 * H + size <= S /\ size \in 0 .. S /\ H \in Nat /\ S \in Nat
  BY <1>1, RoomFacts DEF RB_MAX_APPEND_SIZE
<1>11. hs = HeaderSeg(call[c].id, size, split) /\ split \in BOOLEAN
  OBVIOUS
<1> HIDE DEF hs, ds
<1>7. ASSUME Fresh(flash, a)
      PROVE  MOD_SECTOR(a) = 0 /\ Flight(flash, a, si, todo)
  <2>1. MOD_SECTOR(a) = 0
    BY <1>1, <1>7, FreshRoom
  <2>2. todo = <<SectorSeg(si), hs, ds>>
    BY <1>5, <2>1 DEF RecordSegs
  <2>3. /\ Len(todo) = 3 /\ todo[0 + 1] = SectorSeg(si) /\ todo[0 + 2] = hs /\ todo[0 + 3] = ds
    BY ONLY <2>2
  <2>4. NewSector(flash, si, todo, 0)
    <3>1. todo[0 + 2] = HeaderSeg(call[c].id, size, split)
      BY <1>11, <2>3
    <3>2. DataCells(todo[0 + 3]) /\ Len(todo[0 + 3]) <= size
      BY ONLY <1>1, <1>3, <2>3
    <3> QED
      BY ONLY <1>1, <1>2, <1>6, <1>11, <2>3, <3>1, <3>2, NewSectorIs
  <2> QED
    BY <1>7, <2>1, <2>3, <2>4 DEF Flight, AtSector
<1>8. ASSUME NEW b \in Base, NEW o \in Room, Youngest(flash, b), Open(flash, b, o),
             BlankFrom(flash, b, o), a = b + o
      PROVE  MOD_SECTOR(a) # 0 /\ Flight(flash, a, sector_index[c], todo)
  <2>1. MOD_SECTOR(a) = o /\ o # 0
    BY <1>8, FetchedInside
  <2>2. todo = <<hs, ds>>
    BY <1>5, <2>1 DEF RecordSegs
  <2>3. /\ Len(todo) = 2 /\ todo[1] = hs /\ todo[2] = ds
    BY ONLY <2>2
  <2>4. o + H + size <= S
    BY <1>1, <1>6, <2>1, RoomFacts
  <2>5. Rest(flash, b, o + H + Len(todo[2]), sector_index[c], todo, 2)
    BY <2>3 DEF Rest
  <2>6. AtHeader(flash, b + o, sector_index[c], todo)
    BY ONLY <1>1, <1>3, <1>6, <1>8, <1>11, <2>3, <2>4, <2>5, NewHeader
  <2> QED
    BY <1>8, <2>1, <2>6 DEF Flight
<1>9. PlaceAt(flash, a)
  BY DEF CtxInv, PlaceInv
<1> HIDE DEF a
<1>10. (MOD_SECTOR(a) = 0 /\ Flight(flash, a, si, todo))
         \/ (MOD_SECTOR(a) # 0 /\ Flight(flash, a, sector_index[c], todo))
  BY <1>7, <1>8, <1>9 DEF PlaceAt
<1> QED
  BY <1>10 DEF a

\* The sizes of the two parts of a record that does not fit into its sector.
LEMMA SplitSizes ==
    ASSUME N >= 2, NEW b \in Base, NEW o \in Room,
           NEW size \in Nat, size <= RB_MAX_APPEND_SIZE, size + H >= S - o,
           NEW first, first = Minimum(S - o - H, size),
           NEW boundary, boundary = (b + o + H + first) % Size,
           NEW second, second = Minimum(size - first, S - MOD_SECTOR(boundary) - H)
    PROVE  /\ first \in Nat /\ first \in 0 .. S /\ o + H + first = S
           /\ boundary = After(b) /\ MOD_SECTOR(boundary) = 0
           /\ second \in Nat
           /\ 2 * H + second <= S /\ 2 * H + first <= S
<1>3. /\ H \in Nat /\ H >= 1 /\ S \in Nat /\ o \in Nat /\ o >= H /\ o + H <= S - 1 /\ b \in Nat
      /\ 2 * H + size <= S
  BY BaseFacts, RoomFacts DEF RB_MAX_APPEND_SIZE
<1>4. first = S - o - H /\ first \in Nat /\ first <= size
  BY <1>3 DEF Minimum
<1>5. boundary = After(b)
  <2>1. b + o + H + first = b + S
    BY <1>3, <1>4
  <2> QED
    BY <2>1, AfterFacts
<1>6. MOD_SECTOR(boundary) = 0
  <2>1. After(b) \in Base /\ 0 \in 0 .. S - 1
    BY AfterFacts, RoomFacts
  <2>2. After(b) + 0 = After(b)
    BY <2>1, BaseFacts
  <2> QED
    BY <1>5, <2>1, <2>2, InSector
<1>7. second \in Nat /\ second <= size - first
  BY <1>3, <1>4, <1>6 DEF Minimum
<1> QED
  BY <1>3, <1>4, <1>5, <1>6, <1>7

\* A record of two parts: the first fills its sector, the second begins the
\* sector after it.
LEMMA SplitFlight ==
    ASSUME N >= 2, NEW b \in Base, NEW o \in Room, Youngest(flash, b), Open(flash, b, o),
           BlankFrom(flash, b, o), After(b) \notin Started(flash),
           NEW first \in 0 .. S, o + H + first = S,
           MOD_SECTOR(After(b)) = 0, NEW second \in Nat, 2 * H + second <= S, 2 * H + first <= S,
           NEW si \in Nat, si <= MaxIndex, si >= 1, \A t \in Started(flash) : Idx(flash, t) < si,
           NEW id \in Ids, NEW d, NEW todo,
           todo = RecordSegs(b + o, si, HeaderSeg(id, first, FALSE), DataSeg(d, 0, first))
                    \o RecordSegs(After(b), si,
                           HeaderSeg(id, IF second = 0 THEN first ELSE second, TRUE),
                           DataSeg(d, second, second))
    PROVE  Flight(flash, b + o, si, todo)
<1> DEFINE len == IF second = 0 THEN first ELSE second
           ds == DataSeg(d, 0, first)
           es == DataSeg(d, second, second)
<1>4. first \in Nat
  BY ONLY first \in 0 .. S
<1>8. len \in Nat /\ second <= len /\ 2 * H + len <= S
  BY ONLY <1>4, second \in Nat, 2 * H + second <= S, 2 * H + first <= S
<1>9. Len(ds) = first /\ DataCells(ds) /\ Len(es) = second /\ DataCells(es)
  <2>1. 0 \in Nat
    OBVIOUS
  <2> QED
    BY ONLY <1>4, second \in Nat, <2>1, DataSegFacts
<1>10. PICK yes \in BOOLEAN, no \in BOOLEAN : yes = TRUE /\ no = FALSE
  OBVIOUS
<1> DEFINE hs == HeaderSeg(id, first, no)
           gs == HeaderSeg(id, len, yes)
<1>11. todo = RecordSegs(b + o, si, hs, ds) \o RecordSegs(After(b), si, gs, es)
  BY <1>10, Zenon
<1>12. /\ hs = HeaderSeg(id, first, no) /\ gs = HeaderSeg(id, len, yes)
  OBVIOUS
<1> HIDE DEF hs, gs, ds, es, len
<1>13. MOD_SECTOR(b + o) # 0
  BY FetchedInside
<1>14. todo = <<hs, ds>> \o <<SectorSeg(si), gs, es>>
  BY ONLY MOD_SECTOR(After(b)) = 0, <1>11, <1>13 DEF RecordSegs
<1>15. /\ Len(todo) = 2 + 3 /\ todo[1] = hs /\ todo[2] = ds
       /\ todo[2 + 1] = SectorSeg(si) /\ todo[2 + 2] = gs /\ todo[2 + 3] = es
  BY ONLY <1>14
<1>16. NewSector(flash, si, todo, 2)
  <2>1. todo[2 + 2] = HeaderSeg(id, len, yes)
    BY <1>12, <1>15
  <2>2. DataCells(todo[2 + 3]) /\ Len(todo[2 + 3]) <= len
    BY ONLY <1>8, <1>9, <1>15
  <2>3. 2 \in Nat
    OBVIOUS
  <2> QED
    BY ONLY si \in Nat, si <= MaxIndex, si >= 1, \A t \in Started(flash) : Idx(flash, t) < si, id \in Ids,
            <1>8, <1>10, <1>15, <2>1, <2>2, <2>3, NewSectorIs
<1>17. Rest(flash, b, o + H + Len(todo[2]), si, todo, 2)
  <2>1. o + H + Len(todo[2]) = S
    BY ONLY o + H + first = S, <1>4, <1>9, <1>15
  <2> QED
    BY ONLY <2>1, <1>15, <1>16, After(b) \notin Started(flash) DEF Rest
<1>18. AtHeader(flash, b + o, si, todo)
  <2>1. todo[1] = HeaderSeg(id, first, no) /\ DataCells(todo[2])
        /\ Len(todo[2]) <= first /\ o + H + first <= S
    <3>1. S \in Nat
      BY RoomFacts
    <3> QED
      BY ONLY o + H + first = S, <3>1, <1>4, <1>9, <1>12, <1>15
  <2> QED
    BY ONLY id \in Ids, first \in 0 .. S, <1>10, <1>17, <2>1, b \in Base, o \in Room, Youngest(flash, b),
            Open(flash, b, o), BlankFrom(flash, b, o), NewHeader
<1> QED
  BY ONLY <1>18 DEF Flight

\* rb_sector_append writes at the end of the log, erases or gives up.
LEMMA SectorAppendLog ==
    ASSUME IInv, N >= 2, Log(flash), NEW c \in Ctx, CtxInv(c), SectorAppend(c)
    PROVE  Log(flash)' /\ CtxInv(c)' /\ flash' = flash
<1> DEFINE a == next[c]
           id == call[c].id
           d == call[c].data
           size == call[c].size
           rest == S - MOD_SECTOR(a)
           probe == fetch_and_check_header(NextSectorOf(a))
           start == a + Fetched(NextSectorOf(a)) - NextSectorOf(a)
           first == Minimum(rest - H, size)
           boundary == (start + H + first) % Size
           second == Minimum(size - first, S - MOD_SECTOR(boundary) - H)
           si == sector_index[c] + 1
           whole == RecordSegs(a, si, HeaderSeg(id, size, FALSE), DataSeg(d, 0, size))
           head == RecordSegs(start, si, HeaderSeg(id, first, FALSE), DataSeg(d, 0, first))
           tail == RecordSegs(boundary, si,
                              HeaderSeg(id, IF second = 0 THEN first ELSE second, TRUE),
                              DataSeg(d, second, second))
           Write(todo, from, new) ==
               /\ Goto(c, "append_page", from)
               /\ fr' = [fr EXCEPT ![c].todo = todo]
               /\ sector_index' = [sector_index EXCEPT ![c] = IF new THEN si ELSE @]
<1>1. pc[c] = "sector_append" /\ flash' = flash /\ call' = call
  BY DEF SectorAppend
<1>2. \/ size > RB_MAX_APPEND_SIZE /\ Return(c, RB_BAD_CALLER_DATA, fr[c].oldnext)
         /\ sector_index' = sector_index
      \/ size <= RB_MAX_APPEND_SIZE /\ ~BlanksAtLeast(a, size + H) /\ NoRoom(c, RB_FULL)
         /\ sector_index' = sector_index
      \/ size <= RB_MAX_APPEND_SIZE /\ size + H < rest /\ Write(whole, a, MOD_SECTOR(a) = 0)
      \/ size <= RB_MAX_APPEND_SIZE /\ size + H >= rest /\ probe = RB_BLANK_HDR
         /\ Write(head \o tail, start, MOD_SECTOR(boundary) = 0)
      \/ /\ size <= RB_MAX_APPEND_SIZE /\ size + H >= rest /\ probe # RB_BLANK_HDR
         /\ NoRoom(c, IF probe = RB_OK THEN RB_WRAPPED_SECTOR_USED ELSE probe)
         /\ sector_index' = sector_index
  BY Zenon DEF SectorAppend
<1>3. /\ call[c].fn = "append" /\ sector_index[c] < MaxIndex /\ sector_index[c] \in Nat
      /\ \A t \in Started(flash) : Idx(flash, t) <= sector_index[c]
      /\ pc[c] # "closed" /\ pc[c] \notin Writing
  BY <1>1, AppendFacts DEF Appending
<1>4. id \in Ids /\ size \in Nat
  BY <1>1 DEF IInv, TypeOK, CallInv, Call
<1>5. PlaceAt(flash, a)
  BY <1>1 DEF CtxInv, PlaceInv
<1>6. flash \in [Addr -> Cell] /\ c \in DOMAIN sector_index
  BY DEF IInv, TypeOK
<1>7. si \in Nat /\ si <= MaxIndex /\ si >= 1 /\ \A t \in Started(flash) : Idx(flash, t) < si
  BY <1>3, IndexOfStarted, GeometryAssumption
<1> HIDE DEF a, id, d, size, rest, probe, start, first, boundary, second, si, whole, head, tail
<1>8. CASE size > RB_MAX_APPEND_SIZE /\ Return(c, RB_BAD_CALLER_DATA, fr[c].oldnext)
           /\ sector_index' = sector_index
  <2>1. ~(call'[c].size \in 1 .. RB_MAX_APPEND_SIZE) /\ sector_index'[c] = sector_index[c]
    BY <1>1, <1>4, <1>8, RoomFacts DEF size, RB_MAX_APPEND_SIZE
  <2> QED
    BY <1>1, <1>3, <1>8, <2>1, ReturnInv
<1>9. CASE size <= RB_MAX_APPEND_SIZE /\ ~BlanksAtLeast(a, size + H) /\ NoRoom(c, RB_FULL)
           /\ sector_index' = sector_index
  <2>1. ~Fresh(flash, a)
    BY <1>4, <1>9, FreshRoom
  <2>2. PICK b \in Base, o \in Room : /\ Youngest(flash, b) /\ Open(flash, b, o)
                                        /\ BlankFrom(flash, b, o) /\ a = b + o
    BY <1>5, <2>1 DEF PlaceAt
  <2>3. FullFrom(flash, b)
    BY <1>4, <1>6, <1>9, <2>2, EndRoom
  <2> QED
    BY <1>1, <1>9, <2>3, NoRoomLog
<1>10. CASE size <= RB_MAX_APPEND_SIZE /\ size + H < rest /\ Write(whole, a, MOD_SECTOR(a) = 0)
  <2>1. /\ MOD_SECTOR(a) = 0 => Flight(flash, a, si, whole)
        /\ MOD_SECTOR(a) # 0 => Flight(flash, a, sector_index[c], whole)
    <3>1. /\ size = call[c].size /\ size + H < S - MOD_SECTOR(next[c]) /\ si = sector_index[c] + 1
          /\ a = next[c]
      BY <1>10 DEF size, rest, a, si
    <3>2. whole = RecordSegs(next[c], si, HeaderSeg(call[c].id, size, FALSE),
                             DataSeg(call[c].data, 0, size))
      BY Zenon DEF whole, a, id, d
    <3>3. size <= RB_MAX_APPEND_SIZE
      BY <1>10
    <3> HIDE DEF Write
    <3>4. /\ MOD_SECTOR(next[c]) = 0 => Flight(flash, next[c], si, whole)
          /\ MOD_SECTOR(next[c]) # 0 => Flight(flash, next[c], sector_index[c], whole)
      BY ONLY IInv, N >= 2, Log(flash), c \in Ctx, CtxInv(c), <1>1, <3>1, <3>2, <3>3, WholeFlight
    <3> QED
      BY ONLY <3>1, <3>4
  <2>2. sector_index'[c] = IF MOD_SECTOR(a) = 0 THEN si ELSE sector_index[c]
    BY <1>6, <1>10
  <2>3. sector_index'[c] \in Nat /\ sector_index'[c] >= sector_index[c]
    BY <1>3, <2>2 DEF si
  <2>4. Flight(flash, a, sector_index'[c], whole)
    BY ONLY <2>1, <2>2
  <2>5. Goto(c, "append_page", a) /\ fr' = [fr EXCEPT ![c].todo = whole]
    BY <1>10
  <2> QED
    BY <1>1, <2>3, <2>4, <2>5, WriteLog
<1>11. ASSUME size <= RB_MAX_APPEND_SIZE, size + H >= rest
       PROVE  \E b \in Base, o \in Room :
                 Youngest(flash, b) /\ Open(flash, b, o) /\ BlankFrom(flash, b, o) /\ a = b + o
  <2>1. ~Fresh(flash, a)
    <3>1. Fresh(flash, a) => MOD_SECTOR(a) = 0 /\ size + H < S
      BY <1>4, <1>11, FreshRoom
    <3> QED
      BY <1>4, <1>11, <3>1, RoomFacts DEF rest
  <2> QED
    BY <1>5, <2>1 DEF PlaceAt
<1>12. CASE /\ size <= RB_MAX_APPEND_SIZE /\ size + H >= rest /\ probe # RB_BLANK_HDR
            /\ NoRoom(c, IF probe = RB_OK THEN RB_WRAPPED_SECTOR_USED ELSE probe)
            /\ sector_index' = sector_index
  <2>1. PICK b \in Base, o \in Room : /\ Youngest(flash, b) /\ Open(flash, b, o)
                                        /\ BlankFrom(flash, b, o) /\ a = b + o
    BY <1>11, <1>12
  <2>2. NextSectorOf(a) = After(b) /\ probe = fetch_and_check_header(After(b))
    BY <1>4, <1>6, <1>12, <2>1, EndRoom DEF probe
  <2>3. FullFrom(flash, b) /\ (probe # RB_OK => Torn(flash))
    BY <1>4, <1>6, <1>12, <2>1, <2>2, EndRoom
  <2> DEFINE st == IF probe = RB_OK THEN RB_WRAPPED_SECTOR_USED ELSE probe
  <2>4. NoRoom(c, st) /\ (st \in {RB_FULL, RB_WRAPPED_SECTOR_USED} \/ Torn(flash))
    BY <1>12, <2>3
  <2> HIDE DEF st
  <2> QED
    BY <1>1, <1>12, <2>3, <2>4, NoRoomLog
<1>13. CASE size <= RB_MAX_APPEND_SIZE /\ size + H >= rest /\ probe = RB_BLANK_HDR
            /\ Write(head \o tail, start, MOD_SECTOR(boundary) = 0)
  <2>1. PICK b \in Base, o \in Room : /\ Youngest(flash, b) /\ Open(flash, b, o)
                                        /\ BlankFrom(flash, b, o) /\ a = b + o
    BY <1>11, <1>13
  <2>2. NextSectorOf(a) = After(b) /\ probe = fetch_and_check_header(After(b))
        /\ MOD_SECTOR(a) = o
    BY <1>4, <1>6, <1>13, <2>1, EndRoom DEF probe
  <2>3. After(b) \notin Started(flash) /\ Fetched(After(b)) = After(b)
    BY <1>4, <1>6, <1>13, <2>1, <2>2, EndRoom
  <2>4. start = b + o
    <3>1. b \in Nat /\ o \in Nat /\ After(b) \in Nat
      BY BaseFacts, AfterFacts, RoomFacts
    <3> QED
      BY <2>1, <2>2, <2>3, <3>1 DEF start
  <2>5. /\ size + H >= S - o /\ first = Minimum(S - o - H, size)
        /\ boundary = (b + o + H + first) % Size
        /\ second = Minimum(size - first, S - MOD_SECTOR(boundary) - H)
    <3>1. rest = S - o
      BY ONLY <2>2 DEF rest
    <3>2. size + H >= S - o
      BY <1>13, <3>1
    <3>3. first = Minimum(S - o - H, size)
      BY ONLY <3>1 DEF first
    <3>4. boundary = (b + o + H + first) % Size
      BY ONLY <2>4 DEF boundary
    <3> QED
      BY <3>2, <3>3, <3>4 DEF second
  <2>6. size <= RB_MAX_APPEND_SIZE
    BY <1>13
  <2>7. /\ first \in Nat /\ first \in 0 .. S /\ o + H + first = S
        /\ boundary = After(b) /\ MOD_SECTOR(boundary) = 0
        /\ second \in Nat
        /\ 2 * H + second <= S /\ 2 * H + first <= S
    BY ONLY N >= 2, b \in Base, o \in Room, <1>4, <2>5, <2>6, SplitSizes
  <2> DEFINE todo == head \o tail
  <2>8. todo = RecordSegs(b + o, si, HeaderSeg(id, first, FALSE), DataSeg(d, 0, first))
                    \o RecordSegs(After(b), si,
                           HeaderSeg(id, IF second = 0 THEN first ELSE second, TRUE),
                           DataSeg(d, second, second))
    BY ONLY <2>4, <2>7, Zenon DEF head, tail
  <2>9. sector_index'[c] = si
    BY <1>6, <1>13, <2>7
  <2>10. Goto(c, "append_page", b + o) /\ fr' = [fr EXCEPT ![c].todo = todo]
    BY <1>13, <2>4
  <2> HIDE DEF todo
  <2>11. Flight(flash, b + o, si, todo)
    <3>1. MOD_SECTOR(After(b)) = 0
      BY ONLY <2>7
    <3> QED
      BY ONLY N >= 2, b \in Base, o \in Room, <2>1, <2>3, <2>7, <3>1, <1>4, <1>7, <2>8, SplitFlight
  <2>12. sector_index'[c] \in Nat /\ sector_index'[c] >= sector_index[c]
         /\ Flight(flash, b + o, sector_index'[c], todo)
    <3>1. si >= sector_index[c]
      BY ONLY <1>3 DEF si
    <3> QED
      BY ONLY <1>7, <2>9, <2>11, <3>1
  <2> QED
    BY ONLY IInv, Log(flash), c \in Ctx, CtxInv(c), <1>1, <2>10, <2>12, WriteLog
<1> QED
  BY <1>1, <1>2, <1>8, <1>9, <1>10, <1>12, <1>13

-----------------------------------------------------------------------------
(* rb_append_page *)

\* A step of a write under way, and where it stands after it.
LEMMA WritingInv ==
    ASSUME NEW c \in Ctx, pc'[c] \in Writing, IndexInv(c)', fr'[c].erases \in {0, 1}, WriteInv(c)',
           "crash" \notin Ops => (Torn(flash') => call'[c].fn = "append")
    PROVE  CtxInv(c)'
<1>1. pc'[c] \notin Appending /\ pc'[c] # "idle"
      /\ pc'[c] \notin {"read", "find", "compare", "smudge"}
  BY DEF Appending, Writing
<1>2. CallsInv(c)'
  BY <1>1 DEF CallsInv
<1>3. EraseInv(c)'
  BY <1>1 DEF EraseInv, Appending
<1>4. PlaceInv(c)'
  BY <1>1 DEF PlaceInv, Appending
<1>5. WholeInv(c)'
  BY <1>1 DEF WholeInv, AppendOk, Returned
<1> QED
  BY <1>2, <1>3, <1>4, <1>5 DEF CtxInv

\* What holds while an append or a smudge writes.
LEMMA WritingFacts ==
    ASSUME IInv, NEW c \in Ctx, CtxInv(c), pc[c] \in Writing
    PROVE  /\ \A b \in Started(flash) : Idx(flash, b) <= sector_index[c]
           /\ fr[c] \in Frame /\ fr[c].erases \in {0, 1} /\ sector_index[c] \in Nat
           /\ pc[c] # "closed" /\ next[c] \in Addr
           /\ call[c].fn = "append" => Flight(flash, next[c], sector_index[c], fr[c].todo)
           /\ call[c].fn # "append" => SmudgeFlight(flash, next[c], fr[c].todo)
           /\ "crash" \notin Ops => (Torn(flash) => call[c].fn = "append")
  BY DEF IInv, TypeOK, CtxInv, IndexInv, EraseInv, WriteInv, WholeInv, Writing

\* The page buffer holds what is to be written and blanks.
LEMMA FillPageLog ==
    ASSUME IInv, Log(flash), NEW c \in Ctx, CtxInv(c), FillPage(c)
    PROVE  Log(flash)' /\ CtxInv(c)' /\ flash' = flash
<1> DEFINE b == BufOf[c]
           off == MOD_PAGE(next[c])
           seg == Head(fr[c].todo)
           under(i) == IF pc[c] = "append_page" /\ i < P THEN Blank ELSE page[b][i]
           cell(i) == IF i \in off .. off + Written(c) - 1 THEN seg[i - off + 1] ELSE under(i)
<1>1. /\ pc[c] \in {"append_page", "partial"} /\ flash' = flash /\ fr' = fr /\ call' = call
      /\ sector_index' = sector_index /\ Goto(c, "prog", next[c])
      /\ page' = [page EXCEPT ![b] = [i \in 0 .. B - 1 |-> cell(i)]]
  BY Zenon DEF FillPage
<1>2. pc'[c] = "prog" /\ next'[c] = next[c] /\ pc[c] \in Writing /\ pc'[c] \in Writing
  BY <1>1, GotoFacts DEF Writing
<1>3. b \in Buffer /\ page \in [Buffer -> [0 .. B - 1 -> Cell]]
  BY ParameterAssumption DEF IInv, TypeOK
<1> HIDE DEF cell
<1>4. \A i \in 0 .. P - 1 : page'[b][i] = cell(i)
  <2>1. page'[b] = [i \in 0 .. B - 1 |-> cell(i)]
    BY <1>1, <1>3
  <2>2. \A i \in 0 .. P - 1 : i \in 0 .. B - 1
    BY GeometryAssumption
  <2> QED
    BY <2>1, <2>2
<1>5. \A i \in 0 .. P - 1 : under(i) = Blank
  <2>1. CASE pc[c] = "append_page"
    BY <2>1, GeometryAssumption
  <2>2. CASE pc[c] = "partial"
    BY <2>2 DEF CtxInv, WriteInv, PageInv
  <2> QED
    BY <1>1, <2>1, <2>2
<1>6. PageInv(c)'
  <2>1. Written(c)' = Written(c)
    BY <1>1, <1>2 DEF Written
  <2>2. \A i \in 0 .. P - 1 : page'[b][i] = IF i \in off .. off + Written(c) - 1
                                            THEN seg[i - off + 1] ELSE Blank
    BY <1>4, <1>5 DEF cell
  <2> QED
    BY <1>1, <1>2, <2>1, <2>2 DEF PageInv
<1>7. WriteInv(c)'
  BY <1>1, <1>2, <1>6, WritingFacts DEF WriteInv
<1>8. IndexInv(c)'
  BY <1>1, <1>2, WritingFacts DEF IndexInv
<1> QED
  BY <1>1, <1>2, <1>7, <1>8, WritingFacts, WritingInv

\* What is left of a piece, and of the pieces.
LEMMA Leftover ==
    ASSUME NEW seg \in Seq(Cell), NEW w \in 0 .. Len(seg), NEW left,
           left = SubSeq(seg, w + 1, Len(seg))
    PROVE  /\ left \in Seq(Cell) /\ Len(left) = Len(seg) - w
           /\ \A i \in 1 .. Len(seg) - w : left[i] = seg[w + i]
           /\ left = <<>> <=> w = Len(seg)
<1>1. Len(seg) \in Nat /\ w \in Nat
  OBVIOUS
<1>2. Len(left) = Len(seg) - w /\ \A i \in 1 .. Len(seg) - w : left[i] = seg[w + i]
  BY <1>1
<1>3. left \in Seq(Cell)
  BY <1>1
<1>4. left = <<>> <=> Len(left) = 0
  BY ONLY <1>3
<1> QED
  BY <1>1, <1>2, <1>3, <1>4

\* The empty sequence.
LEMMA EmptyIs ==
    ASSUME NEW T, NEW v \in Seq(T)
    PROVE  v = <<>> <=> Len(v) = 0
  OBVIOUS

\* Two sequences joined.
LEMMA Joined ==
    ASSUME NEW T, NEW u \in Seq(T), NEW v \in Seq(T)
    PROVE  /\ u \o v \in Seq(T) /\ Len(u \o v) = Len(u) + Len(v)
           /\ \A k \in 1 .. Len(u) : (u \o v)[k] = u[k]
           /\ \A k \in 1 .. Len(v) : (u \o v)[Len(u) + k] = v[k]
  OBVIOUS

\* The pieces without the first, and with another one for it.
LEMMA Pieces ==
    ASSUME NEW T, NEW t \in Seq(T), t # <<>>, NEW x \in T
    PROVE  /\ Len(t) >= 1 /\ Head(t) = t[1]
           /\ Len(Tail(t)) = Len(t) - 1 /\ \A k \in 1 .. Len(t) - 1 : Tail(t)[k] = t[k + 1]
           /\ Tail(t) = <<>> <=> Len(t) = 1
           /\ Len(<<x>> \o Tail(t)) = Len(t) /\ (<<x>> \o Tail(t))[1] = x
           /\ \A k \in 2 .. Len(t) : (<<x>> \o Tail(t))[k] = t[k]
           /\ <<x>> \o Tail(t) # <<>>
<1>1. Len(t) >= 1 /\ Len(t) \in Nat /\ Head(t) = t[1]
  OBVIOUS
<1>2. Tail(t) \in Seq(T) /\ Len(Tail(t)) = Len(t) - 1
      /\ \A k \in 1 .. Len(t) - 1 : Tail(t)[k] = t[k + 1]
  OBVIOUS
<1> DEFINE v == Tail(t)
           u == <<x>>
<1>6. v \in Seq(T) /\ Len(v) = Len(t) - 1
      /\ \A k \in 1 .. Len(t) - 1 : v[k] = t[k + 1]
  BY <1>2
<1>4. u \in Seq(T) /\ Len(u) = 1 /\ u[1] = x
  OBVIOUS
<1> HIDE DEF u, v
<1>3. v = <<>> <=> Len(v) = 0
  BY ONLY <1>6, EmptyIs
<1>10. /\ u \o v \in Seq(T) /\ Len(u \o v) = Len(u) + Len(v)
       /\ \A k \in 1 .. Len(u) : (u \o v)[k] = u[k]
       /\ \A k \in 1 .. Len(v) : (u \o v)[Len(u) + k] = v[k]
  <2>1. u \in Seq(T) /\ v \in Seq(T)
    BY <1>4, <1>6
  <2>2. u \o v \in Seq(T)
    BY ONLY <2>1, Joined
  <2>3. Len(u \o v) = Len(u) + Len(v)
    BY ONLY <2>1, Joined
  <2>4. \A k \in 1 .. Len(u) : (u \o v)[k] = u[k]
    BY ONLY <2>1
  <2>5. \A k \in 1 .. Len(v) : (u \o v)[Len(u) + k] = v[k]
    BY ONLY <2>1
  <2> QED
    BY ONLY <2>2, <2>3, <2>4, <2>5, Zenon
<1>5. Len(u \o v) = Len(t) /\ (u \o v)[1] = x
  BY ONLY <1>1, <1>4, <1>6, <1>10
<1>7. ASSUME NEW k \in 2 .. Len(t) PROVE (u \o v)[k] = t[k]
  <2>1. k - 1 \in 1 .. Len(v) /\ k - 1 \in 1 .. Len(t) - 1 /\ k - 1 + 1 = k /\ Len(u) + (k - 1) = k
    BY ONLY <1>1, <1>4, <1>6, <1>7
  <2>2. (u \o v)[k] = v[k - 1]
    BY ONLY <1>10, <2>1
  <2> QED
    BY ONLY <1>1, <1>6, <2>1, <2>2
<1>8. u \o v # <<>>
  <2>1. Len(u \o v) # 0
    BY ONLY <1>1, <1>5
  <2> QED
    BY ONLY <1>10, <2>1, EmptyIs
<1>9. v = <<>> <=> Len(t) = 1
  BY ONLY <1>1, <1>3, <1>6
<1> QED
  BY <1>1, <1>2, <1>5, <1>7, <1>8, <1>9 DEF u, v

CutTo(t, todo, seg, w) ==
    /\ Len(t) = Len(todo) /\ t[1] \in Seq(Cell) /\ Len(t[1]) = Len(seg) - w
    /\ \A i \in 1 .. Len(seg) - w : t[1][i] = seg[w + i]
    /\ \A k \in 2 .. Len(todo) : t[k] = todo[k]

\* Where a page leaves the write.
LEMMA ProgNext ==
    ASSUME IInv, NEW c \in Ctx, CtxInv(c), ProgPage(c), NEW w, w = Written(c),
           NEW seg, seg = Head(fr[c].todo), NEW todo, todo = fr[c].todo
    PROVE  /\ pc[c] = "prog" /\ call' = call /\ sector_index' = sector_index
           /\ seg = todo[1] /\ Len(todo) \in Nat /\ Len(todo) >= 1
           /\ w < Len(seg) =>
                 /\ pc'[c] = "partial" /\ next'[c] = nextincr(next[c], w)
                 /\ CutTo(fr'[c].todo, todo, seg, w)
           /\ w = Len(seg) /\ Len(todo) # 1 =>
                 /\ pc'[c] = "append_page" /\ next'[c] = nextincr(next[c], w)
                 /\ Len(fr'[c].todo) = Len(todo) - 1
                 /\ \A k \in 1 .. Len(todo) - 1 : fr'[c].todo[k] = todo[k + 1]
           /\ w = Len(seg) /\ Len(todo) = 1 => Return(c, RB_OK, fr[c].oldnext)
           /\ fr'[c].erases \in {0, 1}
           /\ \A i \in 0 .. P - 1 : page'[BufOf[c]][i] = Blank
<1> DEFINE left == SubSeq(seg, w + 1, Len(seg))
           t == IF left = <<>> THEN Tail(todo) ELSE <<left>> \o Tail(todo)
<1>1. /\ pc[c] = "prog" /\ call' = call /\ sector_index' = sector_index
      /\ page' = [page EXCEPT ![BufOf[c]] =
                      [i \in 0 .. B - 1 |-> IF i < P THEN Blank ELSE page[BufOf[c]][i]]]
      /\ IF t = <<>>
         THEN Return(c, RB_OK, fr[c].oldnext)
         ELSE /\ Goto(c, IF left = <<>> THEN "append_page" ELSE "partial",
                      nextincr(next[c], w))
              /\ fr' = [fr EXCEPT ![c].todo = t]
  BY Zenon DEF ProgPage
<1>2. seg \in Seq(Cell) /\ w \in 0 .. Len(seg)
  BY <1>1, WrittenFacts
<1>3. todo \in Seq(Seq(Cell)) /\ todo # <<>> /\ fr[c] \in Frame /\ fr[c].erases \in {0, 1}
  <2>1. fr[c] \in Frame /\ fr[c].todo # <<>>
    BY <1>1 DEF IInv, TypeOK, CallInv
  <2>2. fr[c].todo \in Seq(Seq(Cell))
    BY <2>1 DEF Frame
  <2> QED
    BY <1>1, <2>1, <2>2, WritingFacts DEF Writing
<1>18. left = SubSeq(seg, w + 1, Len(seg))
  OBVIOUS
<1> HIDE DEF left
<1>4. /\ left \in Seq(Cell) /\ Len(left) = Len(seg) - w
      /\ \A i \in 1 .. Len(seg) - w : left[i] = seg[w + i]
      /\ left = <<>> <=> w = Len(seg)
  <2>1. left \in Seq(Cell)
    BY ONLY <1>2, <1>18, Leftover
  <2>2. Len(left) = Len(seg) - w
    BY ONLY <1>2, <1>18, Leftover
  <2>3. \A i \in 1 .. Len(seg) - w : left[i] = seg[w + i]
    BY ONLY <1>2, <1>18, Leftover
  <2>4. left = <<>> <=> w = Len(seg)
    BY ONLY <1>2, <1>18, Leftover, SMTT(30)
  <2> QED
    BY ONLY <2>1, <2>2, <2>3, <2>4
<1>5. /\ Len(todo) >= 1 /\ Head(todo) = todo[1]
      /\ Len(Tail(todo)) = Len(todo) - 1
      /\ \A k \in 1 .. Len(todo) - 1 : Tail(todo)[k] = todo[k + 1]
      /\ Tail(todo) = <<>> <=> Len(todo) = 1
      /\ Len(<<left>> \o Tail(todo)) = Len(todo) /\ (<<left>> \o Tail(todo))[1] = left
      /\ \A k \in 2 .. Len(todo) : (<<left>> \o Tail(todo))[k] = todo[k]
      /\ <<left>> \o Tail(todo) # <<>>
  BY ONLY <1>3, <1>4, Pieces
<1>6. \A i \in 0 .. P - 1 : page'[BufOf[c]][i] = Blank
  <2>1. BufOf[c] \in Buffer /\ page \in [Buffer -> [0 .. B - 1 -> Cell]]
    BY ParameterAssumption DEF IInv, TypeOK
  <2>2. \A i \in 0 .. P - 1 : i \in 0 .. B - 1 /\ i < P
    BY GeometryAssumption
  <2>3. page'[BufOf[c]] = [i \in 0 .. B - 1 |-> IF i < P THEN Blank ELSE page[BufOf[c]][i]]
    BY <1>1, <2>1
  <2> QED
    BY <2>2, <2>3
<1>7. ASSUME t # <<>> PROVE fr'[c].todo = t /\ fr'[c].erases = fr[c].erases
  <2>1. fr' = [fr EXCEPT ![c].todo = t]
    BY <1>1, <1>7
  <2> HIDE DEF t
  <2>2. fr'[c] = [fr[c] EXCEPT !.todo = t]
    BY <2>1 DEF IInv, TypeOK
  <2>3. [fr[c] EXCEPT !.todo = t].todo = t /\ [fr[c] EXCEPT !.todo = t].erases = fr[c].erases
    BY ONLY <1>3, FrameKept
  <2> QED
    BY <2>2, <2>3
<1>8. ASSUME w < Len(seg)
      PROVE  /\ pc'[c] = "partial" /\ next'[c] = nextincr(next[c], w)
             /\ fr'[c].todo = <<left>> \o Tail(todo) /\ fr'[c].erases = fr[c].erases
  <2>1. left # <<>>
    BY <1>2, <1>4, <1>8
  <2>2. t = <<left>> \o Tail(todo) /\ t # <<>>
    BY <1>5, <2>1
  <2>3. Goto(c, "partial", nextincr(next[c], w))
    BY <1>1, <2>1, <2>2
  <2> QED
    BY <1>7, <2>2, <2>3, GotoFacts
<1>9. ASSUME w = Len(seg), Len(todo) # 1
      PROVE  /\ pc'[c] = "append_page" /\ next'[c] = nextincr(next[c], w)
             /\ fr'[c].todo = Tail(todo) /\ fr'[c].erases = fr[c].erases
  <2>1. left = <<>>
    BY <1>4, <1>9
  <2>2. t = Tail(todo) /\ t # <<>>
    BY <1>5, <1>9, <2>1
  <2>3. Goto(c, "append_page", nextincr(next[c], w))
    BY <1>1, <2>1, <2>2
  <2> QED
    BY <1>7, <2>2, <2>3, GotoFacts
<1>10. ASSUME w = Len(seg), Len(todo) = 1
       PROVE  Return(c, RB_OK, fr[c].oldnext) /\ fr'[c].erases = 0
  <2>1. t = <<>>
    BY <1>4, <1>5, <1>10
  <2>2. Return(c, RB_OK, fr[c].oldnext)
    BY <1>1, <2>1
  <2> QED
    BY <2>2, ReturnFacts, NoErases
<1>11. w < Len(seg) \/ w = Len(seg)
  BY <1>2
<1>12. fr'[c].erases \in {0, 1}
  BY <1>3, <1>8, <1>9, <1>10, <1>11
<1>13. Len(todo) \in Nat
  BY <1>3
<1>14. ASSUME w < Len(seg)
       PROVE  /\ pc'[c] = "partial" /\ next'[c] = nextincr(next[c], w)
              /\ CutTo(fr'[c].todo, todo, seg, w)
  <2>1. fr'[c].todo[1] = left
    BY ONLY <1>5, <1>8, <1>14
  <2>2. CutTo(fr'[c].todo, todo, seg, w)
    BY ONLY <1>4, <1>5, <1>8, <1>14, <2>1 DEF CutTo
  <2> QED
    BY ONLY <1>8, <1>14, <2>2
<1>15. ASSUME w = Len(seg), Len(todo) # 1
       PROVE  /\ pc'[c] = "append_page" /\ next'[c] = nextincr(next[c], w)
              /\ Len(fr'[c].todo) = Len(todo) - 1
              /\ \A k \in 1 .. Len(todo) - 1 : fr'[c].todo[k] = todo[k + 1]
  BY ONLY <1>5, <1>9, <1>15
<1>16. pc[c] = "prog" /\ call' = call /\ sector_index' = sector_index
  BY <1>1
<1>17. seg = todo[1]
  BY <1>5
<1> HIDE DEF t
<1> QED
  BY ONLY <1>5, <1>6, <1>10, <1>12, <1>13, <1>14, <1>15, <1>16, <1>17

\* Where rb->next stands after a page.
LEMMA NextIs ==
    ASSUME NEW b \in Base, NEW i \in Nat, NEW w \in Nat, i + w <= S
    PROVE  /\ i + w = S => nextincr(b + i, w) = After(b)
           /\ i + w < S => nextincr(b + i, w) = b + (i + w)
<1>1. b \in Nat /\ b + S <= Size /\ S \in Nat /\ Size \in Nat
  BY BaseFacts, SizeFacts, RoomFacts
<1>2. (b + i) + w = b + (i + w)
  BY <1>1
<1>3. ASSUME i + w = S PROVE nextincr(b + i, w) = After(b)
  BY <1>2, <1>3 DEF nextincr, After
<1>4. ASSUME i + w < S PROVE nextincr(b + i, w) = b + (i + w)
  <2>1. ~(b + (i + w) >= Size)
    BY <1>1, <1>4
  <2> QED
    BY <1>2, <2>1 DEF nextincr
<1> QED
  BY <1>3, <1>4

\* The same sectors are used, with the same indices.
SameSectors(r, q) == Started(q) = Started(r) /\ \A b \in Base : Idx(q, b) = Idx(r, b)

\* What remains to be written after the record under way stays to be written.
Follows(todo, j, t, k) ==
    /\ Len(todo) = j => Len(t) = k
    /\ Len(todo) = j + 3 => /\ Len(t) = k + 3 /\ t[k + 1] = todo[j + 1]
                            /\ t[k + 2] = todo[j + 2] /\ t[k + 3] = todo[j + 3]

\* It is the same rest when the sectors are the same.
LEMMA RestKept ==
    ASSUME NEW r, NEW q, SameSectors(r, q), NEW b, NEW e, NEW si, NEW todo, NEW j \in Nat,
           Rest(r, b, e, si, todo, j), NEW t, NEW k \in Nat,
           Follows(todo, j, t, k)
    PROVE  Rest(q, b, e, si, t, k)
<1>1. CASE Len(todo) = j
  BY <1>1 DEF Rest, Follows
<1>2. CASE Len(todo) = j + 3 /\ e = S /\ After(b) \notin Started(r) /\ NewSector(r, si, todo, j)
  <2>1. /\ Len(t) = k + 3 /\ t[k + 1] = todo[j + 1]
        /\ t[k + 2] = todo[j + 2] /\ t[k + 3] = todo[j + 3]
    BY <1>2 DEF Follows
  <2>2. \A x : (\A s \in Started(r) : Idx(r, s) < x) => \A s \in Started(q) : Idx(q, s) < x
    BY DEF SameSectors, Started
  <2>3. NewSector(q, si, t, k)
    BY ONLY <1>2, <2>1, <2>2 DEF NewSector
  <2>4. After(b) \notin Started(q)
    BY <1>2 DEF SameSectors
  <2> QED
    BY ONLY <1>2, <2>1, <2>3, <2>4 DEF Rest
<1> QED
  BY <1>1, <1>2 DEF Rest

\* The control block still knows the largest index.
LEMMA IndexKept ==
    ASSUME NEW c \in Ctx, SameSectors(flash, flash'), sector_index'[c] = sector_index[c],
           \A b \in Started(flash) : Idx(flash, b) <= sector_index[c]
    PROVE  IndexInv(c)'
<1>1. \A b \in Started(flash') : Idx(flash', b) <= sector_index'[c]
  BY DEF SameSectors, Started
<1> QED
  BY <1>1 DEF IndexInv

\* Behind the last header everything is blank: no header is half written.
LEMMA NotTorn ==
    ASSUME NEW r, Log(r), NEW b, Youngest(r, b), NEW h \in Room, IsHdr(r, b + h),
           EndOf(r, b, h) \in Nat, EndOf(r, b, h) >= h + H,
           NEW x \in Nat, x <= EndOf(r, b, h), BlankFrom(r, b, x)
    PROVE  ~Torn(r)
<1> SUFFICES ASSUME NEW d \in Started(r), NEW o \in Room, Open(r, d, o), r[d + o] # Blank
             PROVE FALSE
  BY DEF Torn
<1>1. Laid(r, d) /\ d \in Base
  BY DEF Log, Started
<1>2. Youngest(r, d) /\ \A u \in H .. S : Bound(r, d, u) => u <= o
  BY <1>1 DEF Laid
<1>3. d = b
  BY <1>2, YoungestIsOne
<1>4. EndOf(r, d, h) <= S
  BY <1>1, <1>3 DEF Laid
<1>5. EndOf(r, d, h) \in H .. S /\ Bound(r, d, EndOf(r, d, h))
  <2>1. Bound(r, d, EndOf(r, d, h))
    BY <1>3 DEF Bound
  <2> QED
    BY <1>3, <1>4, <2>1, RoomFacts
<1>6. o \in x .. S - 1
  BY <1>2, <1>3, <1>5, RoomFacts
<1> QED
  BY <1>3, <1>6 DEF BlankFrom

\* The append goes on writing.
LEMMA WritesOn ==
    ASSUME NEW c \in Ctx, pc'[c] \in {"append_page", "partial"}, call' = call, call[c].fn = "append",
           \A i \in 0 .. P - 1 : page'[BufOf[c]][i] = Blank,
           Flight(flash', next'[c], sector_index'[c], fr'[c].todo), IndexInv(c)',
           fr'[c].erases \in {0, 1}
    PROVE  CtxInv(c)'
<1>1. pc'[c] \in Writing /\ pc'[c] # "prog"
  BY DEF Writing
<1>2. PageInv(c)'
  BY <1>1 DEF PageInv
<1>3. WriteInv(c)'
  BY <1>1, <1>2 DEF WriteInv
<1> QED
  BY <1>1, <1>3, WritingInv

\* A step that writes data.
LEMMA DataProg ==
    ASSUME IInv, Log(flash), NEW c \in Ctx, CtxInv(c), ProgPage(c), call[c].fn = "append",
           AtData(flash, next[c], sector_index[c], fr[c].todo)
    PROVE  Log(flash)' /\ CtxInv(c)' /\ SameSectors(flash, flash')
<1> DEFINE todo == fr[c].todo
           seg == Head(todo)
           w == Written(c)
           si == sector_index[c]
           t == fr'[c].todo
<1>1. PICK b \in Base, h \in Room, o \in Addr :
        /\ o < S /\ next[c] = b + o /\ Youngest(flash, b) /\ IsHdr(flash, b + h) /\ h + H <= o
        /\ BlankFrom(flash, b, o) /\ DataCells(todo[1]) /\ o + Len(todo[1]) <= EndOf(flash, b, h)
        /\ Rest(flash, b, o + Len(todo[1]), si, todo, 1)
  BY DEF AtData
<1>2. /\ pc[c] = "prog" /\ call' = call /\ sector_index' = sector_index
      /\ seg = todo[1] /\ Len(todo) \in Nat /\ Len(todo) >= 1
      /\ w < Len(seg) =>
            /\ pc'[c] = "partial" /\ next'[c] = nextincr(next[c], w)
            /\ CutTo(t, todo, seg, w)
      /\ w = Len(seg) /\ Len(todo) # 1 =>
            /\ pc'[c] = "append_page" /\ next'[c] = nextincr(next[c], w)
            /\ Len(t) = Len(todo) - 1
            /\ \A k \in 1 .. Len(todo) - 1 : t[k] = todo[k + 1]
      /\ w = Len(seg) /\ Len(todo) = 1 => Return(c, RB_OK, fr[c].oldnext)
      /\ fr'[c].erases \in {0, 1}
      /\ \A i \in 0 .. P - 1 : page'[BufOf[c]][i] = Blank
  BY ONLY IInv, c \in Ctx, CtxInv(c), ProgPage(c), ProgNext, ZenonT(30)
<1>3. o \in 0 .. S - 1 /\ o \in Nat /\ PageInv(c)
  BY <1>1, RoomFacts, SizeFacts DEF Addr, CtxInv, WriteInv
<1>4. Put(flash, flash', b, o, w, seg) /\ seg \in Seq(Cell) /\ w \in 0 .. Len(seg) /\ o + w <= S
  BY <1>1, <1>3, ProgEffect, BlankPut
<1> HIDE DEF todo, seg, w, si, t
<1>5. w \in Nat /\ Len(seg) \in Nat /\ w <= Len(seg) /\ S \in Nat /\ H \in Nat /\ h \in Nat
  BY <1>4, RoomFacts
<1>6. /\ EndOf(flash, b, h) \in Nat /\ EndOf(flash, b, h) >= h + H
  BY <1>1, HeaderLength DEF IInv, TypeOK
<1>7. DataPut(flash, flash', b, h, o, w, seg)
  <2>1. o + w <= EndOf(flash, b, h)
    BY ONLY <1>1, <1>2, <1>3, <1>5, <1>6
  <2>2. \A i \in 1 .. w : seg[i].k \in {"data", "wild"}
    BY ONLY <1>1, <1>2, <1>5 DEF DataCells
  <2> QED
    BY ONLY <1>1, <1>3, <1>4, <1>5, <1>6, <2>1, <2>2 DEF DataPut
<1>8. /\ Log(flash') /\ IsHdr(flash', b + h) /\ EndOf(flash', b, h) = EndOf(flash, b, h)
      /\ BlankFrom(flash', b, o + w) /\ flash'[b] = flash[b]
  BY <1>7, DataWritten
<1>9. SameSectors(flash, flash') /\ Youngest(flash', b)
  BY <1>1, <1>4, <1>8, HeadersKept DEF Put, SameSectors
<1>10. IndexInv(c)'
  BY <1>2, <1>9, IndexKept, WritingFacts DEF Writing
<1>14. EndOf(flash, b, h) <= S /\ Laid(flash', b)
  <2>1. Laid(flash, b) /\ Laid(flash', b)
    BY <1>1, <1>8, <1>9 DEF Log, Youngest
  <2> QED
    BY <1>1, <2>1 DEF Laid
<1>15. o < S /\ h + H <= o /\ o + Len(seg) <= EndOf(flash, b, h) /\ seg = todo[1]
  BY ONLY <1>1, <1>2
<1>11. CASE w < Len(seg)
  <2>1. o + w < S /\ o + w \in Nat /\ o + w \in Addr
    <3>1. o + w < S /\ o + w \in Nat
      BY ONLY <1>3, <1>5, <1>6, <1>11, <1>14, <1>15
    <3> QED
      BY ONLY <3>1, <1>5, SizeFacts DEF Addr
  <2>2. next'[c] = b + (o + w) /\ pc'[c] = "partial"
    BY ONLY <1>1, <1>2, <1>3, <1>5, <1>11, <2>1, NextIs
  <2>3. /\ Len(t) = Len(todo) /\ Len(t[1]) = Len(seg) - w
        /\ \A i \in 1 .. Len(seg) - w : t[1][i] = seg[w + i]
        /\ \A k \in 2 .. Len(todo) : t[k] = todo[k]
    BY ONLY <1>2, <1>11 DEF CutTo
  <2>4. DataCells(t[1])
    <3>1. \A i \in 1 .. Len(seg) : seg[i].k \in {"data", "wild"}
      BY ONLY <1>1, <1>15 DEF DataCells
    <3>2. \A i \in 1 .. Len(seg) - w : w + i \in 1 .. Len(seg)
      BY ONLY <1>5, SMTT(30)
    <3>3. \A i \in 1 .. Len(t[1]) : t[1][i].k \in {"data", "wild"}
      BY ONLY <2>3, <3>1, <3>2, SMTT(30)
    <3> QED
      BY ONLY <3>3 DEF DataCells
  <2>5. (o + w) + Len(t[1]) = o + Len(todo[1])
    <3>1. Len(t[1]) = Len(seg) - w /\ Len(todo[1]) = Len(seg)
      BY ONLY <1>15, <2>3, Zenon
    <3>2. (o + w) + (Len(seg) - w) = o + Len(seg)
      BY ONLY <1>3, <1>5, SMTT(30)
    <3> QED
      BY ONLY <3>1, <3>2, Zenon
  <2>6. Rest(flash', b, (o + w) + Len(t[1]), si, t, 1)
    <3>1. Follows(todo, 1, t, 1)
      BY ONLY <2>3 DEF Follows
    <3>2. Rest(flash, b, (o + w) + Len(t[1]), si, todo, 1) /\ 1 \in Nat
      BY ONLY <1>1, <2>5
    <3> QED
      BY ONLY <1>9, <3>1, <3>2, RestKept
  <2>7. h + H <= o + w /\ (o + w) + Len(t[1]) <= EndOf(flash', b, h)
    <3>1. h + H <= o + w
      BY ONLY <1>3, <1>5, <1>15
    <3>2. o + Len(todo[1]) <= EndOf(flash', b, h)
      BY ONLY <1>8, <1>15
    <3> QED
      BY ONLY <2>5, <3>1, <3>2
  <2>8. AtData(flash', next'[c], si, t)
    BY ONLY b \in Base, h \in Room, <1>8, <1>9, <2>1, <2>2, <2>4, <2>6, <2>7 DEF AtData
  <2>9. Flight(flash', next'[c], sector_index'[c], fr'[c].todo)
    BY <1>2, <2>8 DEF Flight, si, t
  <2> QED
    BY ONLY c \in Ctx, <1>2, <1>8, <1>9, <1>10, <2>2, <2>9, call[c].fn = "append", WritesOn
<1>12. CASE w = Len(seg) /\ Len(todo) # 1
  <2>1. /\ Len(todo) = 1 + 3 /\ o + Len(todo[1]) = S
        /\ After(b) \notin Started(flash) /\ NewSector(flash, si, todo, 1)
    BY <1>1, <1>12 DEF Rest
  <2>2. next'[c] = After(b) /\ pc'[c] = "append_page"
    BY ONLY <1>1, <1>2, <1>3, <1>5, <1>12, <2>1, NextIs
  <2>3. Len(t) = 3 /\ \A k \in 1 .. 3 : t[k] = todo[k + 1]
    BY ONLY <1>2, <1>12, <2>1
  <2>4. NewSector(flash', si, t, 0)
    <3>1. \A x : (\A s \in Started(flash) : Idx(flash, s) < x)
                  => \A s \in Started(flash') : Idx(flash', s) < x
      BY <1>9 DEF SameSectors, Started
    <3>2. t[0 + 1] = todo[1 + 1] /\ t[0 + 2] = todo[1 + 2] /\ t[0 + 3] = todo[1 + 3]
      BY ONLY <2>3
    <3> QED
      BY ONLY <2>1, <3>1, <3>2 DEF NewSector
  <2>5. Closed(flash', b)
    <3>1. EndOf(flash', b, h) = S
      BY ONLY <1>1, <1>5, <1>6, <1>8, <1>14, <2>1
    <3>2. Bound(flash', b, S)
      BY ONLY <1>8, <3>1, h \in Room DEF Bound
    <3>3. S \in H .. S /\ S > S - H - 1
      BY RoomFacts
    <3> QED
      BY ONLY <1>14, <3>2, <3>3, EndCloses
  <2>6. Fresh(flash', After(b))
    <3>1. After(b) \in Base /\ b \in Started(flash') /\ After(b) \notin Started(flash')
      BY <1>9, <2>1, AfterFacts DEF Youngest, SameSectors
    <3> QED
      BY ONLY <1>9, <2>5, <3>1 DEF Fresh
  <2>7. AtSector(flash', next'[c], si, t)
    BY ONLY <2>2, <2>3, <2>4, <2>6 DEF AtSector
  <2>8. Flight(flash', next'[c], sector_index'[c], fr'[c].todo)
    BY <1>2, <2>7 DEF Flight, si, t
  <2> QED
    BY ONLY c \in Ctx, <1>2, <1>8, <1>9, <1>10, <2>2, <2>8, call[c].fn = "append", WritesOn
<1>13. CASE w = Len(seg) /\ Len(todo) = 1
  <2>1. pc'[c] = "idle" /\ ret'[c] = RB_OK
    BY <1>2, <1>13, ReturnFacts
  <2>2. ~Torn(flash')
    <3>1. o + w \in Nat /\ o + w <= EndOf(flash', b, h) /\ EndOf(flash', b, h) \in Nat
          /\ EndOf(flash', b, h) >= h + H
      BY <1>1, <1>2, <1>3, <1>5, <1>6, <1>8, <1>13
    <3> QED
      BY ONLY <1>8, <1>9, <3>1, h \in Room, NotTorn
  <2>3. WholeInv(c)'
    BY <2>1, <2>2 DEF WholeInv, AppendOk
  <2> QED
    BY <1>2, <1>8, <1>9, <1>10, <2>1, <2>3, RestInv
<1> QED
  BY <1>5, <1>11, <1>12, <1>13

\* A sequence is known by its elements.
LEMMA SeqIs ==
    ASSUME NEW T, NEW s \in Seq(T), NEW n \in Nat, Len(s) = n, NEW f, f = [i \in 1 .. n |-> f[i]],
           \A i \in 1 .. n : s[i] = f[i]
    PROVE  s = f
  OBVIOUS

\* Something is written of a piece that is not empty.
LEMMA WrittenSome ==
    ASSUME IInv, NEW c \in Ctx, pc[c] = "prog", Len(Head(fr[c].todo)) >= 1
    PROVE  Written(c) >= 1
<1>1. MOD_PAGE(next[c]) \in 0 .. P - 1 /\ Head(fr[c].todo) \in Seq(Cell)
  BY WrittenFacts
<1>2. Len(Head(fr[c].todo)) \in Nat /\ P \in Nat
  BY <1>1, GeometryAssumption
<1> QED
  BY <1>1, <1>2 DEF Written, Minimum

\* A step that writes a header of a record, or a part of it.
LEMMA HeaderProg ==
    ASSUME IInv, Log(flash), NEW c \in Ctx, CtxInv(c), ProgPage(c), call[c].fn = "append",
           AtHeader(flash, next[c], sector_index[c], fr[c].todo)
    PROVE  Log(flash)' /\ CtxInv(c)' /\ SameSectors(flash, flash')
<1> DEFINE todo == fr[c].todo
           seg == Head(todo)
           w == Written(c)
           si == sector_index[c]
           t == fr'[c].todo
<1>1. PICK b \in Base, h \in Room, j \in 0 .. H - 1, id \in Ids, len \in 0 .. S, split \in BOOLEAN :
        /\ next[c] = b + h + j /\ Youngest(flash, b) /\ Open(flash, b, h)
        /\ BlankFrom(flash, b, h + j)
        /\ \A i \in 0 .. j - 1 : flash[b + h + i] = Part(id, len, split, i)
        /\ todo[1] = [i \in 1 .. H - j |-> Part(id, len, split, i + j - 1)]
        /\ DataCells(todo[2]) /\ Len(todo[2]) <= len /\ h + H + len <= S
        /\ Rest(flash, b, h + H + Len(todo[2]), si, todo, 2)
  BY DEF AtHeader
<1>2. /\ pc[c] = "prog" /\ call' = call /\ sector_index' = sector_index
      /\ seg = todo[1] /\ Len(todo) \in Nat /\ Len(todo) >= 1
      /\ w < Len(seg) =>
            /\ pc'[c] = "partial" /\ next'[c] = nextincr(next[c], w)
            /\ CutTo(t, todo, seg, w)
      /\ w = Len(seg) /\ Len(todo) # 1 =>
            /\ pc'[c] = "append_page" /\ next'[c] = nextincr(next[c], w)
            /\ Len(t) = Len(todo) - 1
            /\ \A k \in 1 .. Len(todo) - 1 : t[k] = todo[k + 1]
      /\ w = Len(seg) /\ Len(todo) = 1 => Return(c, RB_OK, fr[c].oldnext)
      /\ fr'[c].erases \in {0, 1}
      /\ \A i \in 0 .. P - 1 : page'[BufOf[c]][i] = Blank
  BY ONLY IInv, c \in Ctx, CtxInv(c), ProgPage(c), ProgNext, ZenonT(30)
<1>3. /\ H \in Nat /\ H >= 1 /\ S \in Nat /\ b \in Nat /\ h \in Nat /\ h >= H /\ h + H <= S - 1
      /\ j \in Nat /\ j < H /\ h + j \in 0 .. S - 1 /\ h + j \in Nat
  BY BaseFacts, RoomFacts
<1>4. next[c] = b + (h + j) /\ PageInv(c)
  BY <1>1, <1>3 DEF CtxInv, WriteInv
<1>5. /\ Put(flash, flash', b, h + j, w, seg) /\ w \in 0 .. Len(seg)
      /\ (h + j) + w <= S
  <2> DEFINE x == h + j
  <2>1. x \in 0 .. S - 1 /\ next[c] = b + x /\ BlankFrom(flash, b, x)
    BY <1>1, <1>3, <1>4
  <2> HIDE DEF x
  <2>2. Put(flash, flash', b, x, w, seg)
    BY <1>4, <2>1, BlankPut
  <2>3. w \in 0 .. Len(seg) /\ x + w <= S
    BY <1>4, <2>1, ProgEffect
  <2> QED
    BY <2>2, <2>3 DEF x
<1>15. Len(seg) >= 1 => w >= 1
  BY <1>2, WrittenSome
<1> HIDE DEF todo, seg, w, si, t
<1>6. Len(seg) = H - j /\ \A i \in 1 .. H - j : seg[i] = Part(id, len, split, i + j - 1)
  <2>1. seg = [i \in 1 .. H - j |-> Part(id, len, split, i + j - 1)]
    BY ONLY <1>1, <1>2
  <2> QED
    BY ONLY <1>3, <2>1
<1>17. Len(seg) = H - j
  BY ONLY <1>6, Zenon
<1>7. w \in 1 .. H - j
  BY ONLY <1>3, <1>5, <1>6, <1>15
<1>8. HeaderPut(flash, flash', b, h, j, w, id, len, split, seg)
  <2>1. \A i \in 1 .. w : seg[i] = Part(id, len, split, i + j - 1)
    BY ONLY <1>3, <1>6, <1>7
  <2> QED
    BY ONLY <1>1, <1>5, <1>7, <2>1, h \in Room, j \in 0 .. H - 1 DEF HeaderPut
<1>9. /\ \A i \in 0 .. j + w - 1 : flash'[b + h + i] = Part(id, len, split, i)
      /\ BlankFrom(flash', b, h + j + w)
      /\ \A i \in 0 .. H - 1 : flash'[b + i] = flash[b + i]
  BY <1>8, HeaderBegun
<1>10. flash'[b] = flash[b]
  <2>1. 0 \in 0 .. H - 1 /\ b + 0 = b
    BY ONLY <1>3
  <2> QED
    BY ONLY <1>9, <2>1
<1>11. SameSectors(flash, flash') /\ Youngest(flash', b)
  BY <1>1, <1>5, <1>10, HeadersKept DEF Put, SameSectors
<1>12. IndexInv(c)'
  BY <1>2, <1>11, IndexKept, WritingFacts DEF Writing
<1>16. w \in Nat /\ w >= 1 /\ w <= H - j /\ h + H + len <= S /\ len \in Nat
  BY ONLY <1>1, <1>3, <1>7
<1>13. CASE w < H - j
  <2>8. j + w < H /\ j + w \in 0 .. H - 1 /\ j + w \in Nat
    BY ONLY <1>3, <1>13, <1>16
  <2>1. Log(flash') /\ Open(flash', b, h)
    BY ONLY Log(flash), <1>8, <2>8, HeaderPart
  <2>2. pc'[c] = "partial" /\ next'[c] = nextincr(next[c], w) /\ CutTo(t, todo, seg, w)
    BY ONLY <1>2, <1>6, <1>13
  <2>3. next'[c] = b + h + (j + w)
    <3>1. (h + j) + w < S
      BY ONLY <1>3, <1>16, <2>8
    <3>2. nextincr(b + (h + j), w) = b + ((h + j) + w)
      BY ONLY b \in Base, <1>3, <1>5, <1>16, <3>1, NextIs
    <3> QED
      BY ONLY <1>3, <1>4, <1>16, <2>2, <3>2
  <2>4. t[1] = [i \in 1 .. H - (j + w) |-> Part(id, len, split, i + (j + w) - 1)]
    <3> DEFINE n == H - (j + w)
               f == [i \in 1 .. n |-> Part(id, len, split, i + (j + w) - 1)]
    <3>1. n \in Nat /\ n = Len(seg) - w
      BY ONLY <1>3, <1>6, <1>16, <2>8
    <3>2. ASSUME NEW i \in 1 .. n PROVE t[1][i] = f[i]
      <4>1. t[1][i] = seg[w + i]
        BY ONLY <2>2, <3>1, <3>2 DEF CutTo
      <4>2. w + i \in 1 .. H - j /\ (w + i) + j - 1 = i + (j + w) - 1
        BY ONLY <1>3, <1>16, <3>2
      <4>3. seg[w + i] = Part(id, len, split, (w + i) + j - 1)
        BY ONLY <1>6, <4>2
      <4> QED
        BY ONLY <4>1, <4>2, <4>3, i \in 1 .. n
    <3>3. f = [i \in 1 .. n |-> f[i]]
      OBVIOUS
    <3>4. t[1] \in Seq(Cell) /\ Len(t[1]) = n
      BY ONLY <2>2, <3>1 DEF CutTo
    <3> HIDE DEF n, f
    <3>5. t[1] = f
      BY ONLY <3>1, <3>2, <3>3, <3>4, SeqIs
    <3> QED
      BY <3>5 DEF f, n
  <2>5. Len(todo) \in {2, 5} /\ Len(t) = Len(todo) /\ \A k \in 2 .. Len(todo) : t[k] = todo[k]
    <3>1. Len(todo) \in {2, 5}
      BY ONLY <1>1 DEF Rest
    <3> QED
      BY ONLY <2>2, <3>1 DEF CutTo
  <2>6. t[2] = todo[2]
    BY ONLY <2>5
  <2>7. Rest(flash', b, h + H + Len(t[2]), si, t, 2)
    <3>1. Follows(todo, 2, t, 2)
      BY ONLY <2>5 DEF Follows
    <3>2. Rest(flash, b, h + H + Len(t[2]), si, todo, 2) /\ 2 \in Nat
      BY ONLY <1>1, <2>6
    <3> QED
      BY ONLY <1>11, <3>1, <3>2, RestKept
  <2>9. BlankFrom(flash', b, h + (j + w))
    <3>1. h + (j + w) = h + j + w
      BY ONLY <1>3, <1>16
    <3> QED
      BY ONLY <1>9, <3>1
  <2>10. \A i \in 0 .. j + w - 1 : flash'[b + h + i] = Part(id, len, split, i)
    BY ONLY <1>9, Zenon
  <2>11. DataCells(t[2]) /\ Len(t[2]) <= len
    BY ONLY <1>1, <2>6
  <2> DEFINE m == j + w
  <2>12. m \in 0 .. H - 1 /\ next'[c] = b + h + m /\ BlankFrom(flash', b, h + m)
         /\ (\A i \in 0 .. m - 1 : flash'[b + h + i] = Part(id, len, split, i))
         /\ t[1] = [i \in 1 .. H - m |-> Part(id, len, split, i + m - 1)]
    <3>1. m \in 0 .. H - 1 /\ next'[c] = b + h + m /\ BlankFrom(flash', b, h + m)
      BY ONLY <2>3, <2>8, <2>9
    <3>2. ASSUME NEW i \in 0 .. m - 1 PROVE flash'[b + h + i] = Part(id, len, split, i)
      <4>1. i \in 0 .. j + w - 1
        BY ONLY <1>3, <1>16, <3>2
      <4> QED
        BY ONLY <2>10, <4>1, Zenon
    <3>3. t[1] = [i \in 1 .. H - m |-> Part(id, len, split, i + m - 1)]
      BY ONLY <2>4, Zenon
    <3> QED
      BY ONLY <3>1, <3>2, <3>3, Zenon
  <2> HIDE DEF m
  <2>13. AtHeader(flash', next'[c], si, t)
    BY ONLY b \in Base, h \in Room, id \in Ids, len \in 0 .. S, split \in BOOLEAN,
            <1>11, <1>16, <2>1, <2>7, <2>11, <2>12 DEF AtHeader
  <2>14. Flight(flash', next'[c], sector_index'[c], fr'[c].todo)
    BY <1>2, <2>13 DEF Flight, si, t
  <2> QED
    BY ONLY c \in Ctx, <1>2, <1>11, <1>12, <2>1, <2>2, <2>14, call[c].fn = "append", WritesOn
<1>14. CASE w = H - j
  <2>1. /\ Log(flash') /\ IsHdr(flash', b + h) /\ EndOf(flash', b, h) = h + H + len
        /\ BlankFrom(flash', b, h + H)
    <3>1. j + w = H
      BY ONLY <1>3, <1>14
    <3> QED
      BY ONLY Log(flash), <1>8, <1>16, <3>1, HeaderWhole
  <2>2. Len(todo) \in {2, 5}
    BY ONLY <1>1 DEF Rest
  <2>3. /\ pc'[c] = "append_page" /\ next'[c] = nextincr(next[c], w) /\ Len(t) = Len(todo) - 1
        /\ \A k \in 1 .. Len(todo) - 1 : t[k] = todo[k + 1]
    <3>1. w = Len(seg) /\ Len(todo) # 1
      BY ONLY <1>14, <1>17, <2>2, SMTT(30)
    <3> QED
      BY ONLY <1>2, <3>1
  <2>4. next'[c] = b + (h + H)
    <3>1. (h + j) + w = h + H /\ (h + j) + w < S
      BY ONLY <1>3, <1>14
    <3>2. nextincr(b + (h + j), w) = b + ((h + j) + w)
      BY ONLY b \in Base, <1>3, <1>5, <1>16, <3>1, NextIs
    <3> QED
      BY ONLY <1>4, <2>3, <3>1, <3>2
  <2>5. t[1] = todo[2]
    BY ONLY <2>2, <2>3
  <2>6. DataCells(t[1]) /\ Len(t[1]) <= len /\ Rest(flash, b, (h + H) + Len(t[1]), si, todo, 2)
    BY ONLY <1>1, <2>5
  <2>7. Rest(flash', b, (h + H) + Len(t[1]), si, t, 1)
    <3>1. Follows(todo, 2, t, 1)
      BY ONLY <2>2, <2>3 DEF Follows
    <3>2. 1 \in Nat /\ 2 \in Nat
      OBVIOUS
    <3> QED
      BY ONLY <1>11, <2>6, <3>1, <3>2, RestKept
  <2> DEFINE o == h + H
  <2>8. o < S /\ o \in Addr /\ h + H <= o
    <3>1. o < S /\ o \in Nat /\ h + H <= o
      BY ONLY <1>3
    <3> QED
      BY ONLY <3>1, <1>3, SizeFacts DEF Addr
  <2>9. o + Len(t[1]) <= EndOf(flash', b, h)
    <3>1. t[1] \in Seq(Cell)
      BY <2>2, <2>5 DEF IInv, TypeOK, Frame, todo
    <3>2. Len(t[1]) \in Nat
      BY ONLY <3>1
    <3> QED
      BY ONLY <1>3, <1>16, <2>1, <2>6, <3>2
  <2>10. /\ next'[c] = b + o /\ BlankFrom(flash', b, o)
         /\ Rest(flash', b, o + Len(t[1]), si, t, 1)
    BY ONLY <2>1, <2>4, <2>7
  <2> HIDE DEF o
  <2>11. AtData(flash', next'[c], si, t)
    BY ONLY b \in Base, h \in Room, <1>11, <2>1, <2>6, <2>8, <2>9, <2>10 DEF AtData
  <2>12. Flight(flash', next'[c], sector_index'[c], fr'[c].todo)
    BY <1>2, <2>11 DEF Flight, si, t
  <2> QED
    BY ONLY c \in Ctx, <1>2, <1>11, <1>12, <2>1, <2>3, <2>12, call[c].fn = "append", WritesOn
<1> QED
  BY <1>3, <1>7, <1>13, <1>14

\* A sector header is written in one go.
LEMMA SectorWhole ==
    ASSUME IInv, NEW c \in Ctx, pc[c] = "prog", NEW b \in Base, next[c] = b,
           Len(Head(fr[c].todo)) = H
    PROVE  Written(c) = H
<1>1. 0 \in 0 .. S - 1 /\ b + 0 = b
  BY BaseFacts, RoomFacts
<1>2. MOD_PAGE(b + 0) = 0 % P
  BY <1>1, InPage
<1>3. 0 % P = 0
  BY GeometryAssumption
<1>4. MOD_PAGE(next[c]) = 0
  BY <1>1, <1>2, <1>3
<1> QED
  BY <1>4, GeometryAssumption DEF Written, Minimum

\* The bytes of a sector header; the index is not cut.
LEMMA SectorSegIs ==
    ASSUME MaxIndex < IndexMask, NEW x \in 1 .. MaxIndex
    PROVE  Len(SectorSeg(x)) = H /\ \A i \in 1 .. H : SectorSeg(x)[i] = SecCell(x, i - 1)
<1>1. x % (IndexMask + 1) = x
  BY GeometryAssumption
<1>2. SectorSeg(x) = [i \in 1 .. H |-> SecCell(x, i - 1)]
  BY <1>1 DEF SectorSeg
<1>3. H \in Nat
  BY RoomFacts
<1> QED
  BY ONLY <1>2, <1>3

\* A step that begins a sector.
LEMMA SectorProg ==
    ASSUME IInv, MaxIndex < IndexMask, Log(flash), NEW c \in Ctx, CtxInv(c), ProgPage(c),
           call[c].fn = "append", AtSector(flash, next[c], sector_index[c], fr[c].todo)
    PROVE  Log(flash)' /\ CtxInv(c)' /\ \E d, x : SectorPut(flash, flash', d, x)
<1> DEFINE todo == fr[c].todo
           seg == Head(todo)
           w == Written(c)
           si == sector_index[c]
           t == fr'[c].todo
           d == next[c]
<1>1. Len(todo) = 3 /\ Fresh(flash, d) /\ NewSector(flash, si, todo, 0)
  BY DEF AtSector
<1>3. /\ pc[c] = "prog" /\ call' = call /\ sector_index' = sector_index
      /\ seg = todo[1] /\ Len(todo) \in Nat /\ Len(todo) >= 1
      /\ w < Len(seg) =>
            /\ pc'[c] = "partial" /\ next'[c] = nextincr(next[c], w)
            /\ CutTo(t, todo, seg, w)
      /\ w = Len(seg) /\ Len(todo) # 1 =>
            /\ pc'[c] = "append_page" /\ next'[c] = nextincr(next[c], w)
            /\ Len(t) = Len(todo) - 1
            /\ \A k \in 1 .. Len(todo) - 1 : t[k] = todo[k + 1]
      /\ w = Len(seg) /\ Len(todo) = 1 => Return(c, RB_OK, fr[c].oldnext)
      /\ fr'[c].erases \in {0, 1}
      /\ \A i \in 0 .. P - 1 : page'[BufOf[c]][i] = Blank
  BY ONLY IInv, c \in Ctx, CtxInv(c), ProgPage(c), ProgNext, ZenonT(30)
<1>2. PICK x \in 1 .. MaxIndex, len \in 0 .. S, id \in Ids, split \in BOOLEAN :
        /\ x <= si /\ \A s \in Started(flash) : Idx(flash, s) < x
        /\ todo[0 + 1] = SectorSeg(x)
        /\ todo[0 + 2] = HeaderSeg(id, len, split)
        /\ 2 * H + len <= S /\ DataCells(todo[0 + 3]) /\ Len(todo[0 + 3]) <= len
  BY <1>1 DEF NewSector
<1>4. d \in Base /\ d \notin Started(flash) /\ PageInv(c)
  BY <1>1 DEF Fresh, CtxInv, WriteInv
<1>5. Len(seg) = H /\ \A i \in 1 .. H : seg[i] = SecCell(x, i - 1)
  <2>1. seg = SectorSeg(x)
    BY <1>2, <1>3
  <2> QED
    BY ONLY <2>1, MaxIndex < IndexMask, x \in 1 .. MaxIndex, SectorSegIs
<1>6. w = H
  BY <1>3, <1>4, <1>5, SectorWhole
<1>7. /\ H \in Nat /\ H >= 1 /\ S \in Nat /\ S >= 2 * H + 1 /\ d \in Nat /\ d = d + 0 /\ 0 \in 0 .. S - 1
  BY <1>4, BaseFacts, RoomFacts
<1>8. Put(flash, flash', d, 0, w, seg)
  <2>1. BlankFrom(flash, d, 0)
    BY <1>4, ErasedBlank
  <2>2. next[c] = d + 0
    BY <1>7
  <2> QED
    BY <1>4, <1>7, <2>1, <2>2, BlankPut
<1> HIDE DEF todo, seg, w, si, t
<1>9. SectorPut(flash, flash', d, x)
  <2>1. \A b \in Base \ {d} : SameIn(flash, flash', b)
    BY <1>8 DEF Put
  <2>2. ASSUME NEW i \in 0 .. S - 1
        PROVE  flash'[d + i] = IF i < H THEN SecCell(x, i) ELSE flash[d + i]
    <3>1. flash'[d + i] = IF 0 <= i /\ i < 0 + H THEN seg[i - 0 + 1] ELSE flash[d + i]
      BY <1>6, <1>8 DEF Put
    <3>2. CASE i < H
      <4>1. i + 1 \in 1 .. H /\ i - 0 + 1 = i + 1 /\ (i + 1) - 1 = i /\ 0 <= i /\ i < 0 + H
        BY <1>7, <3>2
      <4>2. seg[i + 1] = SecCell(x, (i + 1) - 1)
        BY ONLY <1>5, <4>1
      <4> QED
        BY ONLY <3>1, <3>2, <4>1, <4>2
    <3>3. CASE ~(i < H)
      BY <1>7, <3>1, <3>3
    <3> QED
      BY <3>2, <3>3
  <2> QED
    BY <1>1, <1>2, <2>1, <2>2 DEF SectorPut
<1> HIDE DEF d
<1>10. Log(flash') /\ Youngest(flash', d) /\ Open(flash', d, H) /\ BlankFrom(flash', d, H)
  BY ONLY Log(flash), <1>9, SectorWritten
<1>11. IndexInv(c)'
  <2>1. /\ Started(flash') = Started(flash) \cup {d}
        /\ Idx(flash', d) = x /\ \A b \in Started(flash) : Idx(flash', b) = Idx(flash, b)
    BY ONLY Log(flash), <1>9, SectorBegun
  <2>2. \A b \in Started(flash) : Idx(flash, b) <= sector_index[c]
    BY <1>3, WritingFacts DEF Writing
  <2>3. \A b \in Started(flash') : Idx(flash', b) <= sector_index'[c]
    BY <1>2, <1>3, <2>1, <2>2 DEF si
  <2> QED
    BY <2>3 DEF IndexInv
<1>12. /\ pc'[c] = "append_page" /\ next'[c] = nextincr(d, H) /\ Len(t) = 2
       /\ \A k \in 1 .. 2 : t[k] = todo[k + 1]
  <2>1. w = Len(seg) /\ Len(todo) # 1
    <3>1. Len(todo) # 1
      BY ONLY <1>1
    <3> QED
      BY ONLY <1>5, <1>6, <3>1, Zenon
  <2>2. next[c] = d /\ Len(todo) - 1 = 2
    BY <1>1, <1>7 DEF d
  <2> QED
    BY ONLY <1>3, <1>6, <2>1, <2>2
<1>13. next'[c] = d + H
  <2>1. d + S <= Size /\ Size \in Nat
    BY <1>4, BaseFacts, SizeFacts
  <2> QED
    BY ONLY <1>7, <1>12, <2>1 DEF nextincr
<1>14. t[1] = todo[2] /\ t[2] = todo[3]
  BY ONLY <1>12
<1>15. t[1] = HeaderSeg(id, len, split) /\ DataCells(t[2]) /\ Len(t[2]) <= len /\ H + H + len <= S
  <2>1. 0 + 2 = 2 /\ 0 + 3 = 3
    OBVIOUS
  <2>2. 2 * H + len <= S /\ todo[2] = HeaderSeg(id, len, split) /\ DataCells(todo[3]) /\ Len(todo[3]) <= len
    BY ONLY <1>2, <2>1
  <2>3. H + H + len <= S
    BY ONLY <1>7, <2>2, len \in 0 .. S
  <2> QED
    BY ONLY <1>14, <2>2, <2>3
<1>16. Rest(flash', d, H + H + Len(t[2]), si, t, 2)
  BY ONLY <1>12 DEF Rest
<1>17. AtHeader(flash', d + H, si, t)
  <2>1. H \in Room
    BY RoomFacts
  <2> QED
    BY ONLY <1>4, <1>10, <1>15, <1>16, <2>1, id \in Ids, len \in 0 .. S, split \in BOOLEAN, NewHeader
<1>18. Flight(flash', next'[c], sector_index'[c], fr'[c].todo)
  BY <1>3, <1>13, <1>17 DEF Flight, si, t
<1>19. CtxInv(c)'
  BY ONLY c \in Ctx, <1>3, <1>11, <1>12, <1>18, call[c].fn = "append", WritesOn
<1> QED
  BY <1>9, <1>10, <1>19

\* Clearing the flag of a header.
LEMMA FlagCleared ==
    ASSUME NEW x \in Cell, x.k = "hdr", x.part = H - 1, NEW y, y = [x EXCEPT !.live = FALSE]
    PROVE  /\ ProgCell(x, y) = y
           /\ \E id, len, split : \E live \in BOOLEAN :
                 x = HdrCell(id, len, split, live, H - 1) /\ y = Dead(id, len, split, H - 1)
<1>1. x \in [k : {"hdr"}, id : Ids, len : Nat, split : BOOLEAN, live : BOOLEAN, part : 0 .. H - 1]
  BY Kinds DEF Cell
<1>2. PICK id \in Ids, len \in Nat, split \in BOOLEAN, live \in BOOLEAN :
        x = [k |-> "hdr", id |-> id, len |-> len, split |-> split, live |-> live, part |-> H - 1]
  BY <1>1
<1>3. y = [k |-> "hdr", id |-> id, len |-> len, split |-> split, live |-> FALSE, part |-> H - 1]
  BY <1>2
<1>4. x = HdrCell(id, len, split, live, H - 1)
  BY <1>2 DEF HdrCell
<1>5. y = Dead(id, len, split, H - 1)
  BY <1>3 DEF HdrCell, Dead
<1>6. ProgCell(x, y) = y
  <2>1. y # Blank /\ x # Blank
    BY <1>2, <1>3 DEF Blank
  <2>2. x.k = "hdr" /\ y.k = "hdr" /\ [x EXCEPT !.live = y.live] = y
    BY <1>2, <1>3
  <2> QED
    BY <2>1, <2>2 DEF ProgCell
<1> QED
  BY <1>4, <1>5, <1>6

\* A step that marks a record as deleted.
LEMMA SmudgeProg ==
    ASSUME IInv, Log(flash), NEW c \in Ctx, CtxInv(c), ProgPage(c), call[c].fn # "append",
           SmudgeFlight(flash, next[c], fr[c].todo)
    PROVE  Log(flash)' /\ CtxInv(c)' /\ SameSectors(flash, flash')
<1> DEFINE todo == fr[c].todo
           seg == Head(todo)
           w == Written(c)
           n == next[c]
<1>1. /\ pc[c] = "prog" /\ call' = call /\ sector_index' = sector_index
      /\ seg = todo[1] /\ fr'[c].erases \in {0, 1}
      /\ w = Len(seg) /\ Len(todo) = 1 => Return(c, RB_OK, fr[c].oldnext)
  BY ONLY IInv, c \in Ctx, CtxInv(c), ProgPage(c), ProgNext, SMTT(30)
<1>2. /\ Len(todo) = 1 /\ Len(todo[1]) = 1
      /\ flash[n].k = "hdr" /\ flash[n].part = H - 1 /\ todo[1][1] = [flash[n] EXCEPT !.live = FALSE]
  BY DEF SmudgeFlight
<1>3. n \in Addr /\ flash[n] \in Cell /\ PageInv(c)
  BY DEF IInv, TypeOK, CtxInv, WriteInv
<1>4. PICK b \in Base, i \in 0 .. S - 1 : n = b + i
  BY <1>3, AddrSplit
<1>5. w = 1 /\ Len(seg) = 1
  <2>1. Len(seg) = 1
    BY <1>1, <1>2
  <2>2. w >= 1
    BY <1>1, <2>1, WrittenSome
  <2>3. w \in 0 .. Len(seg)
    BY <1>1, WrittenFacts
  <2> HIDE DEF seg, w
  <2> QED
    BY ONLY <2>1, <2>2, <2>3
<1>6. /\ \A d \in Base \ {b} : SameIn(flash, flash', d)
      /\ \A k \in 0 .. S - 1 :
            flash'[b + k] = IF i <= k /\ k < i + w
                            THEN ProgCell(flash[b + k], seg[k - i + 1])
                            ELSE flash[b + k]
  BY <1>3, <1>4, ProgEffect
<1>7. ProgCell(flash[n], seg[1]) = seg[1]
      /\ \E id, len, split : \E live \in BOOLEAN :
            flash[n] = HdrCell(id, len, split, live, H - 1) /\ seg[1] = Dead(id, len, split, H - 1)
  BY <1>1, <1>2, <1>3, FlagCleared
<1> HIDE DEF todo, seg, w, n
<1>8. \A k \in 0 .. S - 1 : k # i => flash'[b + k] = flash[b + k]
  BY <1>5, <1>6
<1>9. flash'[n] = seg[1]
  <2>1. i <= i /\ i < i + w /\ i - i + 1 = 1
    BY <1>5
  <2>2. flash'[b + i] = ProgCell(flash[b + i], seg[1])
    BY ONLY <1>6, <2>1, i \in 0 .. S - 1
  <2> QED
    BY <1>4, <1>7, <2>2
<1>10. Smudged(flash, flash', b, i)
  BY ONLY <1>4, <1>6, <1>7, <1>8, <1>9 DEF Smudged
<1>11. /\ Log(flash') /\ SameSectors(flash, flash') /\ (Torn(flash') <=> Torn(flash))
  BY ONLY Log(flash), <1>10, SmudgeSound DEF SameSectors
<1>12. IndexInv(c)'
  BY <1>1, <1>11, IndexKept, WritingFacts DEF Writing
<1>13. pc'[c] = "idle"
  BY <1>1, <1>2, <1>5, ReturnFacts
<1>14. WholeInv(c)'
  <2>1. "crash" \notin Ops => ~Torn(flash)
    BY WholeNow
  <2>2. AppendOk(c)'
    BY <1>1 DEF AppendOk, Returned
  <2> QED
    BY <1>11, <2>1, <2>2 DEF WholeInv
<1> QED
  BY <1>1, <1>11, <1>12, <1>13, <1>14, RestInv

\* A page is programmed.
LEMMA ProgPageLog ==
    ASSUME IInv, MaxIndex < IndexMask, Log(flash), NEW c \in Ctx, CtxInv(c), ProgPage(c)
    PROVE  /\ Log(flash)' /\ CtxInv(c)'
           /\ SameSectors(flash, flash') \/ \E d, x : SectorPut(flash, flash', d, x)
<1>1. pc[c] \in Writing
  BY DEF ProgPage, Writing
<1>2. CASE call[c].fn = "append"
  <2>1. Flight(flash, next[c], sector_index[c], fr[c].todo)
    BY <1>1, <1>2, WritingFacts
  <2> QED
    BY <1>2, <2>1, SectorProg, HeaderProg, DataProg DEF Flight
<1>3. CASE call[c].fn # "append"
  <2>1. SmudgeFlight(flash, next[c], fr[c].todo)
    BY <1>1, <1>3, WritingFacts
  <2> QED
    BY <1>3, <2>1, SmudgeProg
<1> QED
  BY <1>2, <1>3

-----------------------------------------------------------------------------
(* The log is kept by every step *)

\* Erased flash is a log.
LEMMA InitLog ==
    ASSUME Init
    PROVE  LogInv
<1>1. Log(flash) /\ Started(flash) = {} /\ ~Torn(flash)
  BY BlankLog DEF Init
<1> SUFFICES ASSUME NEW c \in Ctx PROVE CtxInv(c)
  BY <1>1 DEF LogInv
<1>2. pc[c] = "closed" /\ fr[c].erases = 0
  BY NoErases DEF Init
<1>3. IndexInv(c) /\ CallsInv(c) /\ EraseInv(c) /\ PlaceInv(c)
  BY <1>2 DEF IndexInv, CallsInv, EraseInv, PlaceInv, Appending
<1>4. WriteInv(c)
  BY <1>2 DEF WriteInv, PageInv, Writing
<1>5. WholeInv(c)
  BY <1>1, <1>2 DEF WholeInv, AppendOk, Returned
<1> QED
  BY <1>3, <1>4, <1>5 DEF CtxInv

\* What a step does to the sectors of the ring.
SectorStep(r, q) ==
    \/ SameSectors(r, q)
    \/ \E d, x : SectorPut(r, q, d, x)
    \/ \E e \in Base : ErasedAt(r, q, e)
    \/ q = BlankFlash

\* A call is made.
LEMMA RequestLog ==
    ASSUME IInv, MaxIndex < IndexMask, Log(flash), NEW c \in Ctx, CtxInv(c), Request(c)
    PROVE  Log(flash)' /\ CtxInv(c)' /\ SectorStep(flash, flash')
<1>1. CASE \E choice \in Choices, stale \in StaleIndex : Recreate(c, choice, stale)
  <2>1. PICK choice \in Choices, stale \in StaleIndex : Recreate(c, choice, stale)
    BY <1>1
  <2>2. flash' = flash \/ flash' = BlankFlash
    BY <2>1 DEF Recreate
  <2> QED
    BY <2>1, <2>2, RecreateLog DEF SectorStep, SameSectors
<1>2. CASE \E id \in Ids, d \in Data, e \in EraseIfFull : AppendCall(c, id, d, e)
  <2>1. flash' = flash
    BY <1>2 DEF AppendCall
  <2> QED
    BY <1>2, <2>1, AppendCallLog DEF SectorStep, SameSectors
<1>3. CASE \E id \in Ids, n \in ReadSizes : ReadCall(c, id, n)
  <2>1. flash' = flash
    BY <1>3 DEF ReadCall
  <2> QED
    BY <1>3, <2>1, ReadCallLog DEF SectorStep, SameSectors
<1>4. CASE \E id \in Ids, d \in Data : FindCall(c, id, d) \/ DeleteCall(c, id, d)
  <2>1. flash' = flash
    BY <1>4 DEF FindCall, DeleteCall
  <2> QED
    BY <1>4, <2>1, FindCallLog, DeleteCallLog DEF SectorStep, SameSectors
<1> QED
  BY <1>1, <1>2, <1>3, <1>4 DEF Request

\* A call goes on.
LEMMA StepLog ==
    ASSUME IInv, N >= 2, MaxIndex < IndexMask, Log(flash), NEW c \in Ctx, CtxInv(c), Step(c)
    PROVE  Log(flash)' /\ CtxInv(c)' /\ SectorStep(flash, flash')
<1>1. CASE AppendOldest(c) \/ Walk(c) \/ SectorAppend(c) \/ FillPage(c)
  <2>1. flash' = flash
    BY <1>1, FillPageLog, SectorAppendLog DEF AppendOldest, Walk
  <2> QED
    BY <1>1, <2>1, AppendOldestLog, WalkLog, SectorAppendLog, FillPageLog
       DEF SectorStep, SameSectors
<1>2. CASE EraseOldest(c)
  BY <1>2, EraseOldestLog DEF SectorStep
<1>3. CASE ProgPage(c)
  BY <1>3, ProgPageLog DEF SectorStep
<1>4. CASE ReadStep(c) \/ FindStep(c) \/ Compare(c) \/ Smudge(c)
  <2>1. flash' = flash
    BY <1>4 DEF ReadStep, FindStep, Compare, Smudge
  <2> QED
    BY <1>4, <2>1, ReadStepLog, FindStepLog, CompareLog, SmudgeLog DEF SectorStep, SameSectors
<1> QED
  BY <1>1, <1>2, <1>3, <1>4 DEF Step

\* Every step keeps the log, and does one of four things to its sectors.
LEMMA NextLog ==
    ASSUME OneContext, IInv, LogInv, [Next]_vars
    PROVE  LogInv' /\ SectorStep(flash, flash')
<1>1. PICK c \in Ctx : Ctx = {c}
  BY DEF OneContext
<1>2. N >= 2 /\ MaxIndex < IndexMask /\ Log(flash) /\ CtxInv(c)
  BY DEF OneContext, LogInv
<1>3. CASE UNCHANGED vars
  <2>1. flash' = flash
    BY <1>3 DEF vars
  <2>2. CtxInv(c)'
    <3>1. UNCHANGED <<flash, page, next, sector_index, pc, call, fr, ret>>
      BY <1>3 DEF vars
    <3>2. IndexInv(c)' /\ CallsInv(c)' /\ EraseInv(c)' /\ PlaceInv(c)'
      BY <1>2, <3>1 DEF CtxInv, IndexInv, CallsInv, EraseInv, PlaceInv
    <3>3. Written(c)' = Written(c)
      BY <3>1 DEF Written
    <3>4. PageInv(c)'
      BY <1>2, <3>1, <3>3 DEF CtxInv, WriteInv, PageInv
    <3>5. WriteInv(c)' /\ WholeInv(c)'
      BY <1>2, <3>1, <3>4 DEF CtxInv, WriteInv, WholeInv, AppendOk, Returned
    <3> QED
      BY <3>2, <3>5 DEF CtxInv
  <2> QED
    BY <1>1, <1>2, <2>1, <2>2 DEF LogInv, SectorStep, SameSectors
<1>4. CASE Crash
  <2>1. Log(flash)' /\ CtxInv(c)' /\ flash' = flash
    BY <1>2, <1>4, CrashLog DEF Crash
  <2> QED
    BY <1>1, <2>1 DEF LogInv, SectorStep, SameSectors
<1>5. CASE Request(c)
  BY <1>1, <1>2, <1>5, RequestLog DEF LogInv
<1>6. CASE Step(c)
  BY <1>1, <1>2, <1>6, StepLog DEF LogInv
<1> QED
  BY <1>1, <1>3, <1>4, <1>5, <1>6 DEF Next

-----------------------------------------------------------------------------
(* What the invariant says of the ring *)

\* The place found is the end of the log.
LEMMA LogAppendsAtEnd ==
    ASSUME IInv, LogInv
    PROVE  AppendsAtEnd
<1> SUFFICES ASSUME NEW c \in Ctx, pc[c] = "sector_append"
             PROVE  /\ BlankRun(next[c], S - MOD_SECTOR(next[c]))
                    /\ \/ SectorStatus(FLASH_SECTOR(next[c])) = RB_BLANK_HDR
                       \/ \A s \in SectorIs(RB_OK) :
                            SectorIndex(s * S) <= SectorIndex(FLASH_SECTOR(next[c]))
  BY DEF AppendsAtEnd
<1>1. Log(flash) /\ PlaceAt(flash, next[c])
  BY DEF LogInv, CtxInv, PlaceInv
<1>2. CASE Fresh(flash, next[c])
  <2>1. next[c] \in Base /\ next[c] \notin Started(flash)
    BY <1>2 DEF Fresh
  <2>2. 0 \in 0 .. S - 1 /\ next[c] + 0 = next[c] /\ S \in 0 .. S /\ S - 0 = S
    BY <2>1, BaseFacts, RoomFacts
  <2>3. FLASH_SECTOR(next[c]) = next[c] /\ MOD_SECTOR(next[c]) = 0
    BY <2>1, <2>2, InSector
  <2>4. SectorStatus(next[c]) = RB_BLANK_HDR
    BY <1>1, <2>1, SectorSeen
  <2>5. BlankRun(next[c], S)
    BY <1>1, <2>1, <2>2, ErasedBlank
  <2> QED
    BY <2>2, <2>3, <2>4, <2>5
<1>3. CASE \E b \in Base, o \in Room : /\ Youngest(flash, b) /\ Open(flash, b, o)
                                       /\ BlankFrom(flash, b, o) /\ next[c] = b + o
  <2>1. PICK b \in Base, o \in Room : /\ Youngest(flash, b) /\ BlankFrom(flash, b, o)
                                      /\ next[c] = b + o
    BY <1>3
  <2>2. o \in 0 .. S - 1 /\ S - o \in Nat /\ o + (S - o) <= S
    BY RoomFacts
  <2>3. FLASH_SECTOR(next[c]) = b /\ MOD_SECTOR(next[c]) = o
    BY <2>1, <2>2, InSector
  <2>4. BlankRun(next[c], S - o)
    BY <2>1, <2>2, BlankRunIn
  <2>5. b \in Started(flash) /\ SectorIndex(b) = Idx(flash, b)
    BY <1>1, <2>1, SectorSeen DEF Youngest
  <2>6. ASSUME NEW s \in SectorIs(RB_OK) PROVE SectorIndex(s * S) <= SectorIndex(b)
    <3>1. s \in Sector /\ SectorIndex(s * S) = Idx(flash, s * S) /\ s * S \in Started(flash)
      BY <1>1, SectorsSeen DEF SectorIs
    <3> QED
      BY <2>1, <2>5, <3>1 DEF Youngest
  <2> QED
    BY <2>3, <2>4, <2>6
<1> QED
  BY <1>1, <1>2, <1>3 DEF PlaceAt

\* The flash always holds a log, and the call under way stands where it may.
LEMMA AlwaysLog ==
    ASSUME OneContext
    PROVE  Spec => []LogInv
<1>1. Init => LogInv
  BY InitLog
<1>2. IInv /\ LogInv /\ [Next]_vars => LogInv'
  BY NextLog
<1> QED
  BY <1>1, <1>2, AlwaysTyped, PTL DEF Spec

\* rb_append writes to erased flash only, wherever the power fails and
\* whatever was written before: no byte is programmed twice, but for the flag
\* rb_smudge clears.
THEOREM NothingOverwritten ==
    ASSUME OneContext
    PROVE  Spec => []NoJunk
<1>1. LogInv => NoJunk
  BY DEF LogInv, Log, NoJunk
<1> QED
  BY <1>1, AlwaysLog, PTL

\* rb_findnext_writeable stops at the end of the log and nowhere else: behind
\* the place it finds its sector is blank, and no sector is younger.
THEOREM PlaceIsEnd ==
    ASSUME OneContext
    PROVE  Spec => []AppendsAtEnd
<1>1. IInv /\ LogInv => AppendsAtEnd
  BY LogAppendsAtEnd
<1> QED
  BY <1>1, AlwaysTyped, AlwaysLog, PTL

\* The loop of rb_append erases at most one sector per record: what it
\* erases is the sector the record needs.
THEOREM OneErase ==
    ASSUME OneContext
    PROVE  Spec => []OneErasePerAppend
<1>1. LogInv => OneErasePerAppend
  BY DEF LogInv, CtxInv, EraseInv, OneErasePerAppend
<1> QED
  BY <1>1, AlwaysLog, PTL

\* While the power does not fail, rb_append stores every record of legal
\* size when it may erase the oldest data: it never meets a header it cannot
\* read, and after one erase there is room.
THEOREM AppendsSucceed ==
    ASSUME OneContext, "crash" \notin Ops
    PROVE  Spec => []AppendSucceeds
<1>1. LogInv => AppendSucceeds
  BY DEF LogInv, CtxInv, WholeInv, AppendOk, AppendSucceeds
<1> QED
  BY <1>1, AlwaysLog, PTL

-----------------------------------------------------------------------------
(* The sectors of the log are the abstract ring *)

IndexFn(r) == [s \in Sector |-> IF s * S \in Started(r) THEN Idx(r, s * S) ELSE 0]

\* The sector headers of a log, as SectorRing sees them.
LEMMA IndicesOf == Log(flash) => Indices = IndexFn(flash)
<1> SUFFICES ASSUME Log(flash), NEW s \in Sector
             PROVE  (IF SectorStatus(s * S) = RB_OK THEN SectorIndex(s * S) ELSE 0)
                      = IF s * S \in Started(flash) THEN Idx(flash, s * S) ELSE 0
  BY DEF Indices, IndexFn
<1>1. s * S \in Base
  BY DEF Base
<1>2. RB_BLANK_HDR # RB_OK
  BY DEF RB_BLANK_HDR, RB_OK
<1> QED
  BY <1>1, <1>2, SectorSeen

\* Sectors are numbered in one way, and in ring order.
LEMMA SectorNumbers ==
    ASSUME NEW s \in Sector
    PROVE  /\ s * S \in Base /\ \A t \in Sector : s * S = t * S => s = t
           /\ Ring!Succ(s) \in Sector /\ Ring!Succ(s) * S = After(s * S)
<1>1. s \in Nat /\ s + 1 <= N /\ N \in Nat /\ S \in Nat /\ S >= 1
  BY GeometryAssumption DEF Sector
<1>2. s * S \in Base
  BY DEF Base
<1>3. ASSUME NEW t \in Sector, NEW u \in Sector, t < u PROVE t * S # u * S
  <2>1. t \in Nat /\ u \in Nat /\ t + 1 <= u
    BY <1>3, GeometryAssumption DEF Sector
  <2>2. (t + 1) * S <= u * S
    BY <1>1, <2>1, TimesMonotone
  <2>3. (t + 1) * S = (t * S) + S /\ t * S \in Nat
    BY <1>1, <2>1
  <2> QED
    BY <1>1, <2>2, <2>3
<1>4. \A t \in Sector : s * S = t * S => s = t
  <2> SUFFICES ASSUME NEW t \in Sector, s * S = t * S PROVE s = t
    OBVIOUS
  <2>1. t \in Nat
    BY GeometryAssumption DEF Sector
  <2> QED
    BY <1>1, <1>3, <2>1
<1>5. (s + 1) * S = (s * S) + S /\ s * S \in Nat
  BY <1>1
<1>6. CASE s = N - 1
  <2>1. Ring!Succ(s) = 0 /\ s + 1 = N
    BY <1>1, <1>6 DEF Ring!Succ
  <2>2. (s * S) + S = Size
    BY <1>5, <2>1 DEF Size
  <2>3. After(s * S) = 0
    BY <1>1, <1>5, <2>2 DEF After
  <2>4. 0 * S = 0 /\ 0 \in Sector
    BY <1>1 DEF Sector
  <2> QED
    BY <1>2, <1>4, <2>1, <2>3, <2>4
<1>7. CASE s # N - 1
  <2>1. Ring!Succ(s) = s + 1 /\ s + 1 \in Sector
    BY <1>1, <1>7 DEF Ring!Succ, Sector
  <2>2. (s + 1) * S \in Base
    BY <2>1 DEF Base
  <2>3. (s + 1) * S + S <= Size /\ Size \in Nat
    BY <2>2, BaseFacts, SizeFacts
  <2>4. After(s * S) = (s * S) + S
    BY <1>1, <1>5, <2>3 DEF After
  <2> QED
    BY <1>2, <1>4, <1>5, <2>1, <2>4
<1> QED
  BY <1>6, <1>7

\* They are numbers, not 0 in used sectors and 0 in the others.
LEMMA IndexFnIs ==
    ASSUME NEW r, Log(r)
    PROVE  /\ IndexFn(r) \in [Sector -> Nat]
           /\ \A s \in Sector : s * S \in Started(r) =>
                 IndexFn(r)[s] = Idx(r, s * S) /\ IndexFn(r)[s] \in 1 .. MaxIndex
           /\ \A s \in Sector : s * S \notin Started(r) => IndexFn(r)[s] = 0
           /\ \A s \in Sector : IndexFn(r)[s] # 0 => s * S \in Started(r)
<1>1. ASSUME NEW s \in Sector, s * S \in Started(r)
      PROVE  IndexFn(r)[s] = Idx(r, s * S) /\ IndexFn(r)[s] \in 1 .. MaxIndex
  BY <1>1, IndexOfStarted DEF IndexFn
<1>2. ASSUME NEW s \in Sector, s * S \notin Started(r) PROVE IndexFn(r)[s] = 0
  BY <1>2 DEF IndexFn
<1>3. \A s \in Sector : IndexFn(r)[s] \in Nat
  BY <1>1, <1>2, GeometryAssumption
<1>4. IndexFn(r) = [s \in Sector |-> IndexFn(r)[s]]
  BY DEF IndexFn
<1>5. IndexFn(r) \in [Sector -> Nat]
  BY ONLY <1>3, <1>4
<1> QED
  BY <1>1, <1>2, <1>5

\* One index changes.
LEMMA OneIndex ==
    ASSUME NEW f \in [Sector -> Nat], NEW g \in [Sector -> Nat], NEW s \in Sector, NEW x,
           g[s] = x, \A t \in Sector : t # s => g[t] = f[t]
    PROVE  g = [f EXCEPT ![s] = x]
  OBVIOUS

\* What a step does to the sectors of a log is a step of SectorRing.
LEMMA RingRefines ==
    ASSUME OneContext, Log(flash), Log(flash'), SectorStep(flash, flash'),
           Indices = IndexFn(flash), Indices' = IndexFn(flash')
    PROVE  [Ring!Next]_(Ring!vars)
<1> DEFINE f == IndexFn(flash)
           g == IndexFn(flash')
<1>1. /\ f \in [Sector -> Nat]
      /\ \A s \in Sector : s * S \in Started(flash) =>
            f[s] = Idx(flash, s * S) /\ f[s] \in 1 .. MaxIndex
      /\ \A s \in Sector : s * S \notin Started(flash) => f[s] = 0
      /\ \A s \in Sector : f[s] # 0 => s * S \in Started(flash)
  BY IndexFnIs
<1>2. /\ g \in [Sector -> Nat]
      /\ \A s \in Sector : s * S \in Started(flash') =>
            g[s] = Idx(flash', s * S) /\ g[s] \in 1 .. MaxIndex
      /\ \A s \in Sector : s * S \notin Started(flash') => g[s] = 0
      /\ \A s \in Sector : g[s] # 0 => s * S \in Started(flash')
  BY IndexFnIs
<1> HIDE DEF f, g
<1>3. Indices = f /\ Indices' = g
  BY DEF f, g
<1>4. Ring!Used = {s \in Sector : f[s] # 0}
  BY <1>3 DEF Ring!Used, Ring!Sector, Sector
<1>5. \A s \in Sector : s * S \in Base
  BY DEF Base
<1>6. \A b \in Base : \E s \in Sector : b = s * S
  BY DEF Base
<1>7. CASE SameSectors(flash, flash')
  <2>1. \A s \in Sector : g[s] = f[s]
    BY <1>1, <1>2, <1>5, <1>7 DEF SameSectors
  <2>2. g = f
    BY ONLY <1>1, <1>2, <2>1
  <2> QED
    BY <1>3, <2>2 DEF Ring!vars
<1>8. CASE \E d, x : SectorPut(flash, flash', d, x)
  <2>1. PICK d, x : SectorPut(flash, flash', d, x)
    BY <1>8
  <2>2. /\ d \in Base /\ Started(flash') = Started(flash) \cup {d}
        /\ Idx(flash', d) = x /\ \A b \in Started(flash) : Idx(flash', b) = Idx(flash, b)
    BY <2>1, SectorBegun
  <2>3. /\ Fresh(flash, d) /\ d \notin Started(flash) /\ x \in 1 .. MaxIndex
        /\ \A t \in Started(flash) : Idx(flash, t) < x
    BY <2>1 DEF SectorPut, Fresh
  <2>4. PICK k \in Sector : d = k * S
    BY <1>6, <2>2
  <2>5. g[k] = x
    BY <1>2, <2>2, <2>4
  <2>6. ASSUME NEW t \in Sector, t # k PROVE g[t] = f[t]
    <3>1. t * S # d
      BY <2>4, <2>6, SectorNumbers
    <3> QED
      BY <1>1, <1>2, <2>2, <3>1
  <2>7. g = [f EXCEPT ![k] = x]
    BY ONLY <1>1, <1>2, <2>5, <2>6, k \in Sector, OneIndex
  <2>8. x \in 1 .. IndexMask
    BY <2>3, GeometryAssumption DEF OneContext
  <2>9. CASE Started(flash) = {} /\ d = 0
    <3>1. 0 \in Sector /\ 0 * S = 0
      BY GeometryAssumption DEF Sector
    <3>2. k = 0
      BY <2>4, <2>9, <3>1, SectorNumbers
    <3>3. Ring!Used = {}
      BY <1>1, <1>4, <2>9
    <3>4. Ring!FirstSector
      BY <1>3, <2>7, <2>8, <3>2, <3>3 DEF Ring!FirstSector
    <3> QED
      BY <3>4 DEF Ring!Next
  <2>10. CASE \E p \in Started(flash) : Youngest(flash, p) /\ After(p) = d
    <3>1. PICK p \in Started(flash) : Youngest(flash, p) /\ After(p) = d
      BY <2>10
    <3>2. PICK s \in Sector : p = s * S
      BY <1>6 DEF Started
    <3>3. Ring!Succ(s) = k
      BY <2>4, <3>1, <3>2, SectorNumbers
    <3>4. f[s] = Idx(flash, p) /\ f[s] # 0
      BY <1>1, <3>2
    <3>5. \A t \in Sector : f[t] # 0 => f[t] <= f[s]
      BY <1>1, <3>1, <3>4 DEF Youngest
    <3>6. Ring!Newest(s)
      BY <1>3, <1>4, <3>4, <3>5 DEF Ring!Newest
    <3>7. f[k] = 0 /\ x > f[s]
      BY <1>1, <2>3, <2>4, <3>1, <3>4
    <3>8. Ring!NextSector(s)
      BY <1>3, <2>7, <2>8, <3>3, <3>6, <3>7 DEF Ring!NextSector
    <3> QED
      BY <3>8 DEF Ring!Next, Ring!Sector, Sector
  <2> QED
    BY <2>3, <2>9, <2>10 DEF Fresh
<1>9. CASE \E e \in Base : ErasedAt(flash, flash', e)
  <2>1. PICK e \in Base : ErasedAt(flash, flash', e)
    BY <1>9
  <2>2. /\ Started(flash') = Started(flash) \ {e}
        /\ \A b \in Base \ {e} : Idx(flash', b) = Idx(flash, b)
        /\ Eldest(flash, e)
    BY <2>1, EldestErased DEF ErasedAt
  <2>3. PICK s \in Sector : e = s * S
    BY <1>6
  <2>4. ASSUME NEW t \in Sector, t # s PROVE g[t] = f[t]
    <3>1. t * S # e /\ t * S \in Base
      BY <1>5, <2>3, <2>4, SectorNumbers
    <3> QED
      BY <1>1, <1>2, <2>2, <3>1
  <2>5. g[s] = 0
    BY <1>2, <2>2, <2>3
  <2>6. g = [f EXCEPT ![s] = 0]
    BY ONLY <1>1, <1>2, <2>4, <2>5, s \in Sector, OneIndex
  <2>7. Ring!Oldest(s)
    <3>1. f[s] = Idx(flash, e) /\ f[s] # 0
      BY <1>1, <2>2, <2>3 DEF Eldest
    <3>2. \A t \in Sector : f[t] # 0 => f[s] <= f[t]
      BY <1>1, <2>2, <3>1 DEF Eldest
    <3> QED
      BY <1>3, <1>4, <3>1, <3>2 DEF Ring!Oldest
  <2>8. Ring!EraseOldest(s)
    BY <1>3, <2>6, <2>7 DEF Ring!EraseOldest
  <2> QED
    BY <2>8 DEF Ring!Next, Ring!Sector, Sector
<1>10. CASE flash' = BlankFlash
  <2>1. \A s \in Sector : g[s] = 0
    BY <1>2, <1>10, BlankLog
  <2>2. g = [s \in Sector |-> 0]
    BY ONLY <1>2, <2>1
  <2>3. CASE Ring!Used # {}
    <3>1. Ring!Wipe
      BY <1>3, <2>2, <2>3 DEF Ring!Wipe, Ring!Sector, Sector
    <3> QED
      BY <3>1 DEF Ring!Next
  <2>4. CASE Ring!Used = {}
    <3>1. \A s \in Sector : f[s] = 0
      BY <1>4, <2>4
    <3>2. f = g
      BY ONLY <1>1, <1>2, <2>1, <3>1
    <3> QED
      BY <1>3, <3>2 DEF Ring!vars
  <2> QED
    BY <2>3, <2>4
<1> QED
  BY <1>7, <1>8, <1>9, <1>10 DEF SectorStep

\* The ring buffer implements SectorRing: whatever calls are made and wherever
\* the power fails, a step writes the header of the sector after the youngest
\* with a larger index, erases the oldest sector, erases everything, or leaves
\* the sector headers alone.
THEOREM RingImplementsSectorRing ==
    ASSUME OneContext
    PROVE  Spec => ImplementsSectorRing
<1>1. Init => Ring!Init
  <2> SUFFICES ASSUME Init PROVE Ring!Init
    OBVIOUS
  <2>1. Log(flash) /\ Started(flash) = {}
    BY BlankLog DEF Init
  <2>2. Indices = IndexFn(flash)
    BY <2>1, IndicesOf
  <2> QED
    BY <2>1, <2>2 DEF IndexFn, Ring!Init, Ring!Sector, Sector
<1>2. (Log(flash) => Indices = IndexFn(flash))'
  BY IndicesOf, PTL
<1>3. IInv /\ LogInv /\ [Next]_vars => [Ring!Next]_(Ring!vars)
  <2> SUFFICES ASSUME IInv, LogInv, [Next]_vars PROVE [Ring!Next]_(Ring!vars)
    OBVIOUS
  <2>1. LogInv' /\ SectorStep(flash, flash')
    BY NextLog
  <2>2. Log(flash) /\ Log(flash')
    BY <2>1 DEF LogInv
  <2>3. Indices = IndexFn(flash) /\ Indices' = IndexFn(flash')
    BY <1>2, <2>2, IndicesOf
  <2> QED
    BY <2>1, <2>2, <2>3, RingRefines
<1>4. Spec => Ring!Spec
  BY <1>1, <1>3, AlwaysTyped, AlwaysLog, PTL DEF Spec, Ring!Spec
<1> QED
  BY <1>4 DEF ImplementsSectorRing
=============================================================================
