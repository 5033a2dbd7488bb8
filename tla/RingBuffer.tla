----------------------------- MODULE RingBuffer -----------------------------
(***************************************************************************)
(* ring_buffer.c: the log-structured record store kept in the last sectors *)
(* of the Pico's flash.  Every call of the rb_ API runs as a sequence of   *)
(* steps of the execution context that made it; a step ends where the code *)
(* loops, touches the flash or fills the page buffer.  Contexts are the    *)
(* main loop and the lwIP callbacks that preempt it; the power may fail    *)
(* between any two steps.                                                  *)
(*                                                                         *)
(* A flash byte is a Cell: what was programmed there, not its bits.  The   *)
(* 5-bit CRC is taken as perfect: bytes that were not written as a header  *)
(* never pass for one.                                                     *)
(***************************************************************************)
EXTENDS Integers, Sequences, FiniteSets

CONSTANTS
    N,              \* number_of_sectors
    S, P, H,        \* FLASH_SECTOR_SIZE, FLASH_PAGE_SIZE, sizeof(rb_header)
    B,              \* size of a caller's page / scratch buffer
    IndexMask,      \* RB_INDEX_MASK
    MaxIndex,       \* bound: no append starts once sector_index reaches it
    Ctx, Irq,       \* execution contexts; those that run in an interrupt
    Buffer, BufOf,  \* page buffers; the one each context passes
    Ids, Byte, Data,\* record ids; byte values; payloads (sequences of bytes)
    ReadSizes,      \* sizes passed to rb_read
    Choices,        \* init_choices passed to rb_recreate
    StaleIndex,     \* values an uninitialised rb_t.sector_index can hold
    EraseIfFull,    \* values passed for erase_if_full
    Ops             \* which operations the environment performs

\* Geometry: powers of two in the code; a header never needs two pages of a
\* fresh sector, and a sector holds two headers and a byte.
ASSUME GeometryAssumption ==
    /\ N \in Nat /\ N >= 1
    /\ H \in Nat /\ H >= 1
    /\ P \in Nat /\ P >= H
    /\ S \in Nat /\ S >= 2 * H + 1
    /\ S % P = 0
    /\ B \in Nat /\ B >= P
    /\ IndexMask \in Nat /\ IndexMask >= 1
    /\ MaxIndex \in Nat

ASSUME ParameterAssumption ==
    /\ Irq \subseteq Ctx
    /\ Ids \subseteq 1 .. 254
    /\ BufOf \in [Ctx -> Buffer]
    /\ \A d \in Data : d \in Seq(Byte) /\ Len(d) <= B
    /\ ReadSizes \subseteq 0 .. B
    /\ Choices \subseteq {"CREATE_FAIL", "CREATE_INIT_IF_FAIL", "CREATE_INIT_ALWAYS"}
    /\ StaleIndex \subseteq Nat
    /\ EraseIfFull \subseteq BOOLEAN
    /\ Ops \subseteq {"append", "read", "find", "delete", "crash"}

VARIABLES
    flash,          \* the persistent area
    page,           \* page[b]: contents of page buffer b
    next,           \* rb_t.next of the context's control block
    sector_index,   \* rb_t.sector_index
    pc,             \* where the context is
    call,           \* the rb_ call it makes and its arguments
    fr,             \* the locals of that call
    ret             \* what the last call returned

vars == <<flash, page, next, sector_index, pc, call, fr, ret>>

-----------------------------------------------------------------------------
(* rb_errors_t *)
RB_OK == 0
RB_BAD_CALLER_DATA == -1
RB_BLANK_HDR == -3
RB_BAD_HDR == -4
RB_WRAPPED_SECTOR_USED == -5
RB_HDR_LOOP == -6
RB_HDR_ID_NOT_FOUND == -7
RB_FULL == -8

Size == N * S                        \* rb_t.number_of_bytes
Addr == 0 .. Size - 1
Sector == 0 .. N - 1

MOD_SECTOR(a) == a % S
MOD_PAGE(a) == a % P
FLASH_SECTOR(a) == a - MOD_SECTOR(a)
FLASH_PAGE(a) == a - MOD_PAGE(a)
RB_MAX_APPEND_SIZE == S - H - H

Minimum(a, b) == IF a < b THEN a ELSE b

-----------------------------------------------------------------------------
(* Flash cells *)
Blank == [k |-> "blank"]             \* 0xff
Junk == [k |-> "junk"]               \* programmed twice: bits of both
Wild == [k |-> "wild"]               \* read from beyond the caller's data

SecCell(n, i) == [k |-> "sec", idx |-> n, part |-> i]
HdrCell(id, len, split, live, i) ==
    [k |-> "hdr", id |-> id, len |-> len, split |-> split,
     live |-> (live \/ i # H - 1), part |-> i]
ByteCell(b) == [k |-> "data", b |-> b]

Cell ==
    {Blank, Junk, Wild}
        \cup [k : {"sec"}, idx : 0 .. IndexMask, part : 0 .. H - 1]
        \cup [k : {"hdr"}, id : Ids, len : Nat, split : BOOLEAN,
              live : BOOLEAN, part : 0 .. H - 1]
        \cup [k : {"data"}, b : Byte]

\* Flash programming clears bits and sets none: a blank cell takes the new
\* value, 0xff changes nothing, and clearing a header's flag is the one legal
\* rewrite (the smudge).
ProgCell(old, new) ==
    IF new = Blank \/ old = new THEN old
    ELSE IF old = Blank THEN new
    ELSE IF old.k = "hdr" /\ new.k = "hdr"
            /\ [old EXCEPT !.live = new.live] = new
         THEN [old EXCEPT !.live = FALSE]
    ELSE Junk

\* What flash_read finds; beyond the ring lies what is not ours.
FlashAt(a) == IF a \in Addr THEN flash[a] ELSE Junk

BlankRun(a, n) == \A i \in 0 .. n - 1 : FlashAt(a + i) = Blank

(* is_sector_header_good on the header at a, and its index *)
SectorStatus(a) ==
    LET c == FlashAt(a)
    IN  IF BlankRun(a, H) THEN RB_BLANK_HDR
        ELSE IF c.k = "sec"
                /\ \A i \in 0 .. H - 1 : FlashAt(a + i) = [c EXCEPT !.part = i]
             THEN RB_OK
        ELSE RB_BAD_HDR
SectorIndex(a) == FlashAt(a).idx

\* Mutant of HeaderStatus: only the last byte decides that a header is blank.
HeaderStatus_LastByte(a) ==
    IF FlashAt(a + H - 1) = Blank THEN RB_BLANK_HDR
    ELSE IF FlashAt(a + H - 1).k = "hdr" THEN RB_OK ELSE RB_BAD_HDR

(* is_header_good on the header at a.  The last byte holds crc and flags. *)
HeaderAt(a) == FlashAt(a + H - 1)
HeaderStatus(a) ==
    LET c == HeaderAt(a)
    IN  IF BlankRun(a, H) THEN RB_BLANK_HDR
        ELSE IF c.k = "hdr"
                /\ \A i \in 0 .. H - 1 :
                     FlashAt(a + i) = HdrCell(c.id, c.len, c.split, c.live, i)
             THEN RB_OK
        ELSE RB_BAD_HDR

\* fetch_and_check_header at a: the status, and where rb->next points after
\* the side effect of stepping over a good sector header.
Fetched(a) ==
    IF MOD_SECTOR(a) = 0 /\ SectorStatus(a) = RB_OK THEN a + H ELSE a
fetch_and_check_header(a) ==
    IF MOD_SECTOR(a) = 0 /\ SectorStatus(a) # RB_OK
    THEN SectorStatus(a)
    ELSE HeaderStatus(Fetched(a))

\* Mutant of rb_incr: no wrap at the end of the ring.
rb_incr_NoWrap(a, len) ==
    IF MOD_SECTOR(a) + len > S - (H + 1) THEN FLASH_SECTOR(a) + S ELSE a + len

rb_incr(a, len) ==
    LET n == IF MOD_SECTOR(a) + len > S - (H + 1)
             THEN FLASH_SECTOR(a) + S
             ELSE a + len
    IN  IF n >= Size THEN 0 ELSE n

nextincr(a, incr) == IF a + incr >= Size THEN 0 ELSE a + incr

NextSectorOf(a) == nextincr(FLASH_SECTOR(a), S)

\* Mutant of BlanksAtLeast: the next sector is not counted.
BlanksAtLeast_ThisSectorOnly(a, n) ==
    n <= S - MOD_SECTOR(a) /\ BlankRun(a, n)

\* sector_blank_scan >= n, the only thing its caller asks of it: the blanks
\* up to the end of the sector and, if there is nothing else, on into the next.
BlanksAtLeast(a, n) ==
    LET rest == S - MOD_SECTOR(a)
    IN  IF n <= rest
        THEN BlankRun(a, n)
        ELSE BlankRun(a, rest) /\ BlankRun(NextSectorOf(a), n - rest)

-----------------------------------------------------------------------------
(* The sector ring *)
SectorIs(st) == {s \in Sector : SectorStatus(s * S) = st}

\* Largest index seen, starting from what the control block held.
Largest(si, sectors) ==
    LET seen == {si} \cup {SectorIndex(s * S) : s \in sectors}
    IN  {m \in seen : \A k \in seen : k <= m}

\* rb_find_ring_oldest_sector scans from the last sector down and stops at a
\* bad header.  The set has one member: what it returns and leaves in rb.
rb_find_ring_oldest_sector(si) ==
    LET bad == SectorIs(RB_BAD_HDR)
        stop == {s \in bad : \A b \in bad : b <= s}
        good == {s \in SectorIs(RB_OK) : \A b \in bad : b < s}
        oldest == {s \in good :
                     /\ SectorIndex(s * S) < IndexMask
                     /\ \A t \in good :
                          \/ SectorIndex(s * S) < SectorIndex(t * S)
                          \/ SectorIndex(s * S) = SectorIndex(t * S) /\ t <= s}
        at == IF bad # {} THEN stop ELSE IF oldest = {} THEN {0} ELSE oldest
    IN  {[st |-> IF bad # {} THEN RB_BAD_HDR ELSE SectorStatus(0),
          next |-> s * S,
          sector_index |-> m] : s \in at, m \in Largest(si, good)}

\* The addresses the second loop of rb_check_sector_ring looks at, in order:
\* from the last blank sector, or from the oldest when none is blank.
CheckFrom ==
    LET blank == SectorIs(RB_BLANK_HDR)
    IN  IF blank = {}
        THEN {o.next : o \in rb_find_ring_oldest_sector(0)}
        ELSE {s * S : s \in {b \in blank : \A t \in blank : t <= b}}
CheckAddr(from, i) ==
    LET a == i * S + from IN IF a > Size THEN a - Size ELSE a
CheckReaches(from, i) ==
    \A j \in 0 .. i - 1 : SectorStatus(CheckAddr(from, j)) = RB_OK
rb_check_sector_ring ==
    IF SectorIs(RB_BAD_HDR) # {} THEN RB_BAD_HDR
    ELSE IF \E from \in CheckFrom, i \in 1 .. N - 1 :
              /\ CheckReaches(from, i + 1)
              /\ SectorIndex(CheckAddr(from, i)) < SectorIndex(CheckAddr(from, i - 1))
         THEN RB_BAD_HDR
    ELSE RB_OK

-----------------------------------------------------------------------------
(* Calls *)
NoCall == [fn |-> "none", id |-> 0, data |-> <<>>, size |-> 0, erase |-> FALSE]
NoFrame == [oldnext |-> 0, orignext |-> 0, found |-> 0, readfrom |-> 0,
            total |-> 0, todo |-> <<>>, erases |-> 0]
BlankPage == [i \in 0 .. B - 1 |-> Blank]
BlankFlash == [a \in Addr |-> Blank]

\* An interrupt handler runs to completion before the main loop goes on.
CanRun(c) == \A i \in Irq \ {c} : pc[i] \in {"idle", "closed"}

Return(c, r, n) ==
    /\ pc' = [pc EXCEPT ![c] = "idle"]
    /\ ret' = [ret EXCEPT ![c] = r]
    /\ next' = [next EXCEPT ![c] = n]
    /\ fr' = [fr EXCEPT ![c] = NoFrame]

Goto(c, l, n) ==
    /\ pc' = [pc EXCEPT ![c] = l]
    /\ next' = [next EXCEPT ![c] = n]
    /\ ret' = ret

Init ==
    /\ flash = BlankFlash
    /\ page = [b \in Buffer |-> BlankPage]
    /\ next = [c \in Ctx |-> 0]
    /\ sector_index = [c \in Ctx |-> 0]
    /\ pc = [c \in Ctx |-> "closed"]
    /\ call = [c \in Ctx |-> NoCall]
    /\ fr = [c \in Ctx |-> NoFrame]
    /\ ret = [c \in Ctx |-> RB_OK]

\* rb_recreate on a control block whose sector_index was never set: check the
\* ring, find its oldest sector, and erase everything if the caller asked for
\* it or allows it on failure.  A control block whose rb_create failed is not
\* used (CREATE_FAIL), and its next is whatever the check left there.
Recreate(c, choice, stale) ==
    /\ pc[c] \in {"closed", "idle"}
    /\ \E o \in rb_find_ring_oldest_sector(stale),
          m \in Largest(stale, SectorIs(RB_OK)) :
         LET always == choice = "CREATE_INIT_ALWAYS"
             err == IF rb_check_sector_ring # RB_OK
                    THEN rb_check_sector_ring ELSE o.st
             good == err \in {RB_OK, RB_BLANK_HDR}
             wipe == always \/ (choice = "CREATE_INIT_IF_FAIL" /\ ~good)
         IN  /\ flash' = IF wipe THEN BlankFlash ELSE flash
             /\ next' = [next EXCEPT ![c] = IF wipe THEN 0 ELSE o.next]
             /\ sector_index' = [sector_index EXCEPT ![c] = IF always THEN stale ELSE m]
             /\ ret' = [ret EXCEPT ![c] = IF wipe THEN RB_OK ELSE err]
             /\ pc' = [pc EXCEPT ![c] = IF wipe \/ good THEN "idle" ELSE "closed"]
             /\ call' = [call EXCEPT ![c] = [NoCall EXCEPT !.fn = "recreate"]]
    /\ UNCHANGED <<page, fr>>

-----------------------------------------------------------------------------
(* rb_append *)
AppendCall(c, id, d, erase) ==
    /\ "append" \in Ops
    /\ pc[c] = "idle"
    /\ sector_index[c] < MaxIndex
    /\ call' = [call EXCEPT ![c] = [fn |-> "append", id |-> id, data |-> d,
                                    size |-> Len(d), erase |-> erase]]
    /\ IF Len(d) = 0 \/ Len(d) > Size - H
       THEN Return(c, RB_BAD_CALLER_DATA, next[c])
       ELSE /\ Goto(c, "oldest", next[c])
            /\ fr' = [fr EXCEPT ![c] = [NoFrame EXCEPT !.oldnext = next[c]]]
    /\ UNCHANGED <<flash, page, sector_index>>

\* Top of the loop.  The error return leaves rb->next at the bad sector.
AppendOldest(c) ==
    /\ pc[c] = "oldest"
    /\ \E o \in rb_find_ring_oldest_sector(sector_index[c]) :
         /\ sector_index' = [sector_index EXCEPT ![c] = o.sector_index]
         /\ IF o.st = RB_BAD_HDR
            THEN Return(c, RB_BAD_HDR, o.next)
            ELSE /\ Goto(c, "walk", o.next)
                 /\ fr' = [fr EXCEPT ![c].orignext = o.next]
    /\ UNCHANGED <<flash, page, call>>

\* One iteration of rb_findnext_writeable.
Walk(c) ==
    LET a == IF MOD_SECTOR(next[c]) > S - H - 1
             THEN NextSectorOf(next[c]) ELSE next[c]
        st == fetch_and_check_header(a)
        after == rb_incr(Fetched(a), HeaderAt(Fetched(a)).len + H)
    IN  /\ pc[c] = "walk"
        /\ \/ /\ st = RB_OK /\ after # fr[c].orignext
              /\ Goto(c, "walk", after) /\ fr' = fr
           \/ /\ st = RB_OK /\ after = fr[c].orignext /\ call[c].erase
              /\ Goto(c, "erase_full", FLASH_SECTOR(after)) /\ fr' = fr
           \/ /\ st = RB_OK /\ after = fr[c].orignext /\ ~call[c].erase
              /\ Return(c, RB_HDR_LOOP, fr[c].oldnext)
           \/ /\ st = RB_BLANK_HDR
              /\ Goto(c, "sector_append", Fetched(a)) /\ fr' = fr
           \/ /\ st = RB_BAD_HDR
              /\ Return(c, RB_BAD_HDR, fr[c].oldnext)
        /\ UNCHANGED <<flash, page, sector_index, call>>

\* Mutant of EraseOldest: erase the sector the walk stopped in.
EraseOldest_Current(c) ==
    /\ pc[c] \in {"erase_full", "erase_retry"}
    /\ flash' = [a \in Addr |-> IF FLASH_SECTOR(a) = FLASH_SECTOR(next[c])
                                THEN Blank ELSE flash[a]]
    /\ Goto(c, IF pc[c] = "erase_full" THEN "sector_append" ELSE "oldest",
            FLASH_SECTOR(next[c]))
    /\ fr' = [fr EXCEPT ![c].erases = @ + 1]
    /\ UNCHANGED <<page, call, sector_index>>

\* The ring is full: erase its oldest sector, then write there (RB_HDR_LOOP)
\* or look again for a place (RB_FULL, RB_WRAPPED_SECTOR_USED).
EraseOldest(c) ==
    /\ pc[c] \in {"erase_full", "erase_retry"}
    /\ \E o \in rb_find_ring_oldest_sector(sector_index[c]) :
         /\ flash' = [a \in Addr |-> IF FLASH_SECTOR(a) = o.next
                                     THEN Blank ELSE flash[a]]
         /\ sector_index' = [sector_index EXCEPT ![c] = o.sector_index]
         /\ Goto(c, IF pc[c] = "erase_full" THEN "sector_append" ELSE "oldest", o.next)
    /\ fr' = [fr EXCEPT ![c].erases = @ + 1]
    /\ UNCHANGED <<page, call>>

\* Mutants of HeaderSeg and DataSeg: a length that is one too large.
HeaderSeg_OneMore(id, len, split) ==
    [i \in 1 .. H |-> HdrCell(id, len + 1, split, TRUE, i - 1)]
DataSeg_OneMore(d, from, len) ==
    [i \in 1 .. len + 1 |-> IF from + i <= Len(d) THEN ByteCell(d[from + i]) ELSE Wild]

\* What the calls of rb_append_page write: sector header, header, data.
SectorSeg(n) == [i \in 1 .. H |-> SecCell(n % (IndexMask + 1), i - 1)]
HeaderSeg(id, len, split) ==
    [i \in 1 .. H |-> HdrCell(id, len, split, TRUE, i - 1)]
DataSeg(d, from, len) ==
    [i \in 1 .. len |-> IF from + i <= Len(d) THEN ByteCell(d[from + i]) ELSE Wild]

\* write_headers at a, then the data.
RecordSegs(a, n, hdr, data) ==
    IF MOD_SECTOR(a) = 0 THEN <<SectorSeg(n), hdr, data>> ELSE <<hdr, data>>

\* Mutants of NoRoom: a used next sector is not a reason to erase; the append
\* is tried again although nothing was erased.
NoRoom_OnlyFull(c, st) ==
    IF st = RB_FULL /\ call[c].erase
    THEN Goto(c, "erase_retry", next[c]) /\ fr' = fr
    ELSE Return(c, st, fr[c].oldnext)
NoRoom_NoErase(c, st) ==
    IF st \in {RB_FULL, RB_WRAPPED_SECTOR_USED} /\ call[c].erase
    THEN Goto(c, "oldest", next[c]) /\ fr' = fr
    ELSE Return(c, st, fr[c].oldnext)

NoRoom(c, st) ==
    IF st \in {RB_FULL, RB_WRAPPED_SECTOR_USED} /\ call[c].erase
    THEN Goto(c, "erase_retry", next[c]) /\ fr' = fr
    ELSE Return(c, st, fr[c].oldnext)

\* rb_sector_append up to its first write.  The tail of a record that spans
\* two sectors is taken from data + size_in_second_sector; when nothing is
\* left for the second sector make_header refuses, and the header written
\* there still has the length of the first part.  boundary is where rb->next
\* stands after the first part: page by page, nextincr wraps exactly at Size.
SectorAppend(c) ==
    LET a == next[c]
        id == call[c].id
        d == call[c].data
        size == call[c].size
        rest == S - MOD_SECTOR(a)
        probe == fetch_and_check_header(NextSectorOf(a))
        start == a + Fetched(NextSectorOf(a)) - NextSectorOf(a)
        first == Minimum(rest - H, size)
        boundary == (start + H + first) % Size
        second == Minimum(size - first, S - MOD_SECTOR(boundary) - H)
        si == sector_index[c] + 1
        whole == RecordSegs(a, si, HeaderSeg(id, size, FALSE), DataSeg(d, 0, size))
        head == RecordSegs(start, si, HeaderSeg(id, first, FALSE), DataSeg(d, 0, first))
        tail == RecordSegs(boundary, si,
                           HeaderSeg(id, IF second = 0 THEN first ELSE second, TRUE),
                           DataSeg(d, second, second))
        Write(todo, from, new) ==
            /\ Goto(c, "append_page", from)
            /\ fr' = [fr EXCEPT ![c].todo = todo]
            /\ sector_index' = [sector_index EXCEPT ![c] = IF new THEN si ELSE @]
    IN  /\ pc[c] = "sector_append"
        /\ \/ /\ size > RB_MAX_APPEND_SIZE
              /\ Return(c, RB_BAD_CALLER_DATA, fr[c].oldnext)
              /\ UNCHANGED sector_index
           \/ /\ size <= RB_MAX_APPEND_SIZE /\ ~BlanksAtLeast(a, size + H)
              /\ NoRoom(c, RB_FULL)
              /\ UNCHANGED sector_index
           \/ /\ size <= RB_MAX_APPEND_SIZE /\ BlanksAtLeast(a, size + H)
              /\ size + H < rest
              /\ Write(whole, a, MOD_SECTOR(a) = 0)
           \/ /\ size <= RB_MAX_APPEND_SIZE /\ BlanksAtLeast(a, size + H)
              /\ size + H >= rest /\ probe = RB_BLANK_HDR
              /\ Write(head \o tail, start, MOD_SECTOR(boundary) = 0)
           \/ /\ size <= RB_MAX_APPEND_SIZE /\ BlanksAtLeast(a, size + H)
              /\ size + H >= rest /\ probe # RB_BLANK_HDR
              /\ NoRoom(c, IF probe = RB_OK THEN RB_WRAPPED_SECTOR_USED ELSE probe)
              /\ UNCHANGED sector_index
        /\ UNCHANGED <<flash, page, call>>

-----------------------------------------------------------------------------
(* rb_append_page and rb_partial: one flash_prog per page touched *)
Written(c) == Minimum(P - MOD_PAGE(next[c]), Len(Head(fr[c].todo)))

\* rb_append_page clears the page buffer before its first page only.
FillPage(c) ==
    LET b == BufOf[c]
        off == MOD_PAGE(next[c])
        seg == Head(fr[c].todo)
        under(i) == IF pc[c] = "append_page" /\ i < P THEN Blank ELSE page[b][i]
    IN  /\ pc[c] \in {"append_page", "partial"}
        /\ page' = [page EXCEPT ![b] =
                      [i \in 0 .. B - 1 |->
                         IF i \in off .. off + Written(c) - 1
                         THEN seg[i - off + 1] ELSE under(i)]]
        /\ Goto(c, "prog", next[c])
        /\ UNCHANGED <<flash, sector_index, call, fr>>

ProgPage(c) ==
    LET b == BufOf[c]
        from == FLASH_PAGE(next[c])
        seg == Head(fr[c].todo)
        left == SubSeq(seg, Written(c) + 1, Len(seg))
        todo == IF left = <<>> THEN Tail(fr[c].todo) ELSE <<left>> \o Tail(fr[c].todo)
    IN  /\ pc[c] = "prog"
        /\ flash' = [a \in Addr |-> IF FLASH_PAGE(a) = from
                                    THEN ProgCell(flash[a], page[b][a - from])
                                    ELSE flash[a]]
        /\ page' = [page EXCEPT ![b] =
                      [i \in 0 .. B - 1 |-> IF i < P THEN Blank ELSE page[b][i]]]
        /\ IF todo = <<>>
           THEN Return(c, RB_OK, fr[c].oldnext)
           ELSE /\ Goto(c, IF left = <<>> THEN "append_page" ELSE "partial",
                        nextincr(next[c], Written(c)))
                /\ fr' = [fr EXCEPT ![c].todo = todo]
        /\ UNCHANGED <<sector_index, call>>

-----------------------------------------------------------------------------
(* rb_read *)
RefusedSearch(size) == size = 0 \/ size > Size - H

ReadCall(c, id, size) ==
    /\ "read" \in Ops
    /\ pc[c] = "idle"
    /\ call' = [call EXCEPT ![c] = [NoCall EXCEPT !.fn = "read", !.id = id,
                                                  !.size = size]]
    /\ IF RefusedSearch(size)
       THEN Return(c, RB_BAD_CALLER_DATA, next[c])
       ELSE /\ Goto(c, "read", next[c])
            /\ fr' = [fr EXCEPT ![c] =
                        [NoFrame EXCEPT !.readfrom = FLASH_SECTOR(next[c])]]
    /\ UNCHANGED <<flash, page, sector_index>>

\* rb_read returns to the caller, or to rb_find.
ReadReturn(c, r, n) ==
    IF call[c].fn = "read"
    THEN Return(c, r, n)
    ELSE /\ pc' = [pc EXCEPT ![c] = "compare"]
         /\ ret' = [ret EXCEPT ![c] = r]
         /\ next' = [next EXCEPT ![c] = n]
         /\ fr' = fr

\* An error of the nested call for the tail leaves what the outer one read.
Outer(c, st) == IF fr[c].total = 0 THEN st ELSE fr[c].total

\* Mutant of Mine: records of every id count.
Mine_AnyId(c, hdr) == hdr.live

Mine(c, hdr) == hdr.id = call[c].id /\ hdr.live

\* One iteration of the loop of rb_read.  After the data it looks into the
\* next sector and calls itself for a tail with the same id; total counts
\* what the enclosing calls have read.
ReadStep(c) ==
    LET st == fetch_and_check_header(next[c])
        a == Fetched(next[c])
        hdr == HeaderAt(a)
        skip == rb_incr(a, hdr.len + H)
        want == call[c].size - fr[c].total
        got == Minimum(hdr.len, want)
        total == fr[c].total + got
        end == rb_incr(a + H, hdr.len)
        peek == fetch_and_check_header(end)
        over == Fetched(end)
        tail == /\ MOD_SECTOR(end) = 0 /\ peek = RB_OK
                /\ HeaderAt(over).id = call[c].id /\ HeaderAt(over).split
                /\ want > got
        Copy == page' = [page EXCEPT ![BufOf[c]] =
                           [i \in 0 .. B - 1 |->
                              IF i \in fr[c].total .. total - 1
                              THEN FlashAt(a + H + i - fr[c].total)
                              ELSE page[BufOf[c]][i]]]
    IN  /\ pc[c] = "read"
        /\ \/ /\ st # RB_OK
              /\ ReadReturn(c, Outer(c, st), a)
              /\ UNCHANGED page
           \/ /\ st = RB_OK /\ ~Mine(c, hdr) /\ skip # fr[c].readfrom
              /\ Goto(c, "read", skip)
              /\ UNCHANGED <<page, fr>>
           \/ /\ st = RB_OK /\ ~Mine(c, hdr) /\ skip = fr[c].readfrom
              /\ ReadReturn(c, Outer(c, RB_HDR_ID_NOT_FOUND), skip)
              /\ UNCHANGED page
           \/ /\ st = RB_OK /\ Mine(c, hdr) /\ MOD_SECTOR(end) = 0 /\ peek = RB_BAD_HDR
              /\ ReadReturn(c, Outer(c, RB_BAD_HDR), over)
              /\ Copy
           \/ /\ st = RB_OK /\ Mine(c, hdr) /\ tail
              /\ Goto(c, "read", over)
              /\ fr' = [fr EXCEPT ![c].total = total,
                                  ![c].readfrom = FLASH_SECTOR(over)]
              /\ Copy
           \/ /\ st = RB_OK /\ Mine(c, hdr) /\ ~tail
              /\ ~(MOD_SECTOR(end) = 0 /\ peek = RB_BAD_HDR)
              /\ ReadReturn(c, total, IF MOD_SECTOR(end) = 0 THEN over ELSE end)
              /\ Copy
        /\ UNCHANGED <<flash, sector_index, call>>

-----------------------------------------------------------------------------
(* rb_find, rb_delete and rb_smudge *)
SearchCall(c, fn, id, d) ==
    call' = [call EXCEPT ![c] = [NoCall EXCEPT !.fn = fn, !.id = id,
                                               !.data = d, !.size = Len(d)]]

FindCall(c, id, d) ==
    /\ "find" \in Ops
    /\ pc[c] = "idle"
    /\ SearchCall(c, "find", id, d)
    /\ IF RefusedSearch(Len(d))
       THEN Return(c, RB_BAD_CALLER_DATA, next[c])
       ELSE /\ Goto(c, "find", next[c])
            /\ fr' = [fr EXCEPT ![c] =
                        [NoFrame EXCEPT !.orignext = FLASH_SECTOR(next[c])]]
    /\ UNCHANGED <<flash, page, sector_index>>

\* rb_delete searches from the oldest sector.  Whenever sector 0 is not a
\* used sector it gives up, leaving rb->next where the scan put it.
DeleteCall(c, id, d) ==
    /\ "delete" \in Ops
    /\ pc[c] = "idle"
    /\ SearchCall(c, "delete", id, d)
    /\ \E o \in rb_find_ring_oldest_sector(sector_index[c]) :
         /\ sector_index' = [sector_index EXCEPT ![c] = o.sector_index]
         /\ IF o.st # RB_OK THEN Return(c, o.st, o.next)
            ELSE IF RefusedSearch(Len(d))
            THEN Return(c, RB_BAD_CALLER_DATA, next[c])
            ELSE /\ Goto(c, "find", o.next)
                 /\ fr' = [fr EXCEPT ![c] = [NoFrame EXCEPT !.oldnext = next[c],
                                                            !.orignext = o.next]]
    /\ UNCHANGED <<flash, page>>

\* The result of rb_find goes to its caller; rb_delete smudges the record.
FindReturn(c, r, n) ==
    IF call[c].fn = "find" THEN Return(c, r, n)
    ELSE IF r < 0 THEN Return(c, r, fr[c].oldnext)
    ELSE Goto(c, "smudge", r) /\ fr' = fr

\* One iteration of the loop of rb_find, up to its call of rb_read.
FindStep(c) ==
    LET st == fetch_and_check_header(next[c])
        a == Fetched(next[c])
        hdr == HeaderAt(a)
        skip == rb_incr(a, hdr.len + H)
    IN  /\ pc[c] = "find"
        /\ \/ /\ st # RB_OK
              /\ FindReturn(c, st, a)
           \/ /\ st = RB_OK /\ ~Mine(c, hdr) /\ skip # fr[c].orignext
              /\ Goto(c, "find", skip) /\ fr' = fr
           \/ /\ st = RB_OK /\ ~Mine(c, hdr) /\ skip = fr[c].orignext
              /\ FindReturn(c, RB_HDR_ID_NOT_FOUND, skip)
           \/ /\ st = RB_OK /\ Mine(c, hdr)
              /\ Goto(c, "read", a)
              /\ fr' = [fr EXCEPT ![c].found = a, ![c].total = 0,
                                  ![c].readfrom = FLASH_SECTOR(a)]
        /\ UNCHANGED <<flash, page, sector_index, call>>

\* memcmp of the caller's data with as many bytes of the scratch buffer,
\* however many rb_read put there.
Compare(c) ==
    LET match == \A i \in 1 .. call[c].size :
                   page[BufOf[c]][i - 1] = ByteCell(call[c].data[i])
    IN  /\ pc[c] = "compare"
        /\ \/ ret[c] <= 0 /\ FindReturn(c, ret[c], next[c])
           \/ ret[c] > 0 /\ match /\ FindReturn(c, fr[c].found, next[c])
           \/ ret[c] > 0 /\ ~match /\ Goto(c, "find", next[c]) /\ fr' = fr
        /\ UNCHANGED <<flash, page, sector_index, call>>

\* rb_smudge rewrites the last byte of the header with one flag cleared.
Smudge(c) ==
    LET st == fetch_and_check_header(next[c])
        a == Fetched(next[c])
        hdr == HeaderAt(a)
    IN  /\ pc[c] = "smudge"
        /\ \/ st # RB_OK /\ Return(c, st, fr[c].oldnext)
           \/ /\ st = RB_OK
              /\ Goto(c, "append_page", a + H - 1)
              /\ fr' = [fr EXCEPT ![c].todo = << <<[hdr EXCEPT !.live = FALSE]>> >>]
        /\ UNCHANGED <<flash, page, sector_index, call>>

-----------------------------------------------------------------------------
\* Power failure: the flash survives, RAM and every control block are lost.
Crash ==
    /\ "crash" \in Ops
    /\ \E c \in Ctx : pc[c] # "closed"
    /\ page' = [b \in Buffer |-> BlankPage]
    /\ next' = [c \in Ctx |-> 0]
    /\ sector_index' = [c \in Ctx |-> 0]
    /\ pc' = [c \in Ctx |-> "closed"]
    /\ call' = [c \in Ctx |-> NoCall]
    /\ fr' = [c \in Ctx |-> NoFrame]
    /\ ret' = [c \in Ctx |-> RB_OK]
    /\ UNCHANGED flash

\* What the callers may ask for next.
Request(c) ==
    \/ \E choice \in Choices, stale \in StaleIndex : Recreate(c, choice, stale)
    \/ \E id \in Ids, d \in Data, e \in EraseIfFull : AppendCall(c, id, d, e)
    \/ \E id \in Ids, n \in ReadSizes : ReadCall(c, id, n)
    \/ \E id \in Ids, d \in Data : FindCall(c, id, d) \/ DeleteCall(c, id, d)

\* The steps of a call under way.
Step(c) ==
    \/ AppendOldest(c) \/ Walk(c) \/ EraseOldest(c) \/ SectorAppend(c)
    \/ FillPage(c) \/ ProgPage(c)
    \/ ReadStep(c) \/ FindStep(c) \/ Compare(c) \/ Smudge(c)

Next ==
    \/ \E c \in Ctx : CanRun(c) /\ (Request(c) \/ Step(c))
    \/ Crash

Spec == Init /\ [][Next]_vars

\* A call that can go on does: the processor runs whoever is not preempted.
FairSpec == Spec /\ \A c \in Ctx : WF_vars(CanRun(c) /\ Step(c))

-----------------------------------------------------------------------------
(* Properties *)
Location ==
    {"closed", "idle", "oldest", "walk", "erase_full", "erase_retry",
     "sector_append", "append_page", "partial", "prog",
     "read", "find", "compare", "smudge"}

Frame ==
    [oldnext : Addr, orignext : Addr, found : Addr, readfrom : Addr,
     total : Nat, todo : Seq(Seq(Cell)), erases : Nat]

Call ==
    [fn : {"none", "recreate", "append", "read", "find", "delete"},
     id : Ids \cup {0}, data : Data \cup {<<>>}, size : Nat, erase : BOOLEAN]

\* Every variable has its type; in particular rb_t.next stays in the ring
\* ("0<=next<number_of_bytes", ring_buffer.h), whatever the flash holds.
TypeOK ==
    /\ flash \in [Addr -> Cell]
    /\ page \in [Buffer -> [0 .. B - 1 -> Cell]]
    /\ next \in [Ctx -> Addr]
    /\ sector_index \in [Ctx -> Nat]
    /\ pc \in [Ctx -> Location]
    /\ call \in [Ctx -> Call]
    /\ fr \in [Ctx -> Frame]
    /\ ret \in [Ctx -> Int]

\* One context at a time uses the ring, its sector indices never wrap around,
\* and it has two sectors at least: with one, rb_sector_append would take the
\* sector it is in for the blank next one of a record that fills it.
OneContext == N >= 2 /\ MaxIndex < IndexMask /\ \E c \in Ctx : Ctx = {c}

\* No byte is programmed that was not blank, but for the flag rb_smudge
\* clears: an append only ever writes to erased flash.
NoJunk == \A a \in Addr : flash[a] # Junk

\* The sector headers as SectorRing sees them.
Indices == [s \in Sector |-> IF SectorStatus(s * S) = RB_OK
                             THEN SectorIndex(s * S) ELSE 0]
Ring == INSTANCE SectorRing WITH Index <- 1 .. IndexMask, idx <- Indices

\* Whatever calls are made and wherever the power fails, sector headers are
\* written in ring order with growing indices and only the oldest sector is
\* ever erased to make room.
ImplementsSectorRing == Ring!Spec

\* An append erases one sector at most.
OneErasePerAppend == \A c \in Ctx : fr[c].erases <= 1

\* The place rb_findnext_writeable finds is the end of the log: nothing is
\* stored behind it in its sector, and no sector is younger.
AppendsAtEnd ==
    \A c \in Ctx :
        pc[c] = "sector_append" =>
            /\ BlankRun(next[c], S - MOD_SECTOR(next[c]))
            /\ \/ SectorStatus(FLASH_SECTOR(next[c])) = RB_BLANK_HDR
               \/ \A s \in SectorIs(RB_OK) :
                    SectorIndex(s * S) <= SectorIndex(FLASH_SECTOR(next[c]))

Returned(c, fn) == pc[c] = "idle" /\ call[c].fn = fn

\* A record of legal size is stored when the oldest data may be erased for it.
AppendSucceeds ==
    \A c \in Ctx :
        Returned(c, "append") /\ call[c].erase
            /\ call[c].size \in 1 .. RB_MAX_APPEND_SIZE => ret[c] = RB_OK

\* What rb_read hands over is a payload some caller stored, cut to the size
\* asked for.
ReadBack ==
    \A c \in Ctx :
        Returned(c, "read") /\ ret[c] > 0 =>
            \E d \in Data :
                /\ ret[c] = Minimum(Len(d), call[c].size)
                /\ \A i \in 1 .. ret[c] : page[BufOf[c]][i - 1] = ByteCell(d[i])

\* A live record with this id that begins with these bytes.
MatchAt(a, id, d) ==
    /\ MOD_SECTOR(a) # 0 /\ HeaderStatus(a) = RB_OK
    /\ HeaderAt(a).id = id /\ HeaderAt(a).live
    /\ \A i \in 1 .. Len(d) : FlashAt(a + H + i - 1) = ByteCell(d[i])

\* What rb_find returns is the place of a live record with the id and the
\* bytes asked for.
FindExact ==
    \A c \in Ctx : Returned(c, "find") /\ ret[c] > 0 =>
        MatchAt(ret[c], call[c].id, call[c].data)

\* rb_delete marks a record only if it has the id and the bytes asked for.
DeleteExact ==
    [][\A a \in Addr :
         (flash[a].k = "hdr" /\ flash[a].live /\ flash'[a].k = "hdr" /\ ~flash'[a].live)
            => \E c \in Ctx : /\ call[c].fn = "delete"
                              /\ MatchAt(a - H + 1, call[c].id, call[c].data)]_vars

\* rb_delete fails only when the ring holds no such record.
DeleteComplete ==
    \A c \in Ctx : Returned(c, "delete") /\ ret[c] < 0 =>
        \A a \in Addr : ~MatchAt(a, call[c].id, call[c].data)

Returns(fn) ==
    \A c \in Ctx : (call[c].fn = fn /\ pc[c] # "idle")
                        ~> pc[c] \in {"idle", "closed"}

\* The loops of rb_append, of rb_findnext_writeable and of rb_append_page end,
\* and so does the loop of rb_read, wherever in the ring rb->next was left: every
\* call comes back, unless the power fails.
CallsReturn == Returns("append") /\ Returns("read")
=============================================================================
