------------------------------- MODULE FlashIo -------------------------------
(***************************************************************************)
(* flash_io.c: the ssids with their passwords and the host names that the  *)
(* device keeps in the ring buffer of its flash, under the ids "ssid" and  *)
(* "host" of one ring.  Every call is a sequence of steps of the context   *)
(* that makes it: the main loop, or the lwIP callback that preempts it and *)
(* runs to its end.  A step is one rb_ call, or one use of the page buffer *)
(* that all contexts share.  The power may fail between any two steps.     *)
(*                                                                         *)
(* The ring is seen as RingBuffer leaves it: slots of one record each, K   *)
(* to a sector (records of one size that fill a sector exactly), read in   *)
(* order from the oldest sector to the first blank slot.  rb_ calls are    *)
(* atomic for callbacks here; RingBuffer looks inside them.                *)
(***************************************************************************)
EXTENDS Integers, FiniteSets, FiniteSetsExt

CONSTANTS
    N, K,           \* sectors of the ring, records in a sector
    Name, Password, \* ssids and host names; passwords
    Longer,         \* Longer[n]: the names that n is a proper prefix of
    MainCalls,      \* the calls main makes: a subset of Call
    IrqCalls,       \* the calls the callbacks make
    FilledCalls     \* bound: the calls that still begin once the ring was full

ASSUME RingAssumption == N \in Nat /\ N >= 2 /\ K \in Nat /\ K >= 1
ASSUME NameAssumption == Longer \in [Name -> SUBSET Name]

NoPassword == ""
Call ==
    [fn : {"write_ssid"}, name : Name, pw : Password]
        \cup [fn : {"find", "write_host"}, name : Name, pw : {NoPassword}]
        \cup {[fn |-> f, name |-> CHOOSE n \in Name : TRUE, pw |-> NoPassword]
                : f \in {"read_host", "wipe"}}
ASSUME CallAssumption ==
    MainCalls \subseteq Call /\ IrqCalls \subseteq Call /\ FilledCalls \subseteq Call

VARIABLES
    ring,           \* ring[i]: the record in slot i, or Blank
    oldest,         \* the oldest sector
    pagebuff,       \* what the shared page buffer holds
    pc, call,       \* per context: where it is, in which call
    fr,             \* its locals: rb.next, the offset of the first copy found,
                    \* loopcount of read_flash_ids and n of read_flash_id_n,
                    \* and what the call gives back
    filled          \* history: the ring has been full since it was last wiped

vars == <<ring, oldest, pagebuff, pc, call, fr, filled>>

Ctx == {"main", "irq"}
Size == N * K
Slot == 0 .. Size - 1
Blank == [id |-> "blank"]
Other == [id |-> "other"]            \* bytes that are no record
SectorStart(p) == p - (p % K)
At(p, d) == (p + d) % Size

-----------------------------------------------------------------------------
(* The ring buffer, as its calls leave it *)

\* rb_recreate points rb->next at the oldest sector; its status is that of
\* sector 0, the last one rb_find_ring_oldest_sector looks at.
Rewound == oldest * K
RecreateOk == ring[0] # Blank

Mine(p, id) == ring[p] # Blank /\ ring[p].id = id /\ ring[p].live

\* The record written last: the one before the first blank slot.
Blanks == {d \in 0 .. Size - 1 : ring[At(Rewound, d)] = Blank}
Full == Blanks = {}
Tail == At(Rewound, Min(Blanks))

\* A search from p that stops after d records stops there without one.
NothingRead(p, d) == ring[At(p, d)] = Blank \/ (d > 0 /\ At(p, d) = SectorStart(p))

\* rb_read from p: to the next record of this id, a blank, or back at the start
\* of p's sector after a record that was skipped.
RbRead(p, id) ==
    LET stop(d) == \/ ring[At(p, d)] = Blank
                   \/ Mine(At(p, d), id)
                   \/ d > 0 /\ At(p, d) = SectorStart(p)
        d == Min({e \in 0 .. Size : stop(e)})
        q == At(p, d)
    IN  IF NothingRead(p, d)
        THEN [ok |-> FALSE, at |-> q, next |-> q]
        ELSE [ok |-> TRUE, at |-> q, next |-> At(q, 1)]

\* rb_find from p: the same, but a record of this id with other data is passed
\* without asking whether the search has come round.
FindStops(p, id, names) ==
    {d \in 0 .. Size :
        \/ ring[At(p, d)] = Blank
        \/ Mine(At(p, d), id) /\ ring[At(p, d)].name \in names
        \/ d > 0 /\ At(p, d) = SectorStart(p) /\ ~Mine(At(p, d - 1), id)}
RbFind(p, id, names) ==
    LET d == Min(FindStops(p, id, names))
        q == At(p, d)
    IN  IF \/ ring[q] = Blank
           \/ d > 0 /\ q = SectorStart(p) /\ ~Mine(At(p, d - 1), id)
        THEN [ok |-> FALSE, at |-> q, next |-> q]
        ELSE [ok |-> TRUE, at |-> q, next |-> At(q, 1)]
FindEnds(p, id, names) == FindStops(p, id, names) # {}
-----------------------------------------------------------------------------
(* Contexts and calls *)

NoFrame == [next |-> 0, first |-> 0, count |-> 0]
NoCall == [fn |-> "none", name |-> CHOOSE n \in Name : TRUE, pw |-> NoPassword]

Id(c) == IF call[c].fn = "write_ssid" THEN "ssid" ELSE "host"
NewRecord(c) ==
    [id |-> Id(c), name |-> call[c].name, pw |-> call[c].pw, live |-> TRUE]

\* Callbacks run to completion, and do not run inside an rb_append; while main
\* looks for a password or for its name no client can reach the device.
CanRun(c) ==
    \/ c = "main" /\ pc["irq"] = "idle"
    \/ c = "irq" /\ pc["irq"] # "idle"
    \/ c = "irq" /\ pc["main"] # "write"
                 /\ (pc["main"] = "idle" \/ call["main"].fn = "write_ssid")

Goto(c, label, frame) ==
    /\ pc' = [pc EXCEPT ![c] = label]
    /\ fr' = [fr EXCEPT ![c] = frame]
Return(c, found, value) == Goto(c, "done", [found |-> found, value |-> value])
Here(c, label) == pc[c] = label /\ CanRun(c)

StartCall(c) ==
    /\ Here(c, "idle")
    /\ \E k \in IF c = "main" THEN MainCalls ELSE IrqCalls :
        /\ filled => k \in FilledCalls
        /\ call' = [call EXCEPT ![c] = k]
        /\ Goto(c, CASE k.fn = "find" -> "redundant"
                     [] k.fn = "wipe" -> "wipe"
                     [] OTHER -> "ids", NoFrame)
    /\ UNCHANGED <<ring, oldest, pagebuff, filled>>

\* The caller takes the result and goes on.
EndCall(c) ==
    /\ Here(c, "done")
    /\ Goto(c, "idle", NoFrame)
    /\ call' = [call EXCEPT ![c] = NoCall]
    /\ UNCHANGED <<ring, oldest, pagebuff, filled>>

\* flash_io_erase_ssids_hostnames: rb_recreate with CREATE_INIT_ALWAYS.
flash_io_erase_ssids_hostnames(c) ==
    /\ Here(c, "wipe")
    /\ ring' = [i \in Slot |-> Blank]
    /\ oldest' = 0
    /\ filled' = FALSE
    /\ Return(c, TRUE, NoPassword)
    /\ UNCHANGED <<pagebuff, call>>

-----------------------------------------------------------------------------
(* read_flash_id_latest: count the records, then read that many *)

\* Where it returns to: flash_io_write_flash_id, which compares what was read,
\* or main, which asked for its host name.
AfterLatest(c, got) ==
    CASE call[c].fn # "read_host" /\ got -> Goto(c, "compare", NoFrame)
      [] call[c].fn # "read_host" /\ ~got -> Goto(c, "append", NoFrame)
      [] call[c].fn = "read_host" /\ got -> Goto(c, "copy", NoFrame)
      [] OTHER -> Return(c, FALSE, NoPassword)

read_flash_ids(c) ==
    /\ Here(c, "ids")
    /\ IF RecreateOk THEN Goto(c, "idsread", [NoFrame EXCEPT !.next = Rewound])
                     ELSE AfterLatest(c, FALSE)
    /\ UNCHANGED <<ring, oldest, pagebuff, call, filled>>

\* One rb_read of read_flash_ids.  On a full ring the reads come round and
\* never fail: the count stops at MaxCount, a bound of the model.
MaxCount == 2 * Size
IdsRead(c) ==
    LET r == RbRead(fr[c].next, Id(c))
    IN  /\ Here(c, "idsread")
        /\ CASE r.ok ->
                  Goto(c, "idsread", [fr[c] EXCEPT !.next = r.next,
                                                   !.count = Min({MaxCount, @ + 1})])
             [] ~r.ok /\ fr[c].count > 0 -> Goto(c, "nth", fr[c])
             [] OTHER -> AfterLatest(c, FALSE)
        /\ pagebuff' = IF r.ok THEN ring[r.at] ELSE pagebuff
        /\ UNCHANGED <<ring, oldest, call, filled>>

read_flash_id_n(c) ==
    /\ Here(c, "nth")
    /\ IF RecreateOk THEN Goto(c, "nthread", [fr[c] EXCEPT !.next = Rewound])
                     ELSE AfterLatest(c, FALSE)
    /\ UNCHANGED <<ring, oldest, pagebuff, call, filled>>

\* The loop of read_flash_id_n, i from 1 below n: is there a record to skip?
Skips(n) == n > 1

\* One rb_read of read_flash_id_n, until one fails or the n-th is read.
NthRead(c) ==
    LET r == RbRead(fr[c].next, Id(c))
    IN  /\ Here(c, "nthread")
        /\ IF r.ok /\ Skips(fr[c].count)
           THEN Goto(c, "nthread", [fr[c] EXCEPT !.next = r.next, !.count = @ - 1])
           ELSE AfterLatest(c, r.ok)
        /\ pagebuff' = IF r.ok THEN ring[r.at] ELSE pagebuff
        /\ UNCHANGED <<ring, oldest, call, filled>>

\* main copies the latest host name out of the page buffer.
CopyHostname(c) ==
    /\ Here(c, "copy")
    /\ Return(c, TRUE, pagebuff.name)
    /\ UNCHANGED <<ring, oldest, pagebuff, call, filled>>

-----------------------------------------------------------------------------
(* flash_io_write_flash_id, below flash_io_write_ssid and _write_hostname *)

\* Mutant of Duplicate: only the names are compared.
Duplicate_NameOnly(c) == pagebuff # Other /\ pagebuff.name = call[c].name

\* The memcmp with the record that was read: what the page buffer holds now.
Duplicate(c) == pagebuff = NewRecord(c)

Compare(c) ==
    /\ Here(c, "compare")
    /\ IF Duplicate(c) THEN Return(c, FALSE, NoPassword)
                       ELSE Goto(c, "append", NoFrame)
    /\ UNCHANGED <<ring, oldest, pagebuff, call, filled>>

\* rb_append on a full ring gives up the oldest sector first.
EraseOldest(c) ==
    /\ Here(c, "append") /\ Full
    /\ ring' = [i \in Slot |-> IF i \div K = oldest THEN Blank ELSE ring[i]]
    /\ oldest' = (oldest + 1) % N
    /\ Goto(c, "write", NoFrame)
    /\ UNCHANGED <<pagebuff, call, filled>>

\* flash_io_write_flash_id returns the length whatever rb_append returned, so
\* that its callers remove the older copies next.
AfterWrite(c) == Goto(c, "redundant", NoFrame)

WriteRecord(c) ==
    /\ Here(c, "append") \/ Here(c, "write")
    /\ ~Full
    /\ ring' = [ring EXCEPT ![Tail] = NewRecord(c)]
    /\ filled' = (filled \/ Cardinality(Blanks) = 1)
    /\ pagebuff' = Other
    /\ AfterWrite(c)
    /\ UNCHANGED <<oldest, call>>

-----------------------------------------------------------------------------
(* flash_io_erase_redundant_ssids *)

flash_io_erase_redundant_ssids(c) ==
    /\ Here(c, "redundant")
    /\ Goto(c, "find1", [NoFrame EXCEPT !.next = Rewound])
    /\ UNCHANGED <<ring, oldest, pagebuff, call, filled>>

\* It returns to the two writers, or to flash_io_find_matching_ssid.
AfterRedundant(c) ==
    IF call[c].fn = "find" THEN Goto(c, "match", NoFrame)
                           ELSE Return(c, TRUE, NoPassword)

\* The search for the first copy of the ssid, and for a second one behind it.
FindCopy(c) ==
    LET r == RbFind(fr[c].next, "ssid", {call[c].name})
    IN  /\ Here(c, "find1") \/ Here(c, "find2")
        /\ FindEnds(fr[c].next, "ssid", {call[c].name})
        /\ CASE r.ok /\ pc[c] = "find1" ->
                  Goto(c, "find2", [fr[c] EXCEPT !.next = r.next, !.first = r.at])
             [] r.ok /\ pc[c] = "find2" ->
                  Goto(c, "delete", [fr[c] EXCEPT !.next = fr[c].first])
             [] OTHER -> AfterRedundant(c)
        /\ pagebuff' = Other
        /\ UNCHANGED <<ring, oldest, call, filled>>

\* Mutants of Deleted: the last copy goes; nothing goes.
Deleted_Last(n) ==
    LET p == CHOOSE i \in Slot : /\ Mine(i, "ssid") /\ ring[i].name = n
                                 /\ \A j \in i + 1 .. Size - 1 :
                                        ~(Mine(j, "ssid") /\ ring[j].name = n)
    IN  [ring EXCEPT ![p].live = FALSE]
Deleted_Nothing(n) == ring

\* The ring after rb_delete, which looks for the first copy from the oldest
\* sector on and refuses when sector 0 is blank.  Its result is ignored.
Deleted(n) ==
    LET r == RbFind(Rewound, "ssid", {n})
    IN  IF RecreateOk /\ r.ok THEN [ring EXCEPT ![r.at].live = FALSE] ELSE ring

DeleteFirst(c) ==
    /\ Here(c, "delete")
    /\ RecreateOk => FindEnds(Rewound, "ssid", {call[c].name})
    /\ ring' = Deleted(call[c].name)
    /\ pagebuff' = Other
    /\ Goto(c, "find1", [fr[c] EXCEPT !.next = IF RecreateOk THEN fr[c].first
                                                             ELSE Rewound])
    /\ UNCHANGED <<oldest, call, filled>>

-----------------------------------------------------------------------------
(* flash_io_find_matching_ssid, once the redundant copies are gone *)

flash_io_find_matching_ssid(c) ==
    /\ Here(c, "match")
    /\ Goto(c, "search", [NoFrame EXCEPT !.next = Rewound])
    /\ UNCHANGED <<ring, oldest, pagebuff, call, filled>>

\* This search leaves out the terminating zero: longer names match too.
Search(c) ==
    LET names == {call[c].name} \cup Longer[call[c].name]
        r == RbFind(fr[c].next, "ssid", names)
    IN  /\ Here(c, "search")
        /\ FindEnds(fr[c].next, "ssid", names)
        /\ IF r.ok THEN Goto(c, "take", [fr[c] EXCEPT !.next = r.at])
                   ELSE Return(c, FALSE, NoPassword)
        /\ pagebuff' = Other
        /\ UNCHANGED <<ring, oldest, call, filled>>

\* The record found is read into the page buffer.
Take(c) ==
    LET r == RbRead(fr[c].next, "ssid")
    IN  /\ Here(c, "take")
        /\ pagebuff' = ring[r.at]
        /\ Goto(c, "password", [fr[c] EXCEPT !.next = r.next])
        /\ UNCHANGED <<ring, oldest, call, filled>>

\* Mutant of SameLength: lengths are not compared.
SameLength_Any(c) == TRUE

\* The name in the page buffer is as long as the one looked for.
SameLength(c) == pagebuff.name = call[c].name

TakePassword(c) ==
    /\ Here(c, "password")
    /\ IF SameLength(c) THEN Return(c, TRUE, pagebuff.pw)
                        ELSE Goto(c, "search", fr[c])
    /\ UNCHANGED <<ring, oldest, pagebuff, call, filled>>

-----------------------------------------------------------------------------
Init ==
    /\ ring = [i \in Slot |-> Blank] /\ oldest = 0 /\ filled = FALSE
    /\ pagebuff = Other
    /\ pc = [c \in Ctx |-> "idle"]
    /\ call = [c \in Ctx |-> NoCall]
    /\ fr = [c \in Ctx |-> NoFrame]

\* RAM is lost, flash stays.
PowerFails ==
    /\ \E c \in Ctx : pc[c] # "idle"
    /\ pagebuff' = Other
    /\ pc' = [c \in Ctx |-> "idle"]
    /\ call' = [c \in Ctx |-> NoCall]
    /\ fr' = [c \in Ctx |-> NoFrame]
    /\ UNCHANGED <<ring, oldest, filled>>

Step(c) ==
    \/ EndCall(c) \/ flash_io_erase_ssids_hostnames(c)
    \/ read_flash_ids(c) \/ IdsRead(c) \/ read_flash_id_n(c) \/ NthRead(c)
    \/ CopyHostname(c)
    \/ Compare(c) \/ EraseOldest(c) \/ WriteRecord(c)
    \/ flash_io_erase_redundant_ssids(c) \/ FindCopy(c) \/ DeleteFirst(c)
    \/ flash_io_find_matching_ssid(c) \/ Search(c) \/ Take(c) \/ TakePassword(c)

Next == PowerFails \/ \E c \in Ctx : StartCall(c) \/ Step(c)

Spec == Init /\ [][Next]_vars

\* The processor executes the code of a call that has begun; main gets its turn
\* between callbacks, which it shares the processor with.
FairSpec == Spec /\ WF_vars(Step("irq")) /\ SF_vars(Step("main"))

-----------------------------------------------------------------------------
(* Properties.  Copies of a name are looked at whether deleted or not: the    *)
(* last one written is what the user last entered.                            *)

\* The callbacks' names are none of the ssids that main stores.  The code does not
\* see to it: a form posted during the write at the end of be_access_point may
\* name the same ssid (post_handler.c:197, picow_web.c:118).
OtherSsids ==
    \A k \in MainCalls, j \in IrqCalls :
        k.fn = "write_ssid" /\ j.fn \in {"write_ssid", "write_host", "find"} =>
            k.name # j.name

Age(p) == (p - Rewound) % Size
Copies(id, n) == {p \in Slot : ring[p] # Blank /\ ring[p].id = id /\ ring[p].name = n}
Hosts == {p \in Slot : ring[p] # Blank /\ ring[p].id = "host"}
Last(S) == CHOOSE p \in S : \A q \in S : Age(q) <= Age(p)
Live(n) == {p \in Copies("ssid", n) : ring[p].live}

\* flash_io_erase_redundant_ssids never deletes the credentials entered last,
\* whatever power failures and callbacks come in between, as long as a blank slot
\* ends the log: "found another copy of ssid, so erase earlier one"
\* (flash_io.c:160).  Once the ring is full the search that starts behind the
\* first copy comes round to that same copy, and the last one is deleted.
NewestAliveUntilFull ==
    ~filled => \A n \in Name :
                  Copies("ssid", n) # {} => ring[Last(Copies("ssid", n))].live

Answers(c, fn) == ~filled /\ pc[c] = "done" /\ call[c].fn = fn

\* flash_io_find_matching_ssid gives the password entered last for exactly this
\* ssid, and fails only when there is none.  Copies left by a power failure
\* between a write and its clean-up, and longer ssids, do not mislead it.
FindAnswers(c) ==
    LET S == Copies("ssid", call[c].name)
    IN  IF fr[c].found THEN S # {} /\ fr[c].value = ring[Last(S)].pw
                       ELSE S = {}

\* The host name main gets at boot is the one written last, and it gets none
\* only when none was written: counting the records and reading that many finds
\* the last one.
HostAnswers(c) ==
    IF fr[c].found THEN Hosts # {} /\ fr[c].value = ring[Last(Hosts)].name
                   ELSE Hosts = {}

\* Both lookups give what was stored last, through a page buffer that callbacks
\* fill too.
LookupsAnswer ==
    \A c \in Ctx : /\ Answers(c, "find") => FindAnswers(c)
                   /\ Answers(c, "read_host") => HostAnswers(c)

\* When flash_io_write_ssid returns, the password given is the one the next
\* search finds (a callback can only have wiped it), and a write that wrote has
\* left no older copy of the ssid alive.
WriteStored ==
    \A c \in Ctx : Answers(c, "write_ssid") =>
        LET S == Copies("ssid", call[c].name)
        IN  S # {} => /\ ring[Last(S)].pw = call[c].pw
                      /\ fr[c].found => Live(call[c].name) \subseteq {Last(S)}

\* Every call comes back, unless the ring is full: the loops over the records
\* and the loop that deletes redundant copies end.
CallsReturn == \A c \in Ctx : []<>(pc[c] = "idle" \/ filled)
=============================================================================
