----------------------------- MODULE DhcpServer -----------------------------
(***************************************************************************)
(* dhcpserver.c: the addresses the device gives out while it is an access  *)
(* point.  A lease is a hardware address and the upper bits of the tick at *)
(* which it ends; ticks wrap.  The server keeps nothing between two access *)
(* point phases.  Messages are lost, and clients ask in any order: for an  *)
(* offer, for what they were offered, again for what they have, or for     *)
(* what they had in an earlier phase.  Messages that the server drops      *)
(* before it looks at its leases (too short, of no or another type, for an *)
(* address of another net) change nothing and are left out.                *)
(***************************************************************************)
EXTENDS Integers, FiniteSetsExt

CONSTANTS
    Client,         \* hardware addresses
    Patient,        \* clients that ask until they have an address
    DHCPS_MAX_IP,   \* addresses to give out
    TickMod,        \* ticks are counted modulo this: 2^32 milliseconds
    Granule,        \* ticks to a unit of expiry: 2^16
    LeaseTime       \* DEFAULT_LEASE_TIME_S, in ticks

NoMac == "00:00:00:00:00:00"
NoSlot == -1
Never == -1

ASSUME ClientAssumption == NoMac \notin Client /\ Patient \subseteq Client
ASSUME PoolAssumption == DHCPS_MAX_IP \in Nat \ {0}
\* A lease ends less than half the range of the ticks ahead.
ASSUME TickAssumption ==
    /\ Granule \in Nat \ {0} /\ LeaseTime \in Nat \ {0}
    /\ TickMod \in {2 * n * Granule : n \in 1 .. TickMod}
    /\ 2 * (LeaseTime + Granule) <= TickMod

VARIABLES
    ticks,          \* cyw43_hal_ticks_ms
    lease,          \* the server's table
    want, left,     \* per client: the address it was offered or has, and how
                    \* long it may still use it
    since,          \* history: time since each address was granted, up to Half
    ignored         \* history: a DISCOVER was just ignored

vars == <<ticks, lease, want, left, since, ignored>>

Slot == 0 .. DHCPS_MAX_IP - 1
Half == TickMod \div 2

-----------------------------------------------------------------------------
\* The last tick of lease i.
ExpiryTick(i) == lease[i].expiry * Granule + Granule - 1

\* Mutant of Expired: the ticks are compared as they are.
Expired_Unsigned(i) == ExpiryTick(i) < ticks

\* The difference of two ticks, taken as a signed number, is negative.
Expired(i) == (ExpiryTick(i) - ticks) % TickMod >= Half

Free(i) == lease[i].mac = NoMac \/ Expired(i)

Match(c) == {i \in Slot : lease[i].mac = c}

\* DISCOVER: the client's own address if it has one, else the first that is not
\* used.  The loop frees the first unused one on its way to the client's own.
dhcp_discover(c, lost) ==
    LET free == {i \in Slot : Free(i)}
        seen == IF Match(c) = {} THEN free ELSE {i \in free : i < Min(Match(c))}
        yi == CASE Match(c) # {} -> Min(Match(c))
                [] Match(c) = {} /\ free # {} -> Min(free)
                [] OTHER -> NoSlot
    IN  /\ left[c] = 0
        /\ lease' = IF seen = {} THEN lease
                    ELSE [lease EXCEPT ![Min(seen)].mac = IF Expired(Min(seen)) THEN NoMac ELSE @]
        /\ ignored' = (yi = NoSlot)
        /\ want' = IF lost \/ yi = NoSlot THEN want ELSE [want EXCEPT ![c] = yi]
        /\ UNCHANGED <<ticks, left, since>>

\* Mutants of MayUse: an address that has expired is as good as a free one; only
\* a renewal is granted.
MayUse_Any(c, i) == TRUE
MayUse_Renewal(c, i) == lease[i].mac = c

MayUse(c, i) == lease[i].mac \in {c, NoMac}

\* The upper bits of the tick at which a lease granted now ends.
Expiry == ((ticks + LeaseTime) % TickMod) \div Granule

\* REQUEST for the address the client was offered, or has, or had.
dhcp_request(c, lost) ==
    /\ want[c] # NoSlot
    /\ MayUse(c, want[c])
    /\ lease' = [lease EXCEPT ![want[c]] = [mac |-> c, expiry |-> Expiry]]
    /\ left' = IF lost THEN left ELSE [left EXCEPT ![c] = LeaseTime]
    /\ since' = [since EXCEPT ![want[c]] = 0]
    /\ ignored' = FALSE
    /\ UNCHANGED <<ticks, want>>

\* A new access point phase: dhcp_server_init clears the table.  The clients
\* lost their link, but remember their addresses.
dhcp_server_init ==
    /\ lease' = [i \in Slot |-> [mac |-> NoMac, expiry |-> 0]]
    /\ left' = [c \in Client |-> 0]
    /\ since' = [i \in Slot |-> Never]
    /\ ignored' = FALSE
    /\ UNCHANGED <<ticks, want>>

Tick ==
    /\ ticks' = (ticks + 1) % TickMod
    /\ left' = [c \in Client |-> Max({0, left[c] - 1})]
    /\ since' = [i \in Slot |-> IF since[i] = Never THEN Never ELSE Min({Half, since[i] + 1})]
    /\ ignored' = FALSE
    /\ UNCHANGED <<lease, want>>

Init ==
    /\ ticks \in 0 .. TickMod - 1
    /\ lease = [i \in Slot |-> [mac |-> NoMac, expiry |-> 0]]
    /\ want = [c \in Client |-> NoSlot]
    /\ left = [c \in Client |-> 0]
    /\ since = [i \in Slot |-> Never]
    /\ ignored = FALSE

Next ==
    \/ \E c \in Client, lost \in BOOLEAN : dhcp_discover(c, lost) \/ dhcp_request(c, lost)
    \/ dhcp_server_init
    \/ Tick

Spec == Init /\ [][Next]_vars

\* Patient clients ask again as long as they have no address, and not every
\* message is lost; time goes on.
FairSpec ==
    /\ Spec
    /\ WF_vars(Tick)
    /\ \A c \in Patient : /\ SF_vars(dhcp_discover(c, FALSE))
                          /\ SF_vars(dhcp_request(c, FALSE))

-----------------------------------------------------------------------------
\* Two clients never use one address: offers that went to two of them, lost
\* answers, renewals, leases that run out and ticks that wrap included.
OneHolder ==
    \A c, d \in Client : left[c] > 0 /\ left[d] > 0 /\ want[c] = want[d] => c = d

\* A DISCOVER is ignored only while every address is in use, or was for no
\* longer than the rounding of the expiry, or has not been asked for in half the
\* range of the ticks.
IgnoredOnlyWhenFull ==
    ignored => \A i \in Slot : since[i] \in (0 .. LeaseTime + Granule - 1) \cup {Half}

\* A patient client gets an address, or finds the table full again and
\* again: an offer reserves nothing, and the loser of a race is offered another.
Served(c) == left[c] > 0
TableFull(c) == \A i \in Slot : lease[i].mac # c /\ ~Free(i)
AllServed == \A c \in Patient : []<>(Served(c) \/ TableFull(c))
=============================================================================
