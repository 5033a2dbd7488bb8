------------------------------ MODULE ScanList ------------------------------
(***************************************************************************)
(* find_local_ssid.c: the list of access points on the air.  The wifi      *)
(* driver calls scan_all_result for every one it hears, then the list is   *)
(* sorted by strength, main takes the best known one again and again, and  *)
(* the list is freed before the next scan.                                 *)
(***************************************************************************)
EXTENDS Cdll, Integers, Sequences, FiniteSetsExt

CONSTANTS
    Ssid, Length,       \* names and their lengths; an anonymous one has 0
    Rssi,               \* signal strengths in dBm
    KnownSets,          \* the ssids that the flash may hold
    MaxResults          \* bound: results of one scan

ASSUME SsidAssumption == Length \in [Ssid -> Nat] /\ Rssi \subseteq Int
ASSUME BoundAssumption == MaxResults \in Nat \ {0}

LOCAL_SCAN_MIN_RSSI == -80
Unheard == -128
Node == 1 .. MaxResults
knownnodes == 0                         \* the head of the list
NoNode == -1
Free == [ssid |-> "free"]               \* memory that is not allocated

VARIABLES
    L,                  \* the pointers of knownnodes and of the nodes
    mem,                \* mem[n]: the my_params that contains node n
    pc,                 \* where main is
    sort,               \* locals of bubblesort
    results,            \* results of this scan
    strongest,          \* history: the strongest result heard for each ssid
    known,              \* the ssids in flash
    picked              \* history: nodes scan_find_best_ap returned, in order

vars == <<L, mem, pc, sort, results, strongest, known, picked>>

Listed == {n \in Node : mem[n] # Free}
Idle == [curr |-> knownnodes, last |-> knownnodes, swapped |-> FALSE]
-----------------------------------------------------------------------------
(* The scan *)

scan_find_all_ssids ==
    /\ pc = "outer"
    /\ L' = cdll_init(L, knownnodes)
    /\ pc' = "scan"
    /\ results' = 0
    /\ strongest' = [s \in Ssid |-> Unheard]
    /\ UNCHANGED <<mem, sort, known, picked>>

unique_ssid(s) == \A n \in Members(L, knownnodes) : mem[n].ssid # s

\* Mutant of better_rssi: any change of strength is taken for a better one.
better_rssi_Any(s, r) ==
    LET S == {i \in 1 .. Cardinality(Listed) :
                mem[Nth(L, knownnodes, i)].ssid = s /\ r # mem[Nth(L, knownnodes, i)].rssi}
    IN  IF S = {} THEN NoNode ELSE Nth(L, knownnodes, Min(S))

\* The first node with a name as long as s and a weaker signal: names are not
\* compared.
better_rssi(s, r) ==
    LET S == {i \in 1 .. Cardinality(Members(L, knownnodes)) :
                /\ Length[mem[Nth(L, knownnodes, i)].ssid] = Length[s]
                /\ r > mem[Nth(L, knownnodes, i)].rssi}
    IN  IF S = {} THEN NoNode ELSE Nth(L, knownnodes, Min(S))

Ignored(s, r) == r < LOCAL_SCAN_MIN_RSSI \/ Length[s] = 0

\* The driver's callback.  calloc gives a node that is not in use.
scan_all_result(s, r) ==
    /\ pc = "scan" /\ results < MaxResults
    /\ results' = results + 1
    /\ IF Ignored(s, r)
       THEN UNCHANGED <<L, mem, strongest>>
       ELSE /\ strongest' = [strongest EXCEPT ![s] = Max({@, r})]
            /\ IF unique_ssid(s)
               THEN LET n == Min(Node \ Listed)
                    IN  /\ mem' = [mem EXCEPT ![n] =
                                    [ssid |-> s, rssi |-> r, found |-> FALSE]]
                        /\ L' = cdll_insert_node_tail(cdll_init(L, n), n, knownnodes)
               ELSE LET n == better_rssi(s, r)
                    IN  /\ mem' = IF n = NoNode THEN mem
                                  ELSE [mem EXCEPT ![n].rssi = r]
                        /\ UNCHANGED L
    /\ UNCHANGED <<pc, sort, known, picked>>

\* cyw43_wifi_scan_active is over: the list is sorted if there is one.
ScanOver ==
    /\ pc = "scan"
    /\ IF cdll_empty(L, knownnodes)
       THEN pc' = "sorted" /\ UNCHANGED sort
       ELSE /\ pc' = "sort"
            /\ sort' = [curr |-> L.next[knownnodes], last |-> knownnodes, swapped |-> FALSE]
    /\ UNCHANGED <<L, mem, results, strongest, known, picked>>

-----------------------------------------------------------------------------
(* bubblesort *)

compare_rssi(a, b) == mem[a].rssi < mem[b].rssi

\* One turn of the inner loop: the next pair before last is compared.
SortPair ==
    /\ pc = "sort" /\ L.next[sort.curr] # sort.last
    /\ IF compare_rssi(sort.curr, L.next[sort.curr])
       THEN /\ L' = cdll_swap_nodes(L, sort.curr, L.next[sort.curr])
            /\ sort' = [sort EXCEPT !.swapped = TRUE]
       ELSE /\ sort' = [sort EXCEPT !.curr = L.next[sort.curr]]
            /\ UNCHANGED L
    /\ UNCHANGED <<mem, pc, results, strongest, known, picked>>

\* The end of a pass; another one follows if nodes were swapped.
SortPass ==
    /\ pc = "sort" /\ L.next[sort.curr] = sort.last
    /\ IF sort.swapped
       THEN /\ sort' = [curr |-> L.next[knownnodes], last |-> sort.curr, swapped |-> FALSE]
            /\ UNCHANGED pc
       ELSE sort' = Idle /\ pc' = "sorted"
    /\ UNCHANGED <<L, mem, results, strongest, known, picked>>

-----------------------------------------------------------------------------
(* scan_find_best_ap and removelist *)

\* Mutant of Candidates: nodes already tried are looked at again.
Candidates_Again ==
    {i \in 1 .. Cardinality(Listed) : mem[Nth(L, knownnodes, i)].ssid \in known}

\* Positions in the list of the nodes that were not tried and that the flash
\* knows: the loop drops a candidate that flash does not know and goes on.
Candidates ==
    {i \in 1 .. Cardinality(Members(L, knownnodes)) :
        /\ ~mem[Nth(L, knownnodes, i)].found
        /\ mem[Nth(L, knownnodes, i)].ssid \in known}

\* best is marked as found; main goes on to connect to it.
scan_find_best_ap ==
    /\ pc = "sorted"
    /\ IF Candidates = {} THEN pc' = "remove" /\ UNCHANGED <<mem, picked>>
       ELSE LET n == Nth(L, knownnodes, Min(Candidates))
            IN  /\ mem' = [mem EXCEPT ![n].found = TRUE]
                /\ picked' = Append(picked, n)
                /\ UNCHANGED pc
    /\ UNCHANGED <<L, sort, results, strongest, known>>

\* main leaves its inner loop, connected or after its access point.
LeaveInnerLoop ==
    /\ pc = "sorted"
    /\ pc' = "remove"
    /\ UNCHANGED <<L, mem, sort, results, strongest, known, picked>>

\* One turn of removelist: the first node is unlinked and freed.
removelist ==
    /\ pc = "remove"
    /\ LET n == L.next[knownnodes]
       IN  IF n = knownnodes
           THEN pc' = "outer" /\ picked' = <<>> /\ UNCHANGED <<L, mem>>
           ELSE /\ L' = cdll_delete_node(L, n)
                /\ mem' = [mem EXCEPT ![n] = Free]
                /\ UNCHANGED <<pc, picked>>
    /\ UNCHANGED <<sort, results, strongest, known>>

Init ==
    /\ L = [next |-> [n \in Node \cup {knownnodes} |-> n], prev |-> [n \in Node \cup {knownnodes} |-> n]]
    /\ mem = [n \in Node |-> Free]
    /\ pc = "outer"
    /\ sort = Idle
    /\ results = 0
    /\ strongest = [s \in Ssid |-> Unheard]
    /\ known \in KnownSets
    /\ picked = <<>>

Main == scan_find_all_ssids \/ ScanOver \/ SortPair \/ SortPass
            \/ scan_find_best_ap \/ LeaveInnerLoop \/ removelist
Next == Main \/ \E s \in Ssid, r \in Rssi : scan_all_result(s, r)
Spec == Init /\ [][Next]_vars

\* Main runs, and the driver ends every scan.
FairSpec == Spec /\ WF_vars(Main)

-----------------------------------------------------------------------------
\* The pointers stay consistent through inserts, swaps and deletes, and the
\* list holds exactly the nodes that are allocated: none is leaked, none is
\* used after it was freed.
ListIntact == Linked(L) /\ Members(L, knownnodes) = Listed

\* An entry shows the strongest signal heard for its ssid, unless another
\* listed name has the same length and may have got the update in its place.
StrongestKept ==
    pc # "remove" =>
        \A n \in Listed :
            (\A m \in Listed \ {n} : Length[mem[m].ssid] # Length[mem[n].ssid])
                => mem[n].rssi = strongest[mem[n].ssid]

\* "find the most powerful remaining ap in the list" (picow_web.c:169): main
\* gets no access point twice, however often and in whatever order it was heard,
\* and the stronger ones first.
StrongestFirst ==
    pc = "sorted" =>
        \A i, j \in DOMAIN picked :
            i < j => /\ mem[picked[i]].ssid # mem[picked[j]].ssid
                     /\ mem[picked[i]].rssi >= mem[picked[j]].rssi

\* bubblesort ends, with equal strengths too.
SortEnds == pc = "sort" ~> pc = "sorted"
=============================================================================
