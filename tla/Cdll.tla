-------------------------------- MODULE Cdll --------------------------------
(***************************************************************************)
(* cdll.c: circular doubly linked lists.  A heap of list nodes is a record *)
(* of the two pointer fields, next and prev, of every node; each operation *)
(* is the heap it leaves, assignment after assignment in the code's order. *)
(* The head of a list is a node that carries no data.                      *)
(***************************************************************************)
EXTENDS Naturals, FiniteSets

\* An initialised node points at itself in both directions.
cdll_init(L, n) == [L EXCEPT !.next[n] = n, !.prev[n] = n]

cdll_add_node(L, new, p, n) ==
    LET L1 == [L EXCEPT !.prev[n] = new]
        L2 == [L1 EXCEPT !.next[new] = n, !.prev[new] = p]
    IN  [L2 EXCEPT !.next[p] = new]

cdll_insert_node_head(L, new, head) == cdll_add_node(L, new, head, L.next[head])
cdll_insert_node_tail(L, new, head) == cdll_add_node(L, new, L.prev[head], head)

\* Mutant of cdll_delete_node: the prev pointer of the successor is forgotten.
cdll_delete_node_NoPrev(L, n) == cdll_init([L EXCEPT !.next[L.prev[n]] = L.next[n]], n)

cdll_delete_node(L, n) ==
    LET L1 == [L EXCEPT !.next[L.prev[n]] = L.next[n]]
        L2 == [L1 EXCEPT !.prev[L1.next[n]] = L1.prev[n]]
    IN  cdll_init(L2, n)

\* Mutant of cdll_swap_nodes: newfirst is put behind oldfirst again.
cdll_swap_nodes_After(L, oldfirst, newfirst) ==
    cdll_insert_node_head(cdll_delete_node(L, newfirst), newfirst, oldfirst)

\* newfirst, which follows oldfirst, is moved in front of it.
cdll_swap_nodes(L, oldfirst, newfirst) ==
    IF oldfirst = newfirst THEN L
    ELSE cdll_insert_node_tail(cdll_delete_node(L, newfirst), newfirst, oldfirst)

cdll_empty(L, head) == L.next[head] = head

\* cdll_for_each: the node reached from the head after i steps along next, and
\* the nodes met before the head is reached again.
Nth(L, head, i) ==
    LET n[k \in Nat] == IF k = 0 THEN head ELSE L.next[n[k - 1]] IN n[i]
Members(L, head) ==
    LET n[k \in 0 .. Cardinality(DOMAIN L.next)] ==
            IF k = 0 THEN {} ELSE n[k - 1] \cup {Nth(L, head, k)}
    IN  n[Cardinality(DOMAIN L.next)] \ {head}

\* Following next and then prev, or prev and then next, leads back.
Linked(L) ==
    \A n \in DOMAIN L.next : L.prev[L.next[n]] = n /\ L.next[L.prev[n]] = n
=============================================================================
