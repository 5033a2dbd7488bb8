--------------------------- MODULE ScanListProofs ---------------------------
(***************************************************************************)
(* The list of access points of ScanList, for any number of results of a   *)
(* scan, any names, strengths and contents of the flash.                   *)
(***************************************************************************)
EXTENDS ScanList, FiniteSetTheorems, WellFoundedInduction, TLAPS

(* Numbers *)

\* Every set of natural numbers has a least element.
LEMMA LeastElement ==
    ASSUME NEW T, T \subseteq Nat, T # {}
    PROVE  \E x \in T : \A y \in T : x <= y
<1> DEFINE R == {p \in Nat \X Nat : p[1] < p[2]}
<1>1. IsWellFoundedOn(R, Nat)
  BY NatLessThanWellFounded DEF OpToRel
<1>2. PICK x \in T : \A y \in T : ~(<<y, x>> \in R)
  <2> HIDE DEF R
  <2> QED
    BY <1>1, WFMin
<1>3. \A y \in T : y < x => <<y, x>> \in R
  BY <1>2
<1>4. \A y \in T : ~(y < x)
  BY <1>2, <1>3
<1>5. \A y \in T : x <= y
  BY <1>4
<1> QED
  BY <1>5

\* Division with remainder.
LEMMA DivMod ==
    ASSUME NEW a \in Nat, NEW m \in Nat, m >= 1
    PROVE  /\ a \div m \in Nat
           /\ a % m \in 0 .. m - 1
           /\ a = ((a \div m) * m) + (a % m)
           /\ a % m <= a
<1>1. a % m \in 0 .. m - 1
  OBVIOUS
<1>2. a = (m * (a \div m)) + (a % m) /\ a \div m \in Int
  OBVIOUS
<1>3. a \div m >= 0
  OBVIOUS
<1>4. (a \div m) * m >= 0
  BY <1>2, <1>3
<1>5. (a \div m) * m = m * (a \div m)
  BY <1>2
<1> QED
  BY <1>1, <1>2, <1>3, <1>4, <1>5

\* The remainder is determined by its range.
LEMMA ModUnique ==
    ASSUME NEW q \in Nat, NEW m \in Nat, m >= 1, NEW r \in 0 .. m - 1
    PROVE  ((q * m) + r) % m = r
  OBVIOUS

\* Remainders of numbers one range below and one range above.
LEMMA ModNear ==
    ASSUME NEW m \in Nat, m >= 1, NEW x \in Int
    PROVE  /\ x >= 0 /\ x < m => x % m = x
           /\ x < 0 /\ x >= -m => x % m = x + m
           /\ x >= m /\ x < 2 * m => x % m = x - m
           /\ x % m \in 0 .. m - 1
  OBVIOUS

-----------------------------------------------------------------------------
\* The head and the nodes.
Place == 0 .. MaxResults

\* The heap H holds a list of m nodes, s[1] to s[m], behind the head s[0]; nodes that
\* are not in it point at themselves.
Chain(H, m, s) ==
    /\ s \in [0 .. m -> Place] /\ s[0] = knownnodes
    /\ \A i, j \in 0 .. m : s[i] = s[j] => i = j
    /\ \A i \in 0 .. m - 1 : H.next[s[i]] = s[i + 1] /\ H.prev[s[i + 1]] = s[i]
    /\ H.next[s[m]] = knownnodes /\ H.prev[knownnodes] = s[m]
    /\ \A n \in Place : (\A i \in 0 .. m : s[i] # n) => H.next[n] = n /\ H.prev[n] = n
Heap == [next : [Place -> Place], prev : [Place -> Place]]

\* The bound on the results.
LEMMA Bound == MaxResults \in Nat /\ MaxResults >= 1 /\ Node = 1 .. MaxResults /\ Place = Node \cup {knownnodes}
  BY BoundAssumption DEF Node, Place, knownnodes

\* Going round the list.
LEMMA Around ==
    ASSUME NEW m \in Nat, NEW k \in Nat
    PROVE  /\ k % (m + 1) \in 0 .. m
           /\ k \in 0 .. m => k % (m + 1) = k
           /\ k % (m + 1) = m => (k + 1) % (m + 1) = 0
           /\ k % (m + 1) < m => (k + 1) % (m + 1) = (k % (m + 1)) + 1
<1>1. k % (m + 1) \in 0 .. m
  BY DivMod
<1>2. k \in 0 .. m => k % (m + 1) = k
  BY ModNear
<1> DEFINE q == k \div (m + 1)
           r == k % (m + 1)
<1>3. q \in Nat /\ k = (q * (m + 1)) + r /\ r \in 0 .. m
  <2>1. m + 1 \in Nat /\ m + 1 >= 1 /\ k \in Nat
    OBVIOUS
  <2>2. /\ k \div (m + 1) \in Nat
        /\ k = ((k \div (m + 1)) * (m + 1)) + (k % (m + 1))
    BY ONLY <2>1, DivMod
  <2> QED
    BY <1>1, <2>2
<1> HIDE DEF q, r
<1>4. r < m => (k + 1) % (m + 1) = r + 1
  <2> SUFFICES ASSUME r < m
               PROVE  (k + 1) % (m + 1) = r + 1
    OBVIOUS
  <2>1. r + 1 \in 0 .. (m + 1) - 1
    BY <1>3
  <2>2. ((q * (m + 1)) + (r + 1)) % (m + 1) = r + 1
    BY <1>3, <2>1, ModUnique
  <2>3. q * (m + 1) \in Nat
    BY <1>3
  <2>4. k + 1 = (q * (m + 1)) + (r + 1)
    BY <1>3, <2>3
  <2> QED
    BY <2>2, <2>4
<1>5. r = m => (k + 1) % (m + 1) = 0
  <2> SUFFICES ASSUME r = m
               PROVE  (k + 1) % (m + 1) = 0
    OBVIOUS
  <2>1. (((q + 1) * (m + 1)) + 0) % (m + 1) = 0
    BY <1>3, ModUnique
  <2>2. q * (m + 1) \in Nat /\ (q + 1) * (m + 1) = (q * (m + 1)) + (m + 1)
    BY <1>3
  <2>3. k + 1 = ((q + 1) * (m + 1)) + 0
    BY <1>3, <2>2
  <2> QED
    BY <2>1, <2>3
<1> QED
  BY <1>1, <1>2, <1>4, <1>5 DEF r

\* cdll_for_each meets the nodes in this order.
LEMMA NthOfChain ==
    ASSUME NEW H, NEW m \in Nat, NEW s, Chain(H, m, s)
    PROVE  \A k \in Nat : Nth(H, knownnodes, k) = s[k % (m + 1)]
<1> DEFINE F == CHOOSE n : n = [k \in Nat |-> IF k = 0 THEN knownnodes ELSE H.next[n[k - 1]]]
           g == [k \in Nat |-> s[k % (m + 1)]]
<1>1. \A i \in Nat : Nth(H, knownnodes, i) = F[i]
  BY DEF Nth
<1>2. g = [k \in Nat |-> IF k = 0 THEN knownnodes ELSE H.next[g[k - 1]]]
  <2> SUFFICES ASSUME NEW k \in Nat
               PROVE  g[k] = IF k = 0 THEN knownnodes ELSE H.next[g[k - 1]]
    OBVIOUS
  <2>1. CASE k = 0
    <3>1. 0 % (m + 1) = 0
      BY Around
    <3> QED
      BY <2>1, <3>1 DEF Chain
  <2>2. CASE k # 0
    <3> DEFINE i == k - 1
    <3>1. i \in Nat /\ i + 1 = k
      BY <2>2
    <3> HIDE DEF i
    <3>2. g[i] = s[i % (m + 1)] /\ g[k] = s[(i + 1) % (m + 1)]
      BY <3>1
    <3>3. CASE i % (m + 1) = m
      <4>1. (i + 1) % (m + 1) = 0
        BY <3>1, <3>3, Around
      <4> QED
        BY <2>2, <3>2, <3>3, <4>1 DEF Chain, i
    <3>4. CASE i % (m + 1) # m
      <4>1. i % (m + 1) \in 0 .. m
        BY <3>1, Around
      <4> DEFINE r == i % (m + 1)
      <4> HIDE DEF r
      <4>5. r \in 0 .. m - 1 /\ r < m
        BY <3>4, <4>1 DEF r
      <4>6. (i + 1) % (m + 1) = (i % (m + 1)) + 1
        BY <3>1, <4>5, Around DEF r
      <4>2. i % (m + 1) \in 0 .. m - 1 /\ (i + 1) % (m + 1) = (i % (m + 1)) + 1
        BY <4>5, <4>6 DEF r
      <4>3. H.next[s[i % (m + 1)]] = s[(i % (m + 1)) + 1]
        BY <4>2 DEF Chain
      <4> QED
        BY <2>2, <3>2, <4>2, <4>3 DEF i
    <3> QED
      BY <3>3, <3>4
  <2> QED
    BY <2>1, <2>2
<1>3. F = [k \in Nat |-> IF k = 0 THEN knownnodes ELSE H.next[F[k - 1]]]
  <2> HIDE DEF g
  <2> QED
    BY <1>2
<1> HIDE DEF F
<1>4. F[0] = knownnodes /\ \A k \in Nat : F[k + 1] = H.next[F[k]]
  <2>1. \A k \in Nat : k + 1 \in Nat /\ k + 1 # 0 /\ (k + 1) - 1 = k
    OBVIOUS
  <2> QED
    BY <1>3, <2>1
<1>5. g[0] = knownnodes /\ \A k \in Nat : g[k + 1] = H.next[g[k]]
  <2> HIDE DEF g
  <2>1. \A k \in Nat : k + 1 \in Nat /\ k + 1 # 0 /\ (k + 1) - 1 = k
    OBVIOUS
  <2> QED
    BY <1>2, <2>1
<1>6. \A k \in Nat : F[k] = g[k]
  <2> HIDE DEF g
  <2> SUFFICES ASSUME NEW k0 \in Nat, F[k0] # g[k0]
               PROVE  FALSE
    OBVIOUS
  <2> DEFINE T == {k \in Nat : F[k] # g[k]}
  <2>1. PICK x \in T : \A y \in T : x <= y
    <3>1. T \subseteq Nat /\ T # {}
      OBVIOUS
    <3> HIDE DEF T
    <3> QED
      BY <3>1, LeastElement
  <2>2. x # 0 /\ x \in Nat
    BY <1>4, <1>5
  <2>3. x - 1 \in Nat /\ (x - 1) + 1 = x /\ ~(x <= x - 1)
    BY <2>2
  <2>4. F[x - 1] = g[x - 1]
    BY <2>1, <2>3
  <2> QED
    BY <1>4, <1>5, <2>3, <2>4
<1> QED
  BY <1>1, <1>6

\* The nodes that cdll_for_each meets, by the place in the list.
LEMMA NthInList ==
    ASSUME NEW H, NEW m \in Nat, NEW s, Chain(H, m, s)
    PROVE  /\ \A k \in 0 .. m : Nth(H, knownnodes, k) = s[k]
           /\ \A k \in Nat : \E i \in 0 .. m : Nth(H, knownnodes, k) = s[i]
<1>1. \A k \in Nat : Nth(H, knownnodes, k) = s[k % (m + 1)]
  BY NthOfChain
<1>2. \A k \in Nat : k % (m + 1) \in 0 .. m /\ (k \in 0 .. m => k % (m + 1) = k)
  BY Around
<1>3. \A k \in 0 .. m : k \in Nat
  OBVIOUS
<1>4. \A k \in 0 .. m : Nth(H, knownnodes, k) = s[k]
  BY <1>1, <1>2, <1>3
<1>5. \A k \in Nat : \E i \in 0 .. m : Nth(H, knownnodes, k) = s[i]
  BY <1>1, <1>2
<1> QED
  BY <1>4, <1>5

\* The nodes that cdll_for_each meets.
LEMMA MembersOfChain ==
    ASSUME NEW H \in Heap, NEW m \in 0 .. MaxResults, NEW s, Chain(H, m, s)
    PROVE  Members(H, knownnodes) = {s[i] : i \in 1 .. m}
<1> DEFINE N == Cardinality(DOMAIN H.next)
           V(k) == Nth(H, knownnodes, k)
           F == CHOOSE n : n = [k \in 0 .. N |-> IF k = 0 THEN {} ELSE n[k - 1] \cup {V(k)}]
           g == [k \in 0 .. N |-> {V(j) : j \in 1 .. k}]
<1>1. Members(H, knownnodes) = F[N] \ {knownnodes}
  BY DEF Members
<1>2. N = MaxResults + 1 /\ N \in Nat /\ m < N
  <2>1. DOMAIN H.next = 0 .. MaxResults
    BY DEF Heap, Place
  <2>2. Cardinality(0 .. MaxResults) = MaxResults + 1
    BY Bound, FS_Interval
  <2> QED
    BY <2>1, <2>2, Bound
<1> HIDE DEF N, V
<1>3. g = [k \in 0 .. N |-> IF k = 0 THEN {} ELSE g[k - 1] \cup {V(k)}]
  <2> SUFFICES ASSUME NEW k \in 0 .. N
               PROVE  g[k] = IF k = 0 THEN {} ELSE g[k - 1] \cup {V(k)}
    OBVIOUS
  <2>1. CASE k = 0
    BY <1>2, <2>1
  <2>2. CASE k # 0
    <3>1. k - 1 \in 0 .. N /\ 1 .. k = (1 .. k - 1) \cup {k}
      BY <1>2, <2>2
    <3>2. g[k - 1] = {V(j) : j \in 1 .. k - 1} /\ g[k] = {V(j) : j \in 1 .. k}
      BY <3>1
    <3> QED
      BY <2>2, <3>1, <3>2
  <2> QED
    BY <2>1, <2>2
<1>4. F = [k \in 0 .. N |-> IF k = 0 THEN {} ELSE F[k - 1] \cup {V(k)}]
  <2> HIDE DEF g
  <2> QED
    BY <1>3
<1> HIDE DEF F, g
<1>5. \A k \in 0 .. N : F[k] = g[k]
  <2> SUFFICES ASSUME NEW k0 \in 0 .. N, F[k0] # g[k0]
               PROVE  FALSE
    OBVIOUS
  <2> DEFINE T == {k \in 0 .. N : F[k] # g[k]}
  <2>1. PICK x \in T : \A y \in T : x <= y
    <3>1. T \subseteq Nat /\ T # {}
      BY <1>2
    <3> HIDE DEF T
    <3> QED
      BY <3>1, LeastElement
  <2>2. x # 0 /\ x \in 0 .. N
    BY <1>3, <1>4
  <2>3. x - 1 \in 0 .. N /\ ~(x <= x - 1)
    BY <1>2, <2>2
  <2>4. F[x - 1] = g[x - 1]
    BY <2>1, <2>3
  <2>5. F[x] = F[x - 1] \cup {V(x)}
    BY <1>4, <2>2
  <2>6. g[x] = g[x - 1] \cup {V(x)}
    BY <1>3, <2>2
  <2> QED
    BY <2>1, <2>4, <2>5, <2>6
<1>6. F[N] = {V(j) : j \in 1 .. N}
  BY <1>2, <1>5 DEF g
<1>9. /\ \A k \in 0 .. m : V(k) = s[k]
      /\ \A k \in Nat : \E i \in 0 .. m : V(k) = s[i]
  <2>1. m \in Nat /\ Chain(H, m, s)
    BY Bound
  <2> QED
    BY ONLY <2>1, NthInList DEF V
<1>7. \A i \in 1 .. m : V(i) = s[i] /\ s[i] # knownnodes /\ i \in 1 .. N
  <2> SUFFICES ASSUME NEW i \in 1 .. m
               PROVE  V(i) = s[i] /\ s[i] # knownnodes /\ i \in 1 .. N
    OBVIOUS
  <2>1. i \in 0 .. m /\ 0 \in 0 .. m /\ i # 0 /\ i \in 1 .. N
    BY <1>2, Bound
  <2> QED
    BY <1>9, <2>1 DEF Chain
<1>8. \A j \in 1 .. N : V(j) = knownnodes \/ \E i \in 1 .. m : V(j) = s[i]
  <2> SUFFICES ASSUME NEW j \in 1 .. N
               PROVE  V(j) = knownnodes \/ \E i \in 1 .. m : V(j) = s[i]
    OBVIOUS
  <2>1. PICK i \in 0 .. m : V(j) = s[i]
    BY <1>2, <1>9
  <2> QED
    BY <2>1 DEF Chain
<1> QED
  BY <1>1, <1>6, <1>7, <1>8

-----------------------------------------------------------------------------
(* What the operations of cdll.c leave behind, pointer by pointer *)

\* cdll_init: the node points at itself, the others are left alone.
LEMMA InitNode ==
    ASSUME NEW H \in Heap, NEW n \in Place
    PROVE  /\ cdll_init(H, n) \in Heap
           /\ \A x \in Place : /\ cdll_init(H, n).next[x] = IF x = n THEN n ELSE H.next[x]
                               /\ cdll_init(H, n).prev[x] = IF x = n THEN n ELSE H.prev[x]
  BY DEF Heap, cdll_init

\* cdll_add_node: new is linked in between p and n.
LEMMA AddNode ==
    ASSUME NEW H \in Heap, NEW new \in Place, NEW p \in Place, NEW n \in Place,
           new # p, new # n
    PROVE  LET R == cdll_add_node(H, new, p, n)
           IN  /\ R \in Heap
               /\ \A x \in Place :
                    /\ R.next[x] = IF x = p THEN new ELSE IF x = new THEN n ELSE H.next[x]
                    /\ R.prev[x] = IF x = n THEN new ELSE IF x = new THEN p ELSE H.prev[x]
<1> DEFINE L1 == [H EXCEPT !.prev[n] = new]
           L2 == [L1 EXCEPT !.next[new] = n, !.prev[new] = p]
           R == [L2 EXCEPT !.next[p] = new]
<1>1. /\ L1 \in Heap
      /\ \A x \in Place : /\ L1.next[x] = H.next[x]
                          /\ L1.prev[x] = IF x = n THEN new ELSE H.prev[x]
  BY DEF Heap
<1>2. /\ L2 \in Heap
      /\ \A x \in Place : /\ L2.next[x] = IF x = new THEN n ELSE L1.next[x]
                          /\ L2.prev[x] = IF x = new THEN p ELSE L1.prev[x]
  <2> HIDE DEF L1
  <2> QED
    BY <1>1 DEF Heap
<1>3. /\ R \in Heap
      /\ \A x \in Place : /\ R.next[x] = IF x = p THEN new ELSE L2.next[x]
                          /\ R.prev[x] = L2.prev[x]
  <2> HIDE DEF L2
  <2> QED
    BY <1>2 DEF Heap
<1>4. cdll_add_node(H, new, p, n) = R
  BY DEF cdll_add_node
<1> HIDE DEF L1, L2, R
<1> QED
  BY <1>1, <1>2, <1>3, <1>4

\* cdll_delete_node: the neighbours of n are linked to each other, n to itself.
LEMMA DeleteNode ==
    ASSUME NEW H \in Heap, NEW n \in Place, H.next[n] # n, H.prev[n] # n
    PROVE  LET R == cdll_delete_node(H, n)
           IN  /\ R \in Heap
               /\ \A x \in Place :
                    /\ R.next[x] = IF x = n THEN n
                                   ELSE IF x = H.prev[n] THEN H.next[n] ELSE H.next[x]
                    /\ R.prev[x] = IF x = n THEN n
                                   ELSE IF x = H.next[n] THEN H.prev[n] ELSE H.prev[x]
<1> DEFINE p == H.prev[n]
           q == H.next[n]
           L1 == [H EXCEPT !.next[p] = q]
           L2 == [L1 EXCEPT !.prev[L1.next[n]] = L1.prev[n]]
<1>1. p \in Place /\ q \in Place /\ p # n /\ q # n
  BY DEF Heap
<1> HIDE DEF p, q
<1>2. /\ L1 \in Heap
      /\ \A x \in Place : /\ L1.next[x] = IF x = p THEN q ELSE H.next[x]
                          /\ L1.prev[x] = H.prev[x]
  BY <1>1 DEF Heap
<1>3. cdll_delete_node(H, n) = cdll_init(L2, n)
  BY DEF cdll_delete_node, p, q
<1> HIDE DEF L1
<1>4. L1.next[n] = q /\ L1.prev[n] = p
  BY <1>1, <1>2 DEF p, q
<1>5. /\ L2 \in Heap
      /\ \A x \in Place : /\ L2.next[x] = L1.next[x]
                          /\ L2.prev[x] = IF x = q THEN p ELSE L1.prev[x]
  BY <1>1, <1>2, <1>4 DEF Heap
<1> HIDE DEF L2
<1>6. /\ cdll_init(L2, n) \in Heap
      /\ \A x \in Place : /\ cdll_init(L2, n).next[x] = IF x = n THEN n ELSE L2.next[x]
                          /\ cdll_init(L2, n).prev[x] = IF x = n THEN n ELSE L2.prev[x]
  BY <1>5, InitNode
<1> QED
  BY <1>2, <1>3, <1>5, <1>6 DEF p, q

\* Following the pointers of a list back and forth.
LEMMA ChainLinked ==
    ASSUME NEW H \in Heap, NEW m \in Nat, NEW s, Chain(H, m, s)
    PROVE  Linked(H)
<1> SUFFICES ASSUME NEW n \in Place
             PROVE  H.prev[H.next[n]] = n /\ H.next[H.prev[n]] = n
  BY DEF Linked, Heap
<1>1. CASE \A i \in 0 .. m : s[i] # n
  BY <1>1 DEF Chain
<1>2. CASE \E i \in 0 .. m : s[i] = n
  <2>1. PICK i \in 0 .. m : s[i] = n
    BY <1>2
  <2>2. H.prev[H.next[n]] = n
    <3>1. CASE i = m
      BY <2>1, <3>1 DEF Chain
    <3>2. CASE i # m
      <4>1. i \in 0 .. m - 1
        BY <3>2
      <4> QED
        BY <2>1, <4>1 DEF Chain
    <3> QED
      BY <3>1, <3>2
  <2>3. H.next[H.prev[n]] = n
    <3>1. CASE i = 0
      BY <2>1, <3>1 DEF Chain
    <3>2. CASE i # 0
      <4>1. i - 1 \in 0 .. m - 1 /\ (i - 1) + 1 = i
        BY <3>2
      <4>2. H.next[s[i - 1]] = s[i] /\ H.prev[s[i]] = s[i - 1]
        BY <4>1 DEF Chain
      <4> QED
        BY <2>1, <4>2
    <3> QED
      BY <3>1, <3>2
  <2> QED
    BY <2>2, <2>3
<1> QED
  BY <1>1, <1>2

-----------------------------------------------------------------------------
(* The list after the operations *)

\* The sequence of nodes after an insertion at the tail, after the deletion of the
\* first node, and after a swap of the nodes at p and p + 1.
Longer(s, m, n) == [i \in 0 .. m + 1 |-> IF i = m + 1 THEN n ELSE s[i]]
Shorter(s, m) == [i \in 0 .. m - 1 |-> IF i = 0 THEN knownnodes ELSE s[i + 1]]
Exchanged(s, m, p) ==
    [i \in 0 .. m |-> IF i = p THEN s[p + 1] ELSE IF i = p + 1 THEN s[p] ELSE s[i]]

\* scan_find_all_ssids: initialising the head of an empty list keeps it empty.
LEMMA EmptyList ==
    ASSUME NEW H \in Heap, NEW s, Chain(H, 0, s)
    PROVE  cdll_init(H, knownnodes) \in Heap /\ Chain(cdll_init(H, knownnodes), 0, s)
<1>1. knownnodes \in Place
  BY Bound
<1>2. H.next[knownnodes] = knownnodes /\ H.prev[knownnodes] = knownnodes
  BY DEF Chain
<1> DEFINE R == cdll_init(H, knownnodes)
<1>3. R \in Heap /\ \A x \in Place : R.next[x] = H.next[x] /\ R.prev[x] = H.prev[x]
  BY <1>1, <1>2, InitNode
<1> HIDE DEF R
<1>4. \A i \in 0 .. 0 : s[i] \in Place
  BY DEF Chain
<1>5. Chain(R, 0, s)
  BY <1>1, <1>3, <1>4 DEF Chain
<1> QED
  BY <1>3, <1>5 DEF R

\* scan_all_result: a new node at the tail.
LEMMA InsertTail ==
    ASSUME NEW H \in Heap, NEW m \in Nat, NEW s, Chain(H, m, s),
           NEW n \in Place, \A i \in 0 .. m : s[i] # n
    PROVE  LET R == cdll_insert_node_tail(cdll_init(H, n), n, knownnodes)
           IN  R \in Heap /\ Chain(R, m + 1, Longer(s, m, n))
<1> DEFINE I == cdll_init(H, n)
           t == s[m]
           R == cdll_add_node(I, n, t, knownnodes)
           u == Longer(s, m, n)
<1>1. knownnodes \in Place /\ t \in Place /\ n # t /\ n # knownnodes
  BY Bound DEF Chain
<1>2. I \in Heap /\ \A x \in Place : /\ I.next[x] = IF x = n THEN n ELSE H.next[x]
                                     /\ I.prev[x] = IF x = n THEN n ELSE H.prev[x]
  BY InitNode
<1>3. I.prev[knownnodes] = t
  BY <1>1, <1>2 DEF Chain
<1>4. cdll_insert_node_tail(cdll_init(H, n), n, knownnodes) = R
  BY <1>3 DEF cdll_insert_node_tail
<1> HIDE DEF I, t
<1>5. /\ R \in Heap
      /\ \A x \in Place :
            /\ R.next[x] = IF x = t THEN n ELSE IF x = n THEN knownnodes ELSE I.next[x]
            /\ R.prev[x] = IF x = knownnodes THEN n ELSE IF x = n THEN t ELSE I.prev[x]
  BY <1>1, <1>2, AddNode
<1>6. \A x \in Place :
            /\ R.next[x] = IF x = t THEN n ELSE IF x = n THEN knownnodes ELSE H.next[x]
            /\ R.prev[x] = IF x = knownnodes THEN n ELSE IF x = n THEN t ELSE H.prev[x]
  BY <1>2, <1>5
<1> HIDE DEF R
<1>7. /\ u[m + 1] = n
      /\ \A i \in 0 .. m : u[i] = s[i] /\ i \in 0 .. m + 1
  BY DEF Longer
<1>8. \A i \in 0 .. m + 1 : i = m + 1 \/ i \in 0 .. m
  OBVIOUS
<1>9. /\ \A i \in 0 .. m : s[i] \in Place /\ s[i] # n
      /\ s[0] = knownnodes /\ 0 \in 0 .. m /\ m \in 0 .. m
      /\ \A i, j \in 0 .. m : s[i] = s[j] => i = j
  BY DEF Chain
<1>10. u \in [0 .. m + 1 -> Place] /\ u[0] = knownnodes
  BY <1>7, <1>9 DEF Longer
<1>11. \A i, j \in 0 .. m + 1 : u[i] = u[j] => i = j
  BY <1>7, <1>8, <1>9
<1>12. \A i \in 0 .. (m + 1) - 1 : R.next[u[i]] = u[i + 1] /\ R.prev[u[i + 1]] = u[i]
  <2> SUFFICES ASSUME NEW i \in 0 .. m
               PROVE  R.next[u[i]] = u[i + 1] /\ R.prev[u[i + 1]] = u[i]
    OBVIOUS
  <2>1. CASE i = m
    BY <1>1, <1>6, <1>7, <2>1 DEF t
  <2>2. CASE i # m
    <3>1. i \in 0 .. m - 1 /\ i + 1 \in 0 .. m /\ i + 1 # 0
      BY <2>2
    <3>2. u[i] = s[i] /\ u[i + 1] = s[i + 1]
      BY <1>7, <3>1
    <3>3. s[i] # t /\ s[i + 1] # knownnodes
      BY <1>9, <2>2, <3>1 DEF t
    <3>4. H.next[s[i]] = s[i + 1] /\ H.prev[s[i + 1]] = s[i]
      BY <3>1 DEF Chain
    <3> QED
      BY <1>6, <1>9, <3>1, <3>2, <3>3, <3>4
  <2> QED
    BY <2>1, <2>2
<1>13. R.next[u[m + 1]] = knownnodes /\ R.prev[knownnodes] = u[m + 1]
  BY <1>1, <1>6, <1>7
<1>14. \A x \in Place : (\A i \in 0 .. m + 1 : u[i] # x) => R.next[x] = x /\ R.prev[x] = x
  <2> SUFFICES ASSUME NEW x \in Place, \A i \in 0 .. m + 1 : u[i] # x
               PROVE  R.next[x] = x /\ R.prev[x] = x
    OBVIOUS
  <2>1. x # n /\ \A i \in 0 .. m : s[i] # x
    <3>1. m + 1 \in 0 .. m + 1
      OBVIOUS
    <3> QED
      BY <1>7, <3>1
  <2>2. x # t /\ x # knownnodes
    BY <1>9, <2>1 DEF t
  <2>3. H.next[x] = x /\ H.prev[x] = x
    BY <2>1 DEF Chain
  <2> QED
    BY <1>6, <2>1, <2>2, <2>3
<1>15. Chain(R, m + 1, u)
  <2> HIDE DEF u
  <2> QED
    BY <1>10, <1>11, <1>12, <1>13, <1>14 DEF Chain
<1> QED
  BY <1>4, <1>5, <1>15

\* removelist: the first node is taken out.
LEMMA DeleteFirst ==
    ASSUME NEW H \in Heap, NEW m \in Nat, m >= 1, NEW s, Chain(H, m, s)
    PROVE  /\ cdll_delete_node(H, s[1]) \in Heap
           /\ Chain(cdll_delete_node(H, s[1]), m - 1, Shorter(s, m))
<1> DEFINE n == s[1]
           q == H.next[n]
           R == cdll_delete_node(H, n)
           u == Shorter(s, m)
<1>1. /\ \A i \in 0 .. m : s[i] \in Place
      /\ s[0] = knownnodes /\ 0 \in 0 .. m /\ 1 \in 0 .. m /\ m \in 0 .. m
      /\ \A i, j \in 0 .. m : s[i] = s[j] => i = j
      /\ \A i \in 0 .. m - 1 : H.next[s[i]] = s[i + 1] /\ H.prev[s[i + 1]] = s[i]
      /\ H.next[s[m]] = knownnodes /\ H.prev[knownnodes] = s[m]
  BY DEF Chain
<1>2. n \in Place /\ n # knownnodes /\ knownnodes \in Place
  BY <1>1
<1>3. H.prev[n] = knownnodes
  <2>1. 0 \in 0 .. m - 1 /\ 0 + 1 = 1
    OBVIOUS
  <2> QED
    BY <1>1, <2>1
<1>4. q = IF m = 1 THEN knownnodes ELSE s[2]
  <2>1. m # 1 => 1 \in 0 .. m - 1 /\ 1 + 1 = 2
    OBVIOUS
  <2> QED
    BY <1>1, <2>1
<1>5. q # n
  <2>1. m # 1 => 2 \in 0 .. m /\ 1 # 2
    OBVIOUS
  <2> QED
    BY <1>1, <1>2, <1>4, <2>1
<1>6. /\ R \in Heap
      /\ \A x \in Place :
            /\ R.next[x] = IF x = n THEN n ELSE IF x = knownnodes THEN q ELSE H.next[x]
            /\ R.prev[x] = IF x = n THEN n ELSE IF x = q THEN knownnodes ELSE H.prev[x]
  BY <1>2, <1>3, <1>5, DeleteNode
<1> HIDE DEF R, q
<1>7. /\ u[0] = knownnodes
      /\ \A i \in 1 .. m - 1 : u[i] = s[i + 1] /\ i \in 0 .. m - 1 /\ i + 1 \in 0 .. m /\ i + 1 # 0 /\ i + 1 # 1
      /\ \A i \in 0 .. m - 1 : i = 0 \/ i \in 1 .. m - 1
  BY DEF Shorter
<1>8. u \in [0 .. m - 1 -> Place]
  BY <1>1, <1>7 DEF Shorter
<1>9. \A i \in 1 .. m - 1 : u[i] # knownnodes /\ u[i] # n /\ u[i] \in Place
  BY <1>1, <1>7
<1>10. \A i, j \in 0 .. m - 1 : u[i] = u[j] => i = j
  <2> SUFFICES ASSUME NEW i \in 0 .. m - 1, NEW j \in 0 .. m - 1, u[i] = u[j]
               PROVE  i = j
    OBVIOUS
  <2>1. CASE i = 0 \/ j = 0
    BY <1>7, <1>9, <2>1
  <2>2. CASE i # 0 /\ j # 0
    <3>1. i + 1 = j + 1
      BY <1>1, <1>7, <2>2
    <3> QED
      BY <3>1
  <2> QED
    BY <2>1, <2>2
<1>11. \A i \in 0 .. (m - 1) - 1 : R.next[u[i]] = u[i + 1] /\ R.prev[u[i + 1]] = u[i]
  <2> SUFFICES ASSUME NEW i \in 0 .. (m - 1) - 1
               PROVE  R.next[u[i]] = u[i + 1] /\ R.prev[u[i + 1]] = u[i]
    OBVIOUS
  <2>1. i + 1 \in 1 .. m - 1 /\ m # 1 /\ (i + 1) + 1 \in 0 .. m /\ i + 1 \in 0 .. m - 1
    OBVIOUS
  <2>2. CASE i = 0
    <3>1. u[i + 1] = q
      BY <1>4, <1>7, <2>1, <2>2
    <3> QED
      BY <1>2, <1>5, <1>6, <1>7, <1>9, <2>1, <2>2, <3>1
  <2>3. CASE i # 0
    <3>1. i \in 1 .. m - 1
      BY <2>3
    <3>2. u[i] = s[i + 1] /\ u[i + 1] = s[(i + 1) + 1]
      BY <1>7, <2>1, <3>1
    <3>3. H.next[u[i]] = u[i + 1] /\ H.prev[u[i + 1]] = u[i]
      BY <1>1, <2>1, <3>2
    <3>4. u[i + 1] # q
      <4>1. 2 \in 0 .. m /\ (i + 1) + 1 # 2
        BY <2>3
      <4> QED
        BY <1>1, <1>4, <2>1, <3>2, <4>1
    <3> QED
      BY <1>6, <1>9, <2>1, <3>1, <3>3, <3>4
  <2> QED
    BY <2>2, <2>3
<1>12. R.next[u[m - 1]] = knownnodes /\ R.prev[knownnodes] = u[m - 1]
  <2>1. CASE m = 1
    BY <1>2, <1>4, <1>6, <1>7, <2>1
  <2>2. CASE m # 1
    <3>1. m - 1 \in 1 .. m - 1 /\ (m - 1) + 1 = m /\ 2 \in 0 .. m
      BY <2>2
    <3>2. u[m - 1] = s[m]
      BY <1>7, <3>1
    <3>3. q # knownnodes
      BY <1>1, <1>4, <2>2, <3>1
    <3> QED
      BY <1>1, <1>2, <1>6, <1>9, <3>1, <3>2, <3>3
  <2> QED
    BY <2>1, <2>2
<1>13. \A x \in Place : (\A i \in 0 .. m - 1 : u[i] # x) => R.next[x] = x /\ R.prev[x] = x
  <2> SUFFICES ASSUME NEW x \in Place, \A i \in 0 .. m - 1 : u[i] # x
               PROVE  R.next[x] = x /\ R.prev[x] = x
    OBVIOUS
  <2>1. CASE x = n
    BY <1>6, <2>1
  <2>2. CASE x # n
    <3>1. x # knownnodes
      <4>1. 0 \in 0 .. m - 1
        OBVIOUS
      <4> QED
        BY <1>7, <4>1
    <3>2. \A i \in 0 .. m : s[i] # x
      <4> SUFFICES ASSUME NEW i \in 0 .. m
                   PROVE  s[i] # x
        OBVIOUS
      <4>1. i = 0 \/ i = 1 \/ (i - 1 \in 1 .. m - 1 /\ (i - 1) + 1 = i)
        OBVIOUS
      <4> QED
        BY <1>1, <1>7, <2>2, <3>1, <4>1
    <3>3. H.next[x] = x /\ H.prev[x] = x
      BY <3>2 DEF Chain
    <3>4. x # q
      <4>1. m # 1 => 2 \in 0 .. m
        OBVIOUS
      <4> QED
        BY <1>4, <3>1, <3>2, <4>1
    <3> QED
      BY <1>6, <2>2, <3>1, <3>3, <3>4
  <2> QED
    BY <2>1, <2>2
<1>14. Chain(R, m - 1, u)
  <2> HIDE DEF u
  <2> QED
    BY <1>7, <1>8, <1>10, <1>11, <1>12, <1>13 DEF Chain
<1> QED
  BY <1>6, <1>14 DEF R

\* bubblesort: the nodes at p and p + 1 change places.
LEMMA SwapNodes ==
    ASSUME NEW H \in Heap, NEW m \in Nat, NEW s, Chain(H, m, s), NEW p \in 1 .. m - 1
    PROVE  LET R == cdll_swap_nodes(H, s[p], s[p + 1])
           IN  R \in Heap /\ Chain(R, m, Exchanged(s, m, p))
<1> DEFINE w == s[p - 1]
           x == s[p]
           y == s[p + 1]
           z == IF p + 1 = m THEN knownnodes ELSE s[p + 2]
           D == cdll_delete_node(H, y)
           R == cdll_add_node(D, y, w, x)
           u == Exchanged(s, m, p)
<1>1. /\ \A i \in 0 .. m : s[i] \in Place
      /\ s[0] = knownnodes
      /\ \A i, j \in 0 .. m : s[i] = s[j] => i = j
      /\ \A i \in 0 .. m - 1 : H.next[s[i]] = s[i + 1] /\ H.prev[s[i + 1]] = s[i]
      /\ H.next[s[m]] = knownnodes /\ H.prev[knownnodes] = s[m]
  BY DEF Chain
<1>2. /\ p \in Int /\ 0 \in 0 .. m /\ p - 1 \in 0 .. m - 1 /\ p - 1 \in 0 .. m /\ p \in 0 .. m /\ p \in 0 .. m - 1
      /\ p + 1 \in 0 .. m /\ (p - 1) + 1 = p /\ p # 0 /\ p + 1 # 0 /\ m \in 0 .. m
      /\ p - 1 # p /\ p - 1 # p + 1 /\ p # p + 1
      /\ p + 1 # m => p + 1 \in 0 .. m - 1 /\ p + 2 \in 0 .. m /\ (p + 1) + 1 = p + 2 /\ p + 2 # 0
      /\ p + 2 # p /\ p + 2 # p + 1 /\ p + 2 # p - 1
  OBVIOUS
<1>3. /\ w \in Place /\ x \in Place /\ y \in Place /\ z \in Place /\ knownnodes \in Place
      /\ w # x /\ w # y /\ x # y /\ z # x /\ z # y /\ x # knownnodes /\ y # knownnodes
  BY <1>1, <1>2
<1>4. H.next[w] = x /\ H.prev[x] = w /\ H.next[x] = y /\ H.prev[y] = x /\ H.next[y] = z /\ H.prev[z] = y
  BY <1>1, <1>2
<1>5. z # knownnodes <=> p + 1 # m
  BY <1>1, <1>2
<1> HIDE DEF w, x, y, z
<1>6. /\ D \in Heap
      /\ \A v \in Place :
            /\ D.next[v] = IF v = y THEN y ELSE IF v = x THEN z ELSE H.next[v]
            /\ D.prev[v] = IF v = y THEN y ELSE IF v = z THEN x ELSE H.prev[v]
  BY <1>3, <1>4, DeleteNode
<1>7. cdll_swap_nodes(H, s[p], s[p + 1]) = R
  BY <1>3, <1>4, <1>6 DEF cdll_swap_nodes, cdll_insert_node_tail, x, y
<1> HIDE DEF D
<1>8. /\ R \in Heap
      /\ \A v \in Place :
            /\ R.next[v] = IF v = w THEN y ELSE IF v = y THEN x ELSE D.next[v]
            /\ R.prev[v] = IF v = x THEN y ELSE IF v = y THEN w ELSE D.prev[v]
  <2>1. D \in Heap /\ y \in Place /\ w \in Place /\ x \in Place /\ y # w /\ y # x
    BY <1>3, <1>6
  <2> QED
    BY ONLY <2>1, AddNode
<1> HIDE DEF R
<1>9. /\ R.next[w] = y /\ R.next[y] = x /\ R.next[x] = z
      /\ R.prev[x] = y /\ R.prev[y] = w /\ R.prev[z] = x
      /\ \A v \in Place : /\ v \notin {w, x, y} => R.next[v] = H.next[v]
                          /\ v \notin {x, y, z} => R.prev[v] = H.prev[v]
  BY <1>3, <1>6, <1>8
<1>10. /\ u[p] = y /\ u[p + 1] = x
       /\ \A i \in 0 .. m : i # p /\ i # p + 1 => u[i] = s[i]
  BY <1>2 DEF Exchanged, x, y
<1>11. u \in [0 .. m -> Place] /\ u[0] = knownnodes
  BY <1>1, <1>2 DEF Exchanged
<1> HIDE DEF u
<1>12. \A i, j \in 0 .. m : u[i] = u[j] => i = j
  BY <1>1, <1>2, <1>10 DEF x, y
<1>13. ASSUME NEW i \in 0 .. m - 1
       PROVE  R.next[u[i]] = u[i + 1] /\ R.prev[u[i + 1]] = u[i]
  <2>1. CASE i = p - 1
    BY <1>2, <1>9, <1>10, <2>1 DEF w
  <2>2. CASE i = p
    BY <1>9, <1>10, <2>2
  <2>3. CASE i = p + 1
    <3>1. p + 1 # m
      BY <2>3
    <3>2. u[p + 2] = z
      BY <1>2, <1>10, <3>1 DEF z
    <3> QED
      BY <1>2, <1>9, <1>10, <2>3, <3>1, <3>2
  <2>4. CASE i \notin {p - 1, p, p + 1}
    <3>1. i \in 0 .. m /\ i + 1 \in 0 .. m /\ i + 1 \notin {0, p, p + 1, p + 2}
      BY <2>4
    <3>2. u[i] = s[i] /\ u[i + 1] = s[i + 1]
      BY <1>10, <2>4, <3>1
    <3>3. s[i] \notin {w, x, y}
      BY <1>1, <1>2, <2>4, <3>1 DEF w, x, y
    <3>4. s[i + 1] \notin {x, y, z}
      BY <1>1, <1>2, <3>1 DEF x, y, z
    <3>5. H.next[s[i]] = s[i + 1] /\ H.prev[s[i + 1]] = s[i] /\ s[i] \in Place /\ s[i + 1] \in Place
      BY <1>1, <3>1
    <3> QED
      BY <1>9, <3>2, <3>3, <3>4, <3>5
  <2> QED
    BY <2>1, <2>2, <2>3, <2>4
<1>14. R.next[u[m]] = knownnodes /\ R.prev[knownnodes] = u[m]
  <2>1. CASE p + 1 = m
    BY <1>5, <1>9, <1>10, <2>1
  <2>2. CASE p + 1 # m
    <3>1. m # p /\ m # p - 1
      OBVIOUS
    <3>2. u[m] = s[m] /\ s[m] \notin {w, x, y} /\ s[m] \in Place
      BY <1>1, <1>2, <1>10, <2>2, <3>1 DEF w, x, y
    <3> QED
      BY <1>1, <1>3, <1>5, <1>9, <2>2, <3>2
  <2> QED
    BY <2>1, <2>2
<1>15. \A v \in Place : (\A i \in 0 .. m : u[i] # v) => R.next[v] = v /\ R.prev[v] = v
  <2> SUFFICES ASSUME NEW v \in Place, \A i \in 0 .. m : u[i] # v
               PROVE  R.next[v] = v /\ R.prev[v] = v
    OBVIOUS
  <2>1. v # x /\ v # y
    BY <1>2, <1>10
  <2>2. \A i \in 0 .. m : s[i] # v
    BY <1>10, <2>1 DEF x, y
  <2>3. v # w /\ v # z
    BY <1>1, <1>2, <2>2 DEF w, z
  <2>4. H.next[v] = v /\ H.prev[v] = v
    BY <2>2 DEF Chain
  <2> QED
    BY <1>9, <2>1, <2>3, <2>4
<1>16. Chain(R, m, u)
  BY <1>11, <1>12, <1>13, <1>14, <1>15 DEF Chain
<1> QED
  BY <1>7, <1>8, <1>16 DEF u

-----------------------------------------------------------------------------
(* The invariant *)

Entry == [ssid : Ssid, rssi : Int, found : BOOLEAN]

TypeInv ==
    /\ L \in Heap
    /\ mem \in [Node -> Entry \cup {Free}]
    /\ pc \in {"outer", "scan", "sort", "sorted", "remove"}
    /\ sort \in [curr : Place, last : Place, swapped : BOOLEAN]
    /\ results \in Nat
    /\ strongest \in [Ssid -> Int]
    /\ picked \in Seq(Node)

\* The nodes from position a to position b of the list s are in order of strength.
Ordered(s, a, b) == \A i, j \in a .. b : i < j => mem[s[i]].rssi >= mem[s[j]].rssi

\* bubblesort: curr is at p and last at q, which may be the end.  The nodes from q on
\* are where they belong, curr is the weakest up to its place, and as long as nothing
\* was swapped the nodes up to curr are in order.
Bubbling(m, s) ==
    \E p \in 1 .. m, q \in 2 .. m + 1 :
        /\ p < q
        /\ sort.curr = s[p]
        /\ sort.last = IF q = m + 1 THEN knownnodes ELSE s[q]
        /\ \A i \in 1 .. m, j \in q .. m : i < j => mem[s[i]].rssi >= mem[s[j]].rssi
        /\ \A i \in 1 .. p : mem[s[i]].rssi >= mem[s[p]].rssi
        /\ IF sort.swapped THEN p >= 2 ELSE Ordered(s, 1, p)

\* The list holds the allocated nodes, s[1] to s[m], and what is true of it where main is.
Shape(m, s) ==
    /\ Chain(L, m, s)
    /\ Listed = {s[i] : i \in 1 .. m}
    /\ pc = "outer" => m = 0
    /\ pc = "scan" => m <= results
    /\ pc = "sort" => Bubbling(m, s)
    /\ pc = "sorted" => Ordered(s, 1, m)
ListInv == \E m \in 0 .. MaxResults : \E s \in [0 .. m -> Place] : Shape(m, s)

\* What the scan has heard.
HeardInv ==
    /\ \A n, k \in Listed : mem[n].ssid = mem[k].ssid => n = k
    /\ pc = "scan" => /\ results <= MaxResults
                      /\ \A t \in Ssid : (\A n \in Listed : mem[n].ssid # t) => strongest[t] = Unheard

\* A node that main was given is listed, marked, and at least as strong as what main
\* may still get; main got the nodes in order and each of them once.
PickInv ==
    /\ pc \in {"outer", "scan", "sort"} => picked = <<>>
    /\ pc = "sorted" =>
        /\ \A k \in DOMAIN picked :
            /\ picked[k] \in Listed /\ mem[picked[k]].found
            /\ \A n \in Listed : ~mem[n].found /\ mem[n].ssid \in known
                                    => mem[picked[k]].rssi >= mem[n].rssi
        /\ \A k, l \in DOMAIN picked :
            k < l => picked[k] # picked[l] /\ mem[picked[k]].rssi >= mem[picked[l]].rssi

Inv == TypeInv /\ ListInv /\ HeardInv /\ StrongestKept /\ PickInv

\* Allocated memory is not free memory.
LEMMA EntryNotFree == \A e \in Entry : e # Free
<1> SUFFICES ASSUME NEW e \in Entry, e = Free
             PROVE  FALSE
  OBVIOUS
<1>1. DOMAIN e = {"ssid", "rssi", "found"}
  BY DEF Entry
<1>2. DOMAIN e = {"ssid"}
  BY DEF Free
<1> QED
  BY <1>1, <1>2

\* The positions of a list and its nodes.
LEMMA Positions ==
    ASSUME NEW m \in 0 .. MaxResults, NEW s, Chain(L, m, s), Listed = {s[i] : i \in 1 .. m},
           L \in Heap, mem \in [Node -> Entry \cup {Free}]
    PROVE  /\ m \in Nat /\ \A i \in 1 .. m : i \in 0 .. m
           /\ \A i \in 1 .. m : s[i] \in Listed /\ s[i] \in Node /\ s[i] # knownnodes /\ mem[s[i]] \in Entry
           /\ \A n \in Listed : n \in Node /\ mem[n] \in Entry /\ \E i \in 1 .. m : n = s[i]
           /\ Members(L, knownnodes) = Listed
           /\ Cardinality(Listed) = m
           /\ \A i \in 1 .. m : Nth(L, knownnodes, i) = s[i]
<1>1. m \in Nat /\ \A i \in 1 .. m : i \in 0 .. m
  BY Bound
<1>2. \A n \in Listed : n \in Node /\ mem[n] \in Entry
  BY DEF Listed
<1>3. \A i \in 1 .. m : s[i] \in Listed
  OBVIOUS
<1>4. \A n \in Listed : \E i \in 1 .. m : n = s[i]
  OBVIOUS
<1>5. \A n \in Node : n # knownnodes
  BY Bound DEF knownnodes
<1>6. Members(L, knownnodes) = Listed
  BY MembersOfChain
<1>7. Cardinality(Listed) = m
  <2> DEFINE f == [i \in 1 .. m |-> s[i]]
  <2>1. f \in Bijection(1 .. m, Listed)
    <3>1. f \in [1 .. m -> Listed]
      BY <1>3
    <3>2. \A i, j \in 1 .. m : f[i] = f[j] => i = j
      BY <1>1 DEF Chain
    <3>3. \A n \in Listed : \E i \in 1 .. m : f[i] = n
      BY <1>4
    <3> HIDE DEF f
    <3> QED
      BY <3>1, <3>2, <3>3 DEF Bijection, Injection, Surjection, IsInjective
  <2>2. ExistsBijection(1 .. m, Listed)
    <3> HIDE DEF f
    <3> QED
      BY <2>1 DEF ExistsBijection
  <2>3. IsFiniteSet(1 .. m) /\ Cardinality(1 .. m) = m
    BY <1>1, FS_Interval
  <2> QED
    BY ONLY <2>2, <2>3, FS_Bijection
<1>8. \A i \in 1 .. m : Nth(L, knownnodes, i) = s[i]
  <2>1. Chain(L, m, s)
    OBVIOUS
  <2>2. \A k \in 0 .. m : Nth(L, knownnodes, k) = s[k]
    BY ONLY <1>1, <2>1, NthInList
  <2> QED
    BY <1>1, <2>2
<1> QED
  BY <1>1, <1>2, <1>3, <1>4, <1>5, <1>6, <1>7, <1>8

\* The first place with a property.
LEMMA FirstPlace ==
    ASSUME NEW S, S \subseteq Nat, S # {}
    PROVE  Min(S) \in S /\ \A i \in S : Min(S) <= i
<1>1. \E x \in S : \A y \in S : x <= y
  BY LeastElement
<1> QED
  BY <1>1 DEF Min

\* The larger of two numbers.
LEMMA MaxOfTwo ==
    ASSUME NEW x \in Int, NEW y \in Int
    PROVE  Max({x, y}) = IF x >= y THEN x ELSE y
  BY DEF Max

\* At start-up the list is empty and nothing was heard or picked.
LEMMA InitInv == Init => Inv
<1> SUFFICES ASSUME Init
             PROVE  Inv
  OBVIOUS
<1> USE DEF Init
<1>1. Listed = {}
  BY DEF Listed
<1>2. TypeInv
  <2>1. L \in Heap
    BY Bound DEF Heap
  <2>2. mem \in [Node -> Entry \cup {Free}]
    OBVIOUS
  <2>3. sort \in [curr : Place, last : Place, swapped : BOOLEAN]
    BY Bound DEF Idle
  <2>4. strongest \in [Ssid -> Int]
    BY DEF Unheard
  <2>5. picked \in Seq(Node) /\ results \in Nat
    OBVIOUS
  <2> QED
    BY <2>1, <2>2, <2>3, <2>4, <2>5 DEF TypeInv
<1>3. ListInv
  <2> DEFINE s == [i \in 0 .. 0 |-> knownnodes]
  <2>1. s \in [0 .. 0 -> Place] /\ s[0] = knownnodes /\ \A i \in 0 .. 0 : i = 0
    BY Bound
  <2>2. \A n \in Place : L.next[n] = n /\ L.prev[n] = n
    BY Bound
  <2> HIDE DEF s
  <2>3. Chain(L, 0, s)
    BY <2>1, <2>2, Bound DEF Chain
  <2>4. Shape(0, s)
    BY <1>1, <2>3 DEF Shape
  <2>5. 0 \in 0 .. MaxResults
    BY Bound
  <2> QED
    BY <2>1, <2>4, <2>5 DEF ListInv
<1>4. HeardInv
  BY <1>1 DEF HeardInv
<1>5. StrongestKept
  BY <1>1 DEF StrongestKept
<1>6. PickInv
  BY DEF PickInv
<1> QED
  BY <1>2, <1>3, <1>4, <1>5, <1>6 DEF Inv

\* The invariant holds when nothing that it speaks of has changed.
LEMMA StutterStep == Inv /\ UNCHANGED vars => Inv'
<1> SUFFICES ASSUME Inv, UNCHANGED vars
             PROVE  Inv'
  OBVIOUS
<1>1. Listed' = Listed
  BY DEF Listed, vars
<1>2. TypeInv'
  BY DEF Inv, TypeInv, vars
<1>3. ListInv'
  <2>1. \A m, s : Bubbling(m, s) => Bubbling(m, s)'
    BY DEF Bubbling, Ordered, vars
  <2>2. \A m, s : Ordered(s, 1, m) => Ordered(s, 1, m)'
    BY DEF Ordered, vars
  <2>3. \A m, s : Chain(L, m, s) => Chain(L, m, s)'
    BY DEF Chain, vars
  <2>4. \A m, s : Shape(m, s) => Shape(m, s)'
    BY <1>1, <2>1, <2>2, <2>3 DEF Shape, vars
  <2> QED
    BY <2>4 DEF Inv, ListInv
<1>4. HeardInv' /\ StrongestKept' /\ PickInv'
  BY <1>1 DEF Inv, HeardInv, StrongestKept, PickInv, vars
<1> QED
  BY <1>2, <1>3, <1>4 DEF Inv

\* A scan starts.
LEMMA StartStep ==
    ASSUME Inv, scan_find_all_ssids
    PROVE  Inv'
<1> USE DEF scan_find_all_ssids
<1>1. PICK m \in 0 .. MaxResults : \E s \in [0 .. m -> Place] : Shape(m, s)
  BY DEF Inv, ListInv
<1>2. PICK s \in [0 .. m -> Place] : Shape(m, s)
  BY <1>1
<1>3. m = 0 /\ Chain(L, 0, s) /\ L \in Heap
  BY <1>2 DEF Shape, Inv, TypeInv
<1>4. Listed = {} /\ Listed' = {}
  BY <1>2, <1>3 DEF Shape, Listed
<1>5. L' \in Heap /\ Chain(L', 0, s)
  BY <1>3, EmptyList
<1>6. TypeInv'
  BY <1>5 DEF Inv, TypeInv, Unheard
<1>7. ListInv'
  <2>1. Shape(m, s)'
    BY <1>3, <1>4, <1>5 DEF Shape
  <2> QED
    BY <2>1 DEF ListInv
<1>8. HeardInv' /\ StrongestKept'
  BY <1>4, Bound DEF HeardInv, StrongestKept
<1>9. PickInv'
  BY DEF PickInv, Inv
<1> QED
  BY <1>6, <1>7, <1>8, <1>9 DEF Inv

\* The scan is over.
LEMMA OverStep ==
    ASSUME Inv, ScanOver
    PROVE  Inv'
<1> USE DEF ScanOver
<1>1. PICK m \in 0 .. MaxResults : \E s \in [0 .. m -> Place] : Shape(m, s)
  BY DEF Inv, ListInv
<1>2. PICK s \in [0 .. m -> Place] : Shape(m, s)
  BY <1>1
<1>3. /\ Chain(L, m, s) /\ Listed = {s[i] : i \in 1 .. m} /\ m \in Nat
      /\ L \in Heap /\ mem \in [Node -> Entry \cup {Free}]
  BY <1>2, Bound DEF Shape, Inv, TypeInv
<1>4. Listed' = Listed /\ Chain(L', m, s) /\ pc = "scan" /\ pc' \in {"sort", "sorted"}
  BY <1>3 DEF Listed
<1>5. TypeInv'
  <2>1. knownnodes \in Place /\ L.next[knownnodes] \in Place
    BY <1>3, Bound DEF Heap
  <2>2. sort' \in [curr : Place, last : Place, swapped : BOOLEAN]
    <3>1. sort' = sort \/ sort' = [curr |-> L.next[knownnodes], last |-> knownnodes, swapped |-> FALSE]
      OBVIOUS
    <3>2. [curr |-> L.next[knownnodes], last |-> knownnodes, swapped |-> FALSE]
            \in [curr : Place, last : Place, swapped : BOOLEAN]
      BY <2>1
    <3> QED
      BY <3>1, <3>2 DEF Inv, TypeInv
  <2> QED
    BY <1>4, <2>2 DEF Inv, TypeInv
<1>6. ListInv'
  <2>1. CASE m = 0
    <3>1. cdll_empty(L, knownnodes)
      BY <1>3, <2>1 DEF cdll_empty, Chain
    <3>2. Shape(m, s)'
      BY <1>3, <1>4, <2>1, <3>1 DEF Shape, Ordered
    <3> QED
      BY <3>2 DEF ListInv
  <2>2. CASE m # 0
    <3>1. m >= 1 /\ 0 \in 0 .. m /\ 0 \in 0 .. m - 1 /\ 1 \in 1 .. m /\ 1 \in 0 .. m /\ 0 + 1 = 1
      BY <1>3, <2>2
    <3>2. L.next[knownnodes] = s[1] /\ s[1] # knownnodes
      BY <1>3, <3>1 DEF Chain
    <3>3. pc' = "sort" /\ sort' = [curr |-> s[1], last |-> knownnodes, swapped |-> FALSE]
      BY <3>2 DEF cdll_empty
    <3>4. mem[s[1]].rssi \in Int
      BY <1>3, <3>1, Positions DEF Entry
    <3>5. Bubbling(m, s)'
      <4>1. 1 \in 1 .. m /\ m + 1 \in 2 .. m + 1 /\ 1 < m + 1
        BY <3>1
      <4>2. \A i \in 1 .. 1 : i = 1
        OBVIOUS
      <4>3. \A j \in m + 1 .. m : FALSE
        BY <1>3
      <4>4. Ordered(s, 1, 1)'
        BY <4>2 DEF Ordered
      <4> QED
        BY <3>3, <3>4, <4>1, <4>2, <4>3, <4>4 DEF Bubbling
    <3>6. Shape(m, s)'
      BY <1>3, <1>4, <3>3, <3>5 DEF Shape
    <3> QED
      BY <3>6 DEF ListInv
  <2> QED
    BY <2>1, <2>2
<1>7. HeardInv'
  BY <1>4 DEF HeardInv, Inv
<1>8. StrongestKept'
  BY <1>4 DEF StrongestKept, Inv
<1>9. PickInv'
  BY <1>4 DEF PickInv, Inv
<1> QED
  BY <1>5, <1>6, <1>7, <1>8, <1>9 DEF Inv

\* One comparison of bubblesort, and the swap that follows from it.
LEMMA PairStep ==
    ASSUME Inv, SortPair
    PROVE  Inv'
<1> USE DEF SortPair
<1>1. PICK m \in 0 .. MaxResults : \E s \in [0 .. m -> Place] : Shape(m, s)
  BY DEF Inv, ListInv
<1>2. PICK s \in [0 .. m -> Place] : Shape(m, s)
  BY <1>1
<1>3. /\ Chain(L, m, s) /\ Listed = {s[i] : i \in 1 .. m} /\ m \in Nat
      /\ L \in Heap /\ mem \in [Node -> Entry \cup {Free}]
  BY <1>2, Bound DEF Shape, Inv, TypeInv
<1>4. Listed' = Listed /\ pc = "sort" /\ pc' = "sort" /\ mem' = mem
  BY <1>3 DEF Listed
<1> DEFINE r(i) == mem[s[i]].rssi
<1>5. \A i \in 1 .. m : r(i) \in Int
  BY <1>3, Positions DEF Entry
<1>6. Bubbling(m, s)
  BY <1>2, <1>4 DEF Shape
<1>7. PICK p \in 1 .. m, q \in 2 .. m + 1 :
        /\ p < q
        /\ sort.curr = s[p]
        /\ sort.last = IF q = m + 1 THEN knownnodes ELSE s[q]
        /\ \A i \in 1 .. m, j \in q .. m : i < j => r(i) >= r(j)
        /\ \A i \in 1 .. p : r(i) >= r(p)
        /\ IF sort.swapped THEN p >= 2 ELSE Ordered(s, 1, p)
  BY <1>6 DEF Bubbling
<1> HIDE DEF r
<1>8. p + 1 < q /\ p + 1 \in 1 .. m /\ p \in 0 .. m - 1 /\ p \in 1 .. m - 1 /\ p + 1 \in 0 .. m
  <2>1. CASE p = m
    <3>1. q = m + 1
      BY <1>3, <1>7, <2>1
    <3>2. L.next[sort.curr] = knownnodes
      BY <1>3, <1>7, <2>1 DEF Chain
    <3> QED
      BY <1>7, <3>1, <3>2
  <2>2. CASE p # m
    <3>1. p \in 0 .. m - 1 /\ p \in 1 .. m - 1 /\ p + 1 \in 1 .. m /\ p + 1 \in 0 .. m
      BY <1>3, <2>2
    <3>2. L.next[sort.curr] = s[p + 1]
      BY <1>3, <1>7, <3>1 DEF Chain
    <3>3. q # p + 1
      <4>1. p + 1 # m + 1
        BY <1>3, <2>2
      <4> QED
        BY <1>7, <3>2, <4>1
    <3> QED
      BY <1>3, <1>7, <3>1, <3>3
  <2> QED
    BY <2>1, <2>2
<1>9. L.next[sort.curr] = s[p + 1]
  BY <1>3, <1>7, <1>8 DEF Chain
<1>10. sort \in [curr : Place, last : Place, swapped : BOOLEAN] /\ s[p] \in Place /\ s[p + 1] \in Place
  BY <1>8 DEF Inv, TypeInv
<1>11. r(p) \in Int /\ r(p + 1) \in Int
  BY <1>5, <1>8
<1>12. TypeInv' /\ ListInv'
  <2>1. CASE r(p) < r(p + 1)
    <3> DEFINE u == Exchanged(s, m, p)
    <3>1. compare_rssi(sort.curr, L.next[sort.curr])
      BY <1>7, <1>9, <2>1 DEF compare_rssi, r
    <3>2. L' = cdll_swap_nodes(L, s[p], s[p + 1]) /\ sort' = [sort EXCEPT !.swapped = TRUE]
      BY <1>7, <1>9, <3>1
    <3>3. L' \in Heap /\ Chain(L', m, u)
      BY <1>3, <1>8, <3>2, SwapNodes
    <3>4. sort'.curr = s[p] /\ sort'.last = sort.last /\ sort'.swapped = TRUE
      BY <1>7, <1>10, <3>2
    <3>5. sort' \in [curr : Place, last : Place, swapped : BOOLEAN]
      BY <1>10, <3>2
    <3>6. /\ u[p] = s[p + 1] /\ u[p + 1] = s[p]
          /\ \A i \in 0 .. m : i # p /\ i # p + 1 => u[i] = s[i]
      BY <1>8 DEF Exchanged
    <3>7. u \in [0 .. m -> Place]
      BY <3>3 DEF Chain
    <3> HIDE DEF u
    <3>8. Listed' = {u[i] : i \in 1 .. m}
      <4>1. \A i \in 1 .. m : i \in 0 .. m /\ \E j \in 1 .. m : u[i] = s[j]
        BY <1>3, <1>8, <3>6
      <4>2. \A i \in 1 .. m : \E j \in 1 .. m : s[i] = u[j]
        BY <1>3, <1>8, <3>6
      <4>3. Listed' = {s[i] : i \in 1 .. m}
        BY <1>3, <1>4
      <4>4. ASSUME NEW x \in {s[i] : i \in 1 .. m} PROVE x \in {u[i] : i \in 1 .. m}
        <5>1. PICK i \in 1 .. m : x = s[i]
          OBVIOUS
        <5>2. PICK j \in 1 .. m : s[i] = u[j]
          BY ONLY <4>2, i \in 1 .. m
        <5> QED
          BY ONLY <5>1, <5>2, j \in 1 .. m
      <4>5. ASSUME NEW x \in {u[i] : i \in 1 .. m} PROVE x \in {s[i] : i \in 1 .. m}
        <5>1. PICK i \in 1 .. m : x = u[i]
          OBVIOUS
        <5>2. PICK j \in 1 .. m : u[i] = s[j]
          BY ONLY <4>1, i \in 1 .. m
        <5> QED
          BY ONLY <5>1, <5>2, j \in 1 .. m
      <4> QED
        BY ONLY <4>3, <4>4, <4>5
    <3> DEFINE v(i) == mem[u[i]].rssi
    <3>9. /\ v(p) = r(p + 1) /\ v(p + 1) = r(p)
          /\ \A i \in 1 .. m : i # p /\ i # p + 1 => v(i) = r(i)
      BY <3>6 DEF r
    <3>10. Bubbling(m, u)'
      <4> HIDE DEF v
      <4>1. \A i \in 1 .. m, j \in q .. m : i < j => v(i) >= v(j)
        <5> SUFFICES ASSUME NEW i \in 1 .. m, NEW j \in q .. m, i < j
                     PROVE  v(i) >= v(j)
          OBVIOUS
        <5>1. j # p /\ j # p + 1 /\ j \in 1 .. m /\ p < j /\ p + 1 < j
          BY <1>7, <1>8
        <5>2. v(j) = r(j) /\ r(i) >= r(j) /\ r(p) >= r(j) /\ r(p + 1) >= r(j)
          BY <1>7, <1>8, <3>9, <5>1
        <5> QED
          BY <3>9, <5>2
      <4>2. \A i \in 1 .. p + 1 : v(i) >= v(p + 1)
        <5> SUFFICES ASSUME NEW i \in 1 .. p + 1
                     PROVE  v(i) >= v(p + 1)
          OBVIOUS
        <5>1. i = p \/ i = p + 1 \/ (i \in 1 .. p /\ i # p /\ i # p + 1 /\ i \in 1 .. m)
          BY <1>8
        <5> QED
          BY <1>7, <1>11, <2>1, <3>9, <5>1
      <4>3. sort'.last = IF q = m + 1 THEN knownnodes ELSE u[q]
        <5>1. q # m + 1 => q \in 0 .. m /\ q # p /\ q # p + 1
          BY <1>3, <1>8
        <5> QED
          BY <1>7, <3>4, <3>6, <5>1
      <4>4. p + 1 \in 1 .. m /\ q \in 2 .. m + 1 /\ p + 1 < q /\ p + 1 >= 2
        BY <1>7, <1>8
      <4> QED
        BY <1>4, <3>4, <3>6, <4>1, <4>2, <4>3, <4>4 DEF Bubbling, v
    <3>11. Shape(m, u)'
      BY <1>3, <1>4, <3>3, <3>8, <3>10 DEF Shape
    <3> QED
      BY <1>4, <3>3, <3>5, <3>7, <3>11 DEF ListInv, TypeInv, Inv
  <2>2. CASE ~(r(p) < r(p + 1))
    <3>1. ~compare_rssi(sort.curr, L.next[sort.curr])
      BY <1>7, <1>9, <2>2 DEF compare_rssi, r
    <3>2. L' = L /\ sort' = [sort EXCEPT !.curr = s[p + 1]]
      BY <1>9, <3>1
    <3>3. sort'.curr = s[p + 1] /\ sort'.last = sort.last /\ sort'.swapped = sort.swapped
      BY <1>10, <3>2
    <3>4. sort' \in [curr : Place, last : Place, swapped : BOOLEAN]
      BY <1>10, <3>2
    <3>5. \A i \in 1 .. p + 1 : r(i) >= r(p + 1)
      <4>1. \A i \in 1 .. p + 1 : i = p + 1 \/ (i \in 1 .. p /\ i \in 1 .. m)
        BY <1>8
      <4> QED
        BY <1>5, <1>7, <1>11, <2>2, <4>1
    <3>6. Ordered(s, 1, p) => Ordered(s, 1, p + 1)'
      <4> SUFFICES ASSUME Ordered(s, 1, p), NEW i \in 1 .. p + 1, NEW j \in 1 .. p + 1, i < j
                   PROVE  r(i) >= r(j)
        BY <1>4 DEF Ordered, r
      <4>1. i \in 1 .. p /\ (j = p + 1 \/ j \in 1 .. p)
        OBVIOUS
      <4> QED
        BY <3>5, <4>1 DEF Ordered, r
    <3>7. Bubbling(m, s)'
      <4>1. p + 1 \in 1 .. m /\ q \in 2 .. m + 1 /\ p + 1 < q /\ p + 1 >= 2
        BY <1>7, <1>8
      <4> QED
        BY <1>4, <1>7, <3>3, <3>5, <3>6, <4>1 DEF Bubbling, r
    <3>8. Shape(m, s)'
      BY <1>3, <1>4, <3>2, <3>7 DEF Shape
    <3> QED
      BY <1>4, <3>2, <3>4, <3>8 DEF ListInv, TypeInv, Inv
  <2> QED
    BY <2>1, <2>2
<1>13. HeardInv' /\ StrongestKept' /\ PickInv'
  BY <1>4 DEF HeardInv, StrongestKept, PickInv, Inv
<1> QED
  BY <1>12, <1>13 DEF Inv

\* The end of a pass of bubblesort.
LEMMA PassStep ==
    ASSUME Inv, SortPass
    PROVE  Inv'
<1> USE DEF SortPass
<1>1. PICK m \in 0 .. MaxResults : \E s \in [0 .. m -> Place] : Shape(m, s)
  BY DEF Inv, ListInv
<1>2. PICK s \in [0 .. m -> Place] : Shape(m, s)
  BY <1>1
<1>3. /\ Chain(L, m, s) /\ Listed = {s[i] : i \in 1 .. m} /\ m \in Nat
      /\ L \in Heap /\ mem \in [Node -> Entry \cup {Free}]
  BY <1>2, Bound DEF Shape, Inv, TypeInv
<1>4. /\ Listed' = Listed /\ pc = "sort" /\ pc' \in {"sort", "sorted"} /\ mem' = mem
      /\ L' = L /\ Chain(L', m, s)
  BY <1>3 DEF Listed
<1> DEFINE r(i) == mem[s[i]].rssi
<1>5. \A i \in 1 .. m : r(i) \in Int
  BY <1>3, Positions DEF Entry
<1>6. Bubbling(m, s)
  BY <1>2, <1>4 DEF Shape
<1>7. PICK p \in 1 .. m, q \in 2 .. m + 1 :
        /\ p < q
        /\ sort.curr = s[p]
        /\ sort.last = IF q = m + 1 THEN knownnodes ELSE s[q]
        /\ \A i \in 1 .. m, j \in q .. m : i < j => r(i) >= r(j)
        /\ \A i \in 1 .. p : r(i) >= r(p)
        /\ IF sort.swapped THEN p >= 2 ELSE Ordered(s, 1, p)
  BY <1>6 DEF Bubbling
<1> HIDE DEF r
<1>8. q = p + 1
  <2>1. CASE p = m
    BY <1>3, <1>7, <2>1
  <2>2. CASE p # m
    <3>1. p \in 0 .. m - 1 /\ p + 1 \in 0 .. m /\ p + 1 # 0 /\ 0 \in 0 .. m
      BY <1>3, <2>2
    <3>2. s[p + 1] = sort.last /\ s[p + 1] # knownnodes
      BY <1>3, <1>7, <3>1 DEF Chain
    <3>3. q # m + 1 /\ s[q] = s[p + 1]
      BY <1>7, <3>2
    <3>4. q \in 0 .. m
      BY <1>3, <3>3
    <3> QED
      BY <1>3, <3>1, <3>3, <3>4 DEF Chain
  <2> QED
    BY <2>1, <2>2
<1>9. L.next[knownnodes] = s[1] /\ s[1] \in Place /\ s[p] \in Place /\ knownnodes \in Place
  <2>1. 0 \in 0 .. m - 1 /\ 1 \in 0 .. m /\ 0 + 1 = 1 /\ p \in 0 .. m
    BY <1>3
  <2> QED
    BY <1>3, <2>1, Bound DEF Chain
<1>10. TypeInv' /\ ListInv'
  <2>1. CASE sort.swapped
    <3>1. sort' = [curr |-> s[1], last |-> s[p], swapped |-> FALSE] /\ pc' = "sort"
      BY <1>4, <1>7, <1>9, <2>1
    <3>2. sort' \in [curr : Place, last : Place, swapped : BOOLEAN]
      BY <1>9, <3>1
    <3>3. \A i \in 1 .. m, j \in p .. m : i < j => r(i) >= r(j)
      <4> SUFFICES ASSUME NEW i \in 1 .. m, NEW j \in p .. m, i < j
                   PROVE  r(i) >= r(j)
        OBVIOUS
      <4>1. (j = p /\ i \in 1 .. p) \/ j \in q .. m
        BY <1>8
      <4> QED
        BY <1>7, <4>1
    <3>4. \A i \in 1 .. 1 : i = 1
      OBVIOUS
    <3>5. 1 \in 1 .. m /\ p \in 2 .. m + 1 /\ 1 < p /\ p # m + 1
      BY <1>3, <1>7, <2>1
    <3>6. r(1) >= r(1)
      BY <1>5, <3>5
    <3>7. Ordered(s, 1, 1)'
      BY <3>4 DEF Ordered
    <3>8. Bubbling(m, s)'
      BY <1>4, <3>1, <3>3, <3>4, <3>5, <3>6, <3>7 DEF Bubbling, r
    <3>9. Shape(m, s)'
      BY <1>3, <1>4, <3>1, <3>8 DEF Shape
    <3> QED
      BY <1>4, <3>2, <3>9 DEF ListInv, TypeInv, Inv
  <2>2. CASE ~sort.swapped
    <3>1. sort' = Idle /\ pc' = "sorted"
      BY <2>2
    <3>2. sort' \in [curr : Place, last : Place, swapped : BOOLEAN]
      BY <1>9, <3>1 DEF Idle
    <3>3. Ordered(s, 1, m)'
      <4> SUFFICES ASSUME NEW i \in 1 .. m, NEW j \in 1 .. m, i < j
                   PROVE  r(i) >= r(j)
        BY <1>4 DEF Ordered, r
      <4>1. (j \in 1 .. p /\ i \in 1 .. p) \/ j \in q .. m
        BY <1>8
      <4> QED
        BY <1>7, <2>2, <4>1 DEF Ordered, r
    <3>4. Shape(m, s)'
      BY <1>3, <1>4, <3>1, <3>3 DEF Shape
    <3> QED
      BY <1>4, <3>2, <3>4 DEF ListInv, TypeInv, Inv
  <2> QED
    BY <2>1, <2>2
<1>11. HeardInv'
  BY <1>4 DEF HeardInv, Inv
<1>12. StrongestKept'
  BY <1>4 DEF StrongestKept, Inv
<1>13. PickInv'
  BY <1>4 DEF PickInv, Inv
<1> QED
  BY <1>10, <1>11, <1>12, <1>13 DEF Inv

\* main leaves its inner loop.
LEMMA LeaveStep ==
    ASSUME Inv, LeaveInnerLoop
    PROVE  Inv'
<1> USE DEF LeaveInnerLoop
<1>1. Listed' = Listed /\ pc' = "remove"
  BY DEF Listed
<1>2. TypeInv'
  BY DEF Inv, TypeInv
<1>3. ListInv'
  <2>1. \A m, s : Chain(L, m, s) => Chain(L, m, s)'
    BY DEF Chain
  <2>2. \A m, s : Shape(m, s) => Shape(m, s)'
    BY <1>1, <2>1 DEF Shape
  <2> QED
    BY <2>2 DEF ListInv, Inv
<1>4. HeardInv' /\ StrongestKept' /\ PickInv'
  BY <1>1 DEF HeardInv, StrongestKept, PickInv, Inv
<1> QED
  BY <1>2, <1>3, <1>4 DEF Inv

\* removelist frees the first node, or finds that none is left.
LEMMA RemoveStep ==
    ASSUME Inv, removelist
    PROVE  Inv'
<1> USE DEF removelist
<1>1. PICK m \in 0 .. MaxResults : \E s \in [0 .. m -> Place] : Shape(m, s)
  BY DEF Inv, ListInv
<1>2. PICK s \in [0 .. m -> Place] : Shape(m, s)
  BY <1>1
<1>3. /\ Chain(L, m, s) /\ Listed = {s[i] : i \in 1 .. m} /\ m \in Nat
      /\ L \in Heap /\ mem \in [Node -> Entry \cup {Free}]
  BY <1>2, Bound DEF Shape, Inv, TypeInv
<1>4. CASE m = 0
  <2>1. L.next[knownnodes] = knownnodes
    BY <1>3, <1>4 DEF Chain
  <2>2. pc' = "outer" /\ picked' = <<>> /\ UNCHANGED <<L, mem, sort, results, strongest, known>>
    BY <2>1
  <2>3. Listed = {} /\ Listed' = {}
    BY <1>3, <1>4, <2>2 DEF Listed
  <2>4. TypeInv'
    <3>1. picked' \in Seq(Node)
      BY <2>2
    <3> QED
      BY <2>2, <3>1 DEF Inv, TypeInv
  <2>5. Shape(m, s)'
    BY <1>3, <1>4, <2>2, <2>3 DEF Shape
  <2>6. HeardInv' /\ StrongestKept' /\ PickInv'
    BY <2>2, <2>3 DEF HeardInv, StrongestKept, PickInv
  <2> QED
    BY <2>4, <2>5, <2>6 DEF Inv, ListInv
<1>5. CASE m # 0
  <2> DEFINE n == s[1]
             u == Shorter(s, m)
  <2>1. 0 \in 0 .. m - 1 /\ 1 \in 0 .. m /\ 0 + 1 = 1 /\ 1 \in 1 .. m /\ m >= 1
    BY <1>3, <1>5
  <2>2. L.next[knownnodes] = n /\ n # knownnodes /\ n \in Listed /\ n \in Node
    <3>2. \A i \in 1 .. m : s[i] \in Listed /\ s[i] \in Node /\ s[i] # knownnodes
      BY <1>3, Positions
    <3>1. n # knownnodes /\ n \in Listed /\ n \in Node
      BY <2>1, <3>2
    <3> QED
      BY <1>3, <2>1, <3>1 DEF Chain
  <2>3. /\ L' = cdll_delete_node(L, n) /\ mem' = [mem EXCEPT ![n] = Free]
        /\ pc = "remove" /\ UNCHANGED <<pc, picked, sort, results, strongest, known>>
    BY <2>2
  <2>4. L' \in Heap /\ Chain(L', m - 1, u)
    BY <1>3, <2>1, <2>3, DeleteFirst
  <2>5. /\ mem' \in [Node -> Entry \cup {Free}]
        /\ Listed' = Listed \ {n} /\ \A k \in Listed' : mem'[k] = mem[k]
    BY <1>3, <2>2, <2>3 DEF Listed
  <2>6. TypeInv'
    BY <2>3, <2>4, <2>5 DEF Inv, TypeInv
  <2>7. Listed' = {u[i] : i \in 1 .. m - 1}
    <3>1. \A i \in 1 .. m - 1 : u[i] = s[i + 1] /\ i + 1 \in 1 .. m /\ s[i + 1] # n
      <4> SUFFICES ASSUME NEW i \in 1 .. m - 1
                   PROVE  u[i] = s[i + 1] /\ i + 1 \in 1 .. m /\ s[i + 1] # n
        OBVIOUS
      <4>1. i + 1 \in 1 .. m /\ i + 1 \in 0 .. m /\ i + 1 # 1 /\ i \in 0 .. m - 1 /\ i # 0
        BY <1>3
      <4> QED
        BY <1>3, <2>1, <4>1 DEF Chain, Shorter
    <3>2. \A j \in 1 .. m : s[j] # n => j - 1 \in 1 .. m - 1 /\ (j - 1) + 1 = j
      BY <1>3
    <3>3. Listed' = {s[i] : i \in 1 .. m} \ {n}
      BY <1>3, <2>5
    <3> HIDE DEF u, n
    <3>4. \A x \in {s[i] : i \in 1 .. m} : x # n => x \in {u[i] : i \in 1 .. m - 1}
      <4> SUFFICES ASSUME NEW i \in 1 .. m, s[i] # n
                   PROVE  s[i] \in {u[j] : j \in 1 .. m - 1}
        OBVIOUS
      <4>1. i - 1 \in 1 .. m - 1 /\ u[i - 1] = s[i]
        BY <3>1, <3>2
      <4> QED
        BY <4>1
    <3>5. \A x \in {u[i] : i \in 1 .. m - 1} : x # n /\ x \in {s[i] : i \in 1 .. m}
      BY <3>1
    <3> QED
      BY ONLY <3>3, <3>4, <3>5
  <2>8. m - 1 \in 0 .. MaxResults /\ u \in [0 .. m - 1 -> Place]
    BY <1>3, <2>1, <2>4, Bound DEF Chain
  <2> HIDE DEF u
  <2>9. Shape(m - 1, u)'
    BY <2>3, <2>4, <2>7 DEF Shape
  <2>10. HeardInv' /\ StrongestKept' /\ PickInv'
    BY <2>3, <2>5 DEF Inv, HeardInv, StrongestKept, PickInv
  <2> QED
    BY <2>6, <2>8, <2>9, <2>10 DEF Inv, ListInv
<1> QED
  BY <1>4, <1>5

\* scan_find_best_ap gives main the strongest node that is left, or none.
LEMMA BestStep ==
    ASSUME Inv, scan_find_best_ap
    PROVE  Inv'
<1> USE DEF scan_find_best_ap
<1>1. PICK m \in 0 .. MaxResults : \E s \in [0 .. m -> Place] : Shape(m, s)
  BY DEF Inv, ListInv
<1>2. PICK s \in [0 .. m -> Place] : Shape(m, s)
  BY <1>1
<1>3. /\ Chain(L, m, s) /\ Listed = {s[i] : i \in 1 .. m} /\ m \in Nat
      /\ L \in Heap /\ mem \in [Node -> Entry \cup {Free}]
  BY <1>2, Bound DEF Shape, Inv, TypeInv
<1>4. /\ \A i \in 1 .. m : s[i] \in Listed /\ s[i] \in Node /\ s[i] # knownnodes /\ mem[s[i]] \in Entry
      /\ \A n \in Listed : n \in Node /\ mem[n] \in Entry /\ \E i \in 1 .. m : n = s[i]
      /\ Cardinality(Members(L, knownnodes)) = m
      /\ \A i \in 1 .. m : Nth(L, knownnodes, i) = s[i]
  BY <1>3, Positions
<1>5. pc = "sorted" /\ Ordered(s, 1, m) /\ UNCHANGED <<L, sort, results, strongest, known>>
  BY <1>2 DEF Shape
<1> DEFINE C == {i \in 1 .. m : ~mem[s[i]].found /\ mem[s[i]].ssid \in known}
<1>6. Candidates = C
  BY <1>4 DEF Candidates
<1>7. CASE C = {}
  <2>1. pc' = "remove" /\ UNCHANGED <<mem, picked>>
    BY <1>6, <1>7
  <2>2. Listed' = Listed
    BY <2>1 DEF Listed
  <2>3. TypeInv'
    BY <1>5, <2>1 DEF Inv, TypeInv
  <2>4. Shape(m, s)'
    BY <1>3, <1>5, <2>1, <2>2 DEF Shape
  <2>5. HeardInv' /\ StrongestKept' /\ PickInv'
    BY <1>5, <2>1, <2>2 DEF Inv, HeardInv, StrongestKept, PickInv
  <2> QED
    BY <2>3, <2>4, <2>5 DEF Inv, ListInv
<1>8. CASE C # {}
  <2> DEFINE f == Min(C)
             n == s[f]
  <2>1. f \in C /\ \A i \in C : f <= i
    <3>1. C \subseteq Nat
      BY <1>3
    <3> HIDE DEF C
    <3> QED
      BY <1>8, <3>1, FirstPlace
  <2> HIDE DEF f
  <2>2. f \in 1 .. m /\ ~mem[n].found /\ mem[n].ssid \in known
    BY <2>1
  <2>3. Nth(L, knownnodes, Min(Candidates)) = n
    BY <1>4, <1>6, <2>2 DEF f
  <2>4. mem' = [mem EXCEPT ![n].found = TRUE] /\ picked' = Append(picked, n) /\ pc' = pc
    BY <1>6, <1>8, <2>3
  <2>5. n \in Listed /\ n \in Node /\ mem[n] \in Entry
    BY <1>4, <2>2
  <2> DEFINE e == [mem[n] EXCEPT !.found = TRUE]
  <2>6. e \in Entry /\ e.rssi = mem[n].rssi /\ e.ssid = mem[n].ssid /\ e.found = TRUE /\ e # Free
    <3>1. e \in Entry /\ e.rssi = mem[n].rssi /\ e.ssid = mem[n].ssid /\ e.found = TRUE
      BY <2>5 DEF Entry
    <3> HIDE DEF e
    <3> QED
      BY <3>1, EntryNotFree
  <2>7. mem' = [mem EXCEPT ![n] = e]
    BY <2>4
  <2> HIDE DEF e, n
  <2>8. /\ mem' \in [Node -> Entry \cup {Free}]
        /\ mem'[n] = e
        /\ \A k \in Node : k # n => mem'[k] = mem[k]
    BY <1>3, <2>5, <2>6, <2>7
  <2>9. Listed' = Listed
    BY <2>5, <2>6, <2>8, EntryNotFree DEF Listed
  <2>10. \A k \in Listed : /\ mem'[k].rssi = mem[k].rssi /\ mem'[k].ssid = mem[k].ssid
                           /\ mem'[k].found <=> (k = n \/ mem[k].found)
    BY <1>4, <2>6, <2>8
  <2>11. \A i \in 1 .. m : mem'[s[i]].rssi = mem[s[i]].rssi
    BY <1>4, <2>10
  <2>12. picked \in Seq(Node) /\ picked' \in Seq(Node)
    BY <2>4, <2>5 DEF Inv, TypeInv
  <2>13. TypeInv'
    BY <1>5, <2>4, <2>8, <2>12 DEF Inv, TypeInv
  <2>14. Shape(m, s)'
    <3>1. Ordered(s, 1, m)'
      BY <1>5, <2>11 DEF Ordered
    <3> QED
      BY <1>3, <1>5, <2>4, <2>9, <3>1 DEF Shape
  <2>15. HeardInv'
    BY <1>5, <2>4, <2>9, <2>10 DEF Inv, HeardInv
  <2>16. StrongestKept'
    <3>1. StrongestKept
      BY DEF Inv
    <3> QED
      BY <1>5, <2>4, <2>9, <2>10, <3>1 DEF StrongestKept
  <2>17. PickInv'
    <3>1. /\ Len(picked) \in Nat /\ Len(picked') = Len(picked) + 1 /\ picked'[Len(picked) + 1] = n
          /\ \A k \in 1 .. Len(picked) : picked'[k] = picked[k]
          /\ DOMAIN picked = 1 .. Len(picked) /\ DOMAIN picked' = 1 .. Len(picked) + 1
      BY <2>4, <2>5, <2>12
    <3>2. \A k \in 1 .. Len(picked) + 1 : k = Len(picked) + 1 \/ k \in 1 .. Len(picked)
      BY <3>1
    <3>3. /\ \A k \in 1 .. Len(picked) :
                /\ picked[k] \in Listed /\ mem[picked[k]].found
                /\ \A x \in Listed : ~mem[x].found /\ mem[x].ssid \in known
                                    => mem[picked[k]].rssi >= mem[x].rssi
          /\ \A k, l \in 1 .. Len(picked) :
                k < l => picked[k] # picked[l] /\ mem[picked[k]].rssi >= mem[picked[l]].rssi
      BY <1>5, <3>1 DEF Inv, PickInv
    <3>4. \A k \in 1 .. Len(picked) : picked[k] # n /\ mem[picked[k]].rssi >= mem[n].rssi
      BY <2>2, <2>5, <3>3
    <3>5. ASSUME NEW x \in Listed, ~mem[x].found, mem[x].ssid \in known
          PROVE  mem[n].rssi >= mem[x].rssi
      <4>1. PICK i \in 1 .. m : x = s[i]
        BY <1>4
      <4>2. i \in C
        BY <3>5, <4>1
      <4>3. f <= i
        BY <2>1, <4>2
      <4>4. i = f \/ f < i
        BY <2>2, <4>3
      <4>5. mem[n].rssi \in Int
        BY <2>5 DEF Entry
      <4> QED
        BY <1>5, <2>2, <4>1, <4>4, <4>5 DEF Ordered, n
    <3>6. \A k \in 1 .. Len(picked) + 1 :
            /\ picked'[k] \in Listed /\ mem'[picked'[k]].found
            /\ \A x \in Listed : ~mem'[x].found /\ mem'[x].ssid \in known
                                    => mem'[picked'[k]].rssi >= mem'[x].rssi
      <4> SUFFICES ASSUME NEW k \in 1 .. Len(picked) + 1
                   PROVE  /\ picked'[k] \in Listed /\ mem'[picked'[k]].found
                          /\ \A x \in Listed : ~mem'[x].found /\ mem'[x].ssid \in known
                                    => mem'[picked'[k]].rssi >= mem'[x].rssi
        OBVIOUS
      <4>1. CASE k = Len(picked) + 1
        BY <2>5, <2>10, <3>1, <3>5, <4>1
      <4>2. CASE k \in 1 .. Len(picked)
        BY <2>10, <3>1, <3>3, <4>2
      <4> QED
        BY <3>2, <4>1, <4>2
    <3>7. \A k, l \in 1 .. Len(picked) + 1 :
            k < l => picked'[k] # picked'[l] /\ mem'[picked'[k]].rssi >= mem'[picked'[l]].rssi
      <4> SUFFICES ASSUME NEW k \in 1 .. Len(picked) + 1, NEW l \in 1 .. Len(picked) + 1, k < l
                   PROVE  picked'[k] # picked'[l] /\ mem'[picked'[k]].rssi >= mem'[picked'[l]].rssi
        OBVIOUS
      <4>1. k \in 1 .. Len(picked) /\ (l = Len(picked) + 1 \/ l \in 1 .. Len(picked))
        BY <3>1
      <4> QED
        BY <2>5, <2>10, <3>1, <3>3, <3>4, <4>1
    <3> QED
      BY <1>5, <2>4, <2>9, <3>1, <3>6, <3>7 DEF PickInv
  <2> QED
    BY <2>13, <2>14, <2>15, <2>16, <2>17 DEF Inv, ListInv
<1> QED
  BY <1>7, <1>8

\* A result that opens a new entry.
LEMMA NewEntry ==
    ASSUME Inv, NEW t \in Ssid, NEW r \in Rssi, scan_all_result(t, r), ~Ignored(t, r), unique_ssid(t)
    PROVE  Inv'
<1> DEFINE n == Min(Node \ Listed)
           e == [ssid |-> t, rssi |-> r, found |-> FALSE]
<1>1. /\ pc = "scan" /\ results < MaxResults /\ results' = results + 1
      /\ strongest' = [strongest EXCEPT ![t] = Max({@, r})]
      /\ mem' = [mem EXCEPT ![n] = e]
      /\ L' = cdll_insert_node_tail(cdll_init(L, n), n, knownnodes)
      /\ UNCHANGED <<pc, sort, known, picked>>
  BY DEF scan_all_result
<1>2. PICK m \in 0 .. MaxResults : \E s \in [0 .. m -> Place] : Shape(m, s)
  BY DEF Inv, ListInv
<1>3. PICK s \in [0 .. m -> Place] : Shape(m, s)
  BY <1>2
<1>4. /\ Chain(L, m, s) /\ Listed = {s[i] : i \in 1 .. m} /\ m \in Nat /\ m <= results
      /\ L \in Heap /\ mem \in [Node -> Entry \cup {Free}] /\ results \in Nat
  BY <1>1, <1>3, Bound DEF Shape, Inv, TypeInv
<1>5. /\ \A i \in 1 .. m : s[i] \in Listed
      /\ \A x \in Listed : x \in Node /\ mem[x] \in Entry
      /\ Members(L, knownnodes) = Listed /\ Cardinality(Listed) = m
  BY <1>4, Positions
<1>6. n \in Node /\ n \notin Listed
  <2>1. Node \ Listed # {}
    <3> SUFFICES ASSUME Node \subseteq Listed
                 PROVE  FALSE
      OBVIOUS
    <3>1. Node = Listed
      BY <1>5
    <3>2. Cardinality(Node) = MaxResults
      BY Bound, FS_Interval
    <3> QED
      BY <1>1, <1>4, <1>5, <3>1, <3>2, Bound
  <2>2. Node \ Listed \subseteq Nat
    BY Bound
  <2> QED
    BY <2>1, <2>2, FirstPlace
<1> HIDE DEF n
<1>7. r \in Int /\ r >= LOCAL_SCAN_MIN_RSSI /\ Unheard < r
  <2>1. r \in Int
    BY SsidAssumption
  <2> QED
    BY <2>1 DEF Ignored, LOCAL_SCAN_MIN_RSSI, Unheard
<1>8. e \in Entry /\ e.ssid = t /\ e.rssi = r /\ e # Free
  <2>1. e \in Entry /\ e.ssid = t /\ e.rssi = r
    BY <1>7 DEF Entry
  <2> HIDE DEF e
  <2> QED
    BY <2>1, EntryNotFree
<1> HIDE DEF e
<1>9. /\ mem' \in [Node -> Entry \cup {Free}]
      /\ mem'[n] = e
      /\ \A k \in Node : k # n => mem'[k] = mem[k]
  BY <1>1, <1>4, <1>6, <1>8
<1>10. Listed' = Listed \cup {n}
  BY <1>6, <1>8, <1>9 DEF Listed
<1>11. \A k \in Listed : k # n /\ mem'[k] = mem[k] /\ mem[k].ssid # t /\ mem[k].ssid \in Ssid
  BY <1>5, <1>6, <1>9 DEF unique_ssid, Entry
<1>12. strongest \in [Ssid -> Int] /\ strongest[t] = Unheard
  <2>1. \A k \in Listed : mem[k].ssid # t
    BY <1>11
  <2> QED
    BY <1>1, <2>1 DEF Inv, TypeInv, HeardInv
<1>13. Max({strongest[t], r}) = r
  <2>1. strongest[t] \in Int
    BY <1>12
  <2> QED
    BY <1>7, <1>12, <2>1, MaxOfTwo
<1>14. /\ strongest' \in [Ssid -> Int] /\ strongest'[t] = r
       /\ \A x \in Ssid : x # t => strongest'[x] = strongest[x]
  BY <1>1, <1>7, <1>12, <1>13
<1> DEFINE u == Longer(s, m, n)
<1>15. L' \in Heap /\ Chain(L', m + 1, u)
  <2>1. n \in Place /\ \A i \in 0 .. m : s[i] # n
    <3>1. n \in Place /\ n # knownnodes
      BY <1>6, Bound DEF knownnodes
    <3>2. \A i \in 0 .. m : i = 0 \/ i \in 1 .. m
      OBVIOUS
    <3> QED
      BY <1>4, <1>5, <1>6, <3>1, <3>2 DEF Chain
  <2> QED
    BY <1>1, <1>4, <2>1, InsertTail
<1>16. TypeInv'
  BY <1>1, <1>4, <1>9, <1>14, <1>15 DEF Inv, TypeInv
<1>17. ListInv'
  <2>1. Listed' = {u[i] : i \in 1 .. m + 1}
    <3>1. \A i \in 1 .. m : u[i] = s[i] /\ i \in 1 .. m + 1
      BY <1>4 DEF Longer
    <3>2. u[m + 1] = n /\ m + 1 \in 1 .. m + 1
      BY <1>4 DEF Longer
    <3>3. \A i \in 1 .. m + 1 : i = m + 1 \/ i \in 1 .. m
      BY <1>4
    <3>4. Listed' = {s[i] : i \in 1 .. m} \cup {n}
      BY <1>4, <1>10
    <3> HIDE DEF u
    <3>5. \A x \in {s[i] : i \in 1 .. m} \cup {n} : x \in {u[i] : i \in 1 .. m + 1}
      BY ONLY <3>1, <3>2
    <3>6. \A x \in {u[i] : i \in 1 .. m + 1} : x \in {s[i] : i \in 1 .. m} \cup {n}
      BY ONLY <3>1, <3>2, <3>3
    <3> QED
      BY ONLY <3>4, <3>5, <3>6
  <2>2. m + 1 \in 0 .. MaxResults /\ m + 1 <= results' /\ u \in [0 .. m + 1 -> Place]
    BY <1>1, <1>4, <1>15, Bound DEF Chain
  <2>3. PICK v : v = u
    OBVIOUS
  <2> HIDE DEF u
  <2>4. Shape(m + 1, v)'
    BY <1>1, <1>15, <2>1, <2>2, <2>3 DEF Shape
  <2> QED
    BY <2>2, <2>3, <2>4 DEF ListInv
<1>18. HeardInv'
  <2>1. \A x, k \in Listed : mem[x].ssid = mem[k].ssid => x = k
    BY DEF Inv, HeardInv
  <2>2. \A x, k \in Listed' : mem'[x].ssid = mem'[k].ssid => x = k
    BY <1>8, <1>9, <1>10, <1>11, <2>1
  <2>3. results' <= MaxResults
    BY <1>1, <1>4, Bound
  <2>4. ASSUME NEW x \in Ssid, \A k \in Listed' : mem'[k].ssid # x
        PROVE  strongest'[x] = Unheard
    <3>1. x # t /\ \A k \in Listed : mem[k].ssid # x
      BY <1>8, <1>9, <1>10, <1>11, <2>4
    <3> QED
      BY <1>1, <1>14, <3>1 DEF Inv, HeardInv
  <2> QED
    BY <2>2, <2>3, <2>4 DEF HeardInv
<1>19. StrongestKept'
  <2> SUFFICES ASSUME NEW x \in Listed',
                      \A k \in Listed' \ {x} : Length[mem'[k].ssid] # Length[mem'[x].ssid]
               PROVE  mem'[x].rssi = strongest'[mem'[x].ssid]
    BY DEF StrongestKept
  <2>1. CASE x = n
    BY <1>8, <1>9, <1>14, <2>1
  <2>2. CASE x # n
    <3>1. x \in Listed /\ \A k \in Listed \ {x} : Length[mem[k].ssid] # Length[mem[x].ssid]
      BY <1>10, <1>11, <2>2
    <3>2. mem[x].rssi = strongest[mem[x].ssid]
      BY <1>1, <3>1 DEF Inv, StrongestKept
    <3> QED
      BY <1>11, <1>14, <3>1, <3>2
  <2> QED
    BY <2>1, <2>2
<1>20. PickInv'
  BY <1>1 DEF Inv, PickInv
<1> QED
  BY <1>16, <1>17, <1>18, <1>19, <1>20 DEF Inv

\* A result for an ssid that is listed.
LEMMA SameSsid ==
    ASSUME Inv, NEW t \in Ssid, NEW r \in Rssi, scan_all_result(t, r), ~Ignored(t, r), ~unique_ssid(t)
    PROVE  Inv'
<1> DEFINE n == better_rssi(t, r)
<1>1. /\ pc = "scan" /\ results < MaxResults /\ results' = results + 1
      /\ strongest' = [strongest EXCEPT ![t] = Max({@, r})]
      /\ mem' = IF n = NoNode THEN mem ELSE [mem EXCEPT ![n].rssi = r]
      /\ UNCHANGED <<L, pc, sort, known, picked>>
  BY DEF scan_all_result
<1>2. PICK m \in 0 .. MaxResults : \E s \in [0 .. m -> Place] : Shape(m, s)
  BY DEF Inv, ListInv
<1>3. PICK s \in [0 .. m -> Place] : Shape(m, s)
  BY <1>2
<1>4. /\ Chain(L, m, s) /\ Listed = {s[i] : i \in 1 .. m} /\ m \in Nat /\ m <= results
      /\ L \in Heap /\ mem \in [Node -> Entry \cup {Free}] /\ results \in Nat
  BY <1>1, <1>3, Bound DEF Shape, Inv, TypeInv
<1>5. /\ \A i \in 1 .. m : s[i] \in Listed
      /\ \A x \in Listed : x \in Node /\ mem[x] \in Entry /\ \E i \in 1 .. m : x = s[i]
      /\ Members(L, knownnodes) = Listed /\ Cardinality(Listed) = m
      /\ \A i \in 1 .. m : Nth(L, knownnodes, i) = s[i]
  BY <1>4, Positions
<1>6. r \in Int
  BY SsidAssumption
<1> DEFINE S == {i \in 1 .. m : Length[mem[s[i]].ssid] = Length[t] /\ r > mem[s[i]].rssi}
<1>7. n = IF S = {} THEN NoNode ELSE Nth(L, knownnodes, Min(S))
  <2>1. S = {i \in 1 .. Cardinality(Members(L, knownnodes)) :
                /\ Length[mem[Nth(L, knownnodes, i)].ssid] = Length[t]
                /\ r > mem[Nth(L, knownnodes, i)].rssi}
    BY <1>5
  <2> QED
    BY <2>1 DEF better_rssi
<1>8. S # {} => \E i \in S : n = s[i]
  <2> SUFFICES ASSUME S # {}
               PROVE  \E i \in S : n = s[i]
    OBVIOUS
  <2>1. S \subseteq Nat /\ S \subseteq 1 .. m
    BY <1>4
  <2> HIDE DEF S
  <2>2. Min(S) \in S
    BY <2>1, FirstPlace
  <2> QED
    BY <1>5, <1>7, <2>1, <2>2
<1>9. \/ S = {} /\ n = NoNode
      \/ n \in Listed /\ Length[mem[n].ssid] = Length[t] /\ r > mem[n].rssi
  BY <1>5, <1>7, <1>8
<1> HIDE DEF n
<1>10. n = NoNode => n \notin Listed
  BY <1>5, Bound DEF NoNode
\* The entries after the step: only the strength of n has changed.
<1>11. /\ mem' \in [Node -> Entry \cup {Free}]
       /\ Listed' = Listed
       /\ \A k \in Listed : k # n => mem'[k] = mem[k]
       /\ \A k \in Listed : mem'[k].ssid = mem[k].ssid
       /\ n \in Listed => mem'[n].rssi = r
  <2>1. CASE n = NoNode
    <3>1. mem' = mem
      BY <1>1, <2>1
    <3> QED
      BY <1>4, <1>10, <2>1, <3>1 DEF Listed
  <2>2. CASE n # NoNode
    <3> DEFINE e == [mem[n] EXCEPT !.rssi = r]
    <3>1. n \in Listed /\ n \in Node /\ mem[n] \in Entry
      BY <1>5, <1>9, <2>2
    <3>2. e \in Entry /\ e.rssi = r /\ e.ssid = mem[n].ssid
      BY <1>6, <3>1 DEF Entry
    <3>3. mem' = [mem EXCEPT ![n] = e]
      BY <1>1, <2>2
    <3> HIDE DEF e
    <3>4. e # Free
      BY <3>2, EntryNotFree
    <3>5. mem' \in [Node -> Entry \cup {Free}] /\ mem'[n] = e /\ \A k \in Node : k # n => mem'[k] = mem[k]
      BY <1>4, <3>1, <3>2, <3>3
    <3>6. Listed' = Listed
      BY <3>1, <3>4, <3>5 DEF Listed
    <3> QED
      BY <1>5, <3>1, <3>2, <3>5, <3>6
  <2> QED
    BY <2>1, <2>2
<1>12. strongest \in [Ssid -> Int] /\ strongest[t] \in Int
  BY DEF Inv, TypeInv
<1>13. /\ strongest' \in [Ssid -> Int]
       /\ strongest'[t] = IF strongest[t] >= r THEN strongest[t] ELSE r
       /\ \A x \in Ssid : x # t => strongest'[x] = strongest[x]
  <2>1. Max({strongest[t], r}) = IF strongest[t] >= r THEN strongest[t] ELSE r
    BY <1>6, <1>12, MaxOfTwo
  <2>2. Max({strongest[t], r}) \in Int
    BY <1>6, <1>12, <2>1
  <2> QED
    BY <1>1, <1>12, <2>1, <2>2
<1>14. PICK o \in Listed : mem[o].ssid = t
  BY <1>5 DEF unique_ssid
<1>15. TypeInv'
  BY <1>1, <1>4, <1>11, <1>13 DEF Inv, TypeInv
<1>16. ListInv'
  <2>1. m <= results'
    BY <1>1, <1>4
  <2>2. Shape(m, s)'
    BY <1>1, <1>4, <1>11, <2>1 DEF Shape
  <2> QED
    BY <2>2 DEF ListInv
<1>17. HeardInv'
  <2>1. \A x, k \in Listed' : mem'[x].ssid = mem'[k].ssid => x = k
    BY <1>11 DEF Inv, HeardInv
  <2>2. results' <= MaxResults
    BY <1>1, <1>4, Bound
  <2>3. ASSUME NEW x \in Ssid, \A k \in Listed' : mem'[k].ssid # x
        PROVE  strongest'[x] = Unheard
    <3>1. x # t /\ \A k \in Listed : mem[k].ssid # x
      BY <1>11, <1>14, <2>3
    <3> QED
      BY <1>1, <1>13, <3>1 DEF Inv, HeardInv
  <2> QED
    BY <2>1, <2>2, <2>3 DEF HeardInv
<1>18. StrongestKept'
  <2> SUFFICES ASSUME NEW x \in Listed',
                      \A k \in Listed' \ {x} : Length[mem'[k].ssid] # Length[mem'[x].ssid]
               PROVE  mem'[x].rssi = strongest'[mem'[x].ssid]
    BY DEF StrongestKept
  <2>1. x \in Listed /\ \A k \in Listed \ {x} : Length[mem[k].ssid] # Length[mem[x].ssid]
    BY <1>11
  <2>2. mem[x].rssi = strongest[mem[x].ssid]
    BY <1>1, <2>1 DEF Inv, StrongestKept
  <2>3. mem[x] \in Entry /\ mem[x].ssid \in Ssid /\ mem[x].rssi \in Int
    BY <1>5, <2>1 DEF Entry
  <2>4. CASE x # o
    <3>1. Length[mem[x].ssid] # Length[t] /\ mem[x].ssid # t
      BY <1>14, <2>1, <2>4
    <3>2. x # n
      BY <1>9, <1>10, <2>1, <3>1
    <3> QED
      BY <1>11, <1>13, <2>1, <2>2, <2>3, <3>1, <3>2
  <2>5. CASE x = o
    <3>1. mem[x].ssid = t /\ mem'[x].ssid = t /\ mem[x].rssi = strongest[t]
      BY <1>11, <1>14, <2>2, <2>5
    <3>2. n # NoNode => n = x
      BY <1>9, <2>1, <3>1
    <3>3. CASE r > mem[x].rssi
      <4>1. PICK i \in 1 .. m : x = s[i]
        BY <1>5, <2>1
      <4>2. i \in S
        BY <3>1, <3>3, <4>1
      <4>3. n = x
        BY <1>9, <1>10, <3>2, <4>2
      <4> QED
        BY <1>6, <1>11, <1>13, <2>1, <2>3, <3>1, <3>3, <4>3
    <3>4. CASE ~(r > mem[x].rssi)
      <4>1. n # x
        BY <1>9, <1>10, <2>1, <3>4
      <4> QED
        BY <1>6, <1>11, <1>13, <2>1, <2>3, <3>1, <3>4, <4>1
    <3> QED
      BY <3>3, <3>4
  <2> QED
    BY <2>4, <2>5
<1>19. PickInv'
  BY <1>1 DEF Inv, PickInv
<1> QED
  BY <1>15, <1>16, <1>17, <1>18, <1>19 DEF Inv

\* A result that is too weak or has no name.
LEMMA IgnoredResult ==
    ASSUME Inv, NEW t \in Ssid, NEW r \in Rssi, scan_all_result(t, r), Ignored(t, r)
    PROVE  Inv'
<1>1. /\ pc = "scan" /\ results < MaxResults /\ results' = results + 1
      /\ UNCHANGED <<L, mem, strongest, pc, sort, known, picked>>
  BY DEF scan_all_result
<1>2. Listed' = Listed /\ results \in Nat /\ results + 1 <= MaxResults
  BY <1>1, Bound DEF Listed, Inv, TypeInv
<1>3. TypeInv'
  BY <1>1, <1>2 DEF Inv, TypeInv
<1>4. ListInv'
  <2>1. PICK m \in 0 .. MaxResults : \E s \in [0 .. m -> Place] : Shape(m, s)
    BY DEF Inv, ListInv
  <2>2. PICK s \in [0 .. m -> Place] : Shape(m, s)
    BY <2>1
  <2>3. Chain(L', m, s) /\ m <= results'
    <3>1. m \in Nat
      BY Bound
    <3> QED
      BY <1>1, <1>2, <2>2, <3>1 DEF Shape
  <2>4. Shape(m, s)'
    BY <1>1, <1>2, <2>2, <2>3 DEF Shape
  <2> QED
    BY <2>4 DEF ListInv
<1>5. HeardInv' /\ StrongestKept' /\ PickInv'
  BY <1>1, <1>2 DEF Inv, HeardInv, StrongestKept, PickInv
<1> QED
  BY <1>3, <1>4, <1>5 DEF Inv

-----------------------------------------------------------------------------
(* The theorems *)

\* Every step of main and of the driver keeps the invariant.
LEMMA NextInv == Inv /\ [Next]_vars => Inv'
<1> SUFFICES ASSUME Inv, [Next]_vars
             PROVE  Inv'
  OBVIOUS
<1>1. CASE scan_find_all_ssids
  BY <1>1, StartStep
<1>2. CASE ScanOver
  BY <1>2, OverStep
<1>3. CASE SortPair
  BY <1>3, PairStep
<1>4. CASE SortPass
  BY <1>4, PassStep
<1>5. CASE scan_find_best_ap
  BY <1>5, BestStep
<1>6. CASE LeaveInnerLoop
  BY <1>6, LeaveStep
<1>7. CASE removelist
  BY <1>7, RemoveStep
<1>8. ASSUME NEW t \in Ssid, NEW r \in Rssi, scan_all_result(t, r)
      PROVE  Inv'
  BY <1>8, NewEntry, SameSsid, IgnoredResult
<1>9. CASE UNCHANGED vars
  BY <1>9, StutterStep
<1> QED
  BY <1>1, <1>2, <1>3, <1>4, <1>5, <1>6, <1>7, <1>8, <1>9 DEF Next, Main

\* The invariant holds in every behaviour.
LEMMA Invariance == Spec => []Inv
  BY InitInv, NextInv, PTL DEF Spec

\* The pointers stay consistent through inserts, swaps and deletes, and the list holds
\* exactly the allocated nodes (find_local_ssid.c, cdll.c): nothing leaks and nothing
\* is used after it was freed, whatever the driver hears.
THEOREM ListStaysIntact == Spec => []ListIntact
<1>1. Inv => ListIntact
  <2> SUFFICES ASSUME Inv
               PROVE  ListIntact
    OBVIOUS
  <2>1. PICK m \in 0 .. MaxResults : \E s \in [0 .. m -> Place] : Shape(m, s)
    BY DEF Inv, ListInv
  <2>2. PICK s \in [0 .. m -> Place] : Shape(m, s)
    BY <2>1
  <2>3. /\ Chain(L, m, s) /\ Listed = {s[i] : i \in 1 .. m} /\ m \in Nat
        /\ L \in Heap /\ mem \in [Node -> Entry \cup {Free}]
    BY <2>2, Bound DEF Shape, Inv, TypeInv
  <2>4. Linked(L)
    BY <2>3, ChainLinked
  <2>5. Members(L, knownnodes) = Listed
    BY <2>3, Positions
  <2> QED
    BY <2>4, <2>5 DEF ListIntact
<1> QED
  BY <1>1, Invariance, PTL

\* better_rssi compares the lengths of names, not the names; an entry shows the strongest
\* signal heard for its ssid unless a listed name has the same length.
THEOREM EntriesStrongest == Spec => []StrongestKept
<1>1. Inv => StrongestKept
  BY DEF Inv
<1> QED
  BY <1>1, Invariance, PTL

\* scan_find_best_ap after bubblesort never gives main an access point twice, and gives
\* it the stronger ones first.
THEOREM PickedInOrder == Spec => []StrongestFirst
<1>1. Inv => StrongestFirst
  <2> SUFFICES ASSUME Inv, pc = "sorted", NEW i \in DOMAIN picked, NEW j \in DOMAIN picked, i < j
               PROVE  /\ mem[picked[i]].ssid # mem[picked[j]].ssid
                      /\ mem[picked[i]].rssi >= mem[picked[j]].rssi
    BY DEF StrongestFirst
  <2>1. /\ picked[i] \in Listed /\ picked[j] \in Listed /\ picked[i] # picked[j]
        /\ mem[picked[i]].rssi >= mem[picked[j]].rssi
    BY DEF Inv, PickInv
  <2> QED
    BY <2>1 DEF Inv, HeardInv
<1> QED
  BY <1>1, Invariance, PTL
=============================================================================
