-------------------------- MODULE IPNetworkProofs --------------------------
(***************************************************************************)
(* Proofs about Routes and IPNetwork, for every topology: no two nodes     *)
(* have the same address, so that packets only reach the node they are     *)
(* for; the routes are shortest paths, so that packets in a system find    *)
(* their way; no packet is lost; the traces of routers add up; and packets *)
(* do not overtake.                                                        *)
(***************************************************************************)
EXTENDS IPNetwork, FiniteSetTheorems, WellFoundedInduction, TLAPS

-----------------------------------------------------------------------------
(* Addresses.                                                              *)

(* The parts of an address: which system, and which node of it.            *)
index(a) == CHOOSE i \in DOMAIN asNodeVec : asNodeVec[i] = a
upTo(n) == {m \in rlTopology(ASOf[n]) : moduleId[m] <= moduleId[n]}

LEMMA Index ==
  ASSUME NEW n \in Nodes
  PROVE  index(ASOf[n]) \in Nat /\ asNodeVec[index(ASOf[n])] = ASOf[n]
<1>1. \E i \in DOMAIN asNodeVec : asNodeVec[i] = ASOf[n]
  BY RoutesAssumption DEF RoutesAssumption
<1>2. DOMAIN asNodeVec \subseteq Nat
  BY RoutesAssumption DEF RoutesAssumption
<1> QED
  BY <1>1, <1>2 DEF index

(* A system has fewer nodes than its prefix has addresses.                 *)
LEMMA Numbered ==
  ASSUME NEW n \in Nodes
  PROVE  IsFiniteSet(upTo(n)) /\ Cardinality(upTo(n)) \in 1..(NetSize - 1)
<1>1. IsFiniteSet(rlTopology(ASOf[n]))
  BY RoutesAssumption, FS_Subset DEF RoutesAssumption, rlTopology
<1>2. upTo(n) \subseteq rlTopology(ASOf[n]) /\ n \in upTo(n)
  BY RoutesAssumption DEF RoutesAssumption, upTo, rlTopology
<1>3. IsFiniteSet(upTo(n)) /\ Cardinality(upTo(n)) <= Cardinality(rlTopology(ASOf[n]))
  BY <1>1, <1>2, FS_Subset
<1>4. Cardinality(rlTopology(ASOf[n])) <= NetSize - 1
  BY FitsAssumption DEF FitsAssumption, Fits
<1>5. /\ Cardinality(upTo(n)) \in Nat /\ Cardinality(rlTopology(ASOf[n])) \in Nat
      /\ Cardinality(upTo(n)) # 0 /\ NetSize \in Nat
  BY <1>1, <1>2, <1>3, FS_CardinalityType, FS_EmptySet, RoutesAssumption DEF RoutesAssumption
<1> QED
  BY <1>3, <1>4, <1>5

LEMMA Digits ==
  ASSUME NEW N \in Nat, NEW i \in Nat, NEW j \in Nat, NEW a \in 1..(N - 1), NEW b \in 1..(N - 1),
         N * i + a = N * j + b
  PROVE  i = j /\ a = b
<1>1. ASSUME NEW x \in Nat, NEW y \in Nat, x < y PROVE N * y >= N * x + N
  <2>1. PICK d \in Nat : y = x + 1 + d
    <3>1. y - x - 1 \in Nat /\ y = x + 1 + (y - x - 1)
      BY <1>1
    <3> QED
      BY <3>1
  <2>2. N * y = N * x + N + N * d
    BY <2>1
  <2>3. N * d >= 0 /\ N * d \in Int /\ N * x \in Int
    OBVIOUS
  <2> QED
    BY <2>2, <2>3
<1>2. N * i \in Int /\ N * j \in Int
  OBVIOUS
<1>3. ~(i < j)
  BY <1>1, <1>2
<1>4. ~(j < i)
  BY <1>1, <1>2
<1>5. i = j
  BY <1>3, <1>4
<1> QED
  BY <1>2, <1>5

LEMMA Address ==
  ASSUME NEW n \in Nodes
  PROVE  addr[n] = NetSize * index(ASOf[n]) + Cardinality(upTo(n)) /\ addr[n] \in Nat
<1>1. addr[n] = NetSize * index(ASOf[n]) + Cardinality(upTo(n))
  BY DEF addr, prefix, index, upTo
<1>2. /\ NetSize \in Nat /\ index(ASOf[n]) \in Nat /\ Cardinality(upTo(n)) \in Nat
  BY Index, Numbered, RoutesAssumption DEF RoutesAssumption
<1> QED
  BY <1>1, <1>2

(* TGMNetworkConfigurator.cc:212-223,290-311: prefixes by the order of the *)
(* systems and host numbers by the order of module ids are unambiguous.    *)
THEOREM AddressesDiffer == \A m, n \in Nodes : addr[m] = addr[n] => m = n
<1> SUFFICES ASSUME NEW m \in Nodes, NEW n \in Nodes, addr[m] = addr[n] PROVE m = n
  OBVIOUS
<1>1. index(ASOf[m]) = index(ASOf[n]) /\ Cardinality(upTo(m)) = Cardinality(upTo(n))
  <2>1. NetSize \in Nat
    BY RoutesAssumption DEF RoutesAssumption
  <2>2. /\ index(ASOf[m]) \in Nat /\ index(ASOf[n]) \in Nat
        /\ Cardinality(upTo(m)) \in 1..(NetSize - 1)
        /\ Cardinality(upTo(n)) \in 1..(NetSize - 1)
    BY Index, Numbered
  <2>3. NetSize * index(ASOf[m]) + Cardinality(upTo(m))
          = NetSize * index(ASOf[n]) + Cardinality(upTo(n))
    BY Address
  <2> QED
    BY <2>1, <2>2, <2>3, Digits
<1>2. ASOf[m] = ASOf[n]
  BY <1>1, Index
<1>3. ASSUME NEW x \in Nodes, NEW y \in Nodes, ASOf[x] = ASOf[y],
             Cardinality(upTo(x)) = Cardinality(upTo(y))
      PROVE  ~(moduleId[x] < moduleId[y])
  <2> SUFFICES ASSUME moduleId[x] < moduleId[y] PROVE FALSE
    OBVIOUS
  <2>1. moduleId \in [Nodes -> Nat]
    BY RoutesAssumption DEF RoutesAssumption
  <2>2. upTo(x) \subseteq upTo(y) /\ y \in upTo(y) /\ y \notin upTo(x)
    BY <1>3, <2>1 DEF upTo, rlTopology
  <2> QED
    BY <1>3, <2>2, Numbered, FS_Subset
<1>4. moduleId[m] = moduleId[n]
  <2>1. ~(moduleId[m] < moduleId[n]) /\ ~(moduleId[n] < moduleId[m])
    BY <1>1, <1>2, <1>3
  <2> QED
    BY <2>1, RoutesAssumption DEF RoutesAssumption
<1> QED
  BY <1>4, RoutesAssumption DEF RoutesAssumption

-----------------------------------------------------------------------------
(* Induction.                                                              *)

(* A set of natural numbers has a least element: < on them is well         *)
(* founded.                                                                *)
LEMMA Least ==
  ASSUME NEW K, K \subseteq Nat, K # {}
  PROVE  \E k \in K : \A j \in K : k <= j
<1> DEFINE R == {ss \in Nat \X Nat : ss[1] < ss[2]}
<1>1. IsWellFoundedOn(R, Nat)
  <2>1. R = OpToRel(<, Nat)
    BY Zenon DEF OpToRel
  <2> QED
    BY <2>1, NatLessThanWellFounded, Zenon
<1>2. PICK k \in K : \A j \in K : ~ (<<j, k>> \in R)
  BY <1>1, WFMin, Zenon
<1>3. ASSUME NEW j \in K PROVE k <= j
  <2>1. <<j, k>> \in Nat \X Nat /\ <<j, k>> \notin R
    BY <1>2
  <2>2. ~ (j < k)
    BY <2>1, Zenon
  <2> QED
    BY <2>2
<1> QED
  BY <1>3

(* Induction over a set of natural numbers, for what recursive functions   *)
(* compute.                                                                *)
LEMMA Induction ==
  ASSUME NEW K, 0 \in K, \A k \in Nat : k \in K => k + 1 \in K
  PROVE  \A k \in Nat : k \in K
<1> SUFFICES ASSUME NEW j \in Nat, j \notin K PROVE FALSE
  OBVIOUS
<1> DEFINE L == {k \in Nat : k \notin K}
<1>1. PICK k \in L : \A i \in L : k <= i
  <2>1. L \subseteq Nat /\ L # {}
    OBVIOUS
  <2> HIDE DEF L
  <2> QED
    BY <2>1, Least
<1>2. k > 0 /\ k - 1 \in Nat /\ k - 1 \in K
  BY <1>1
<1> QED
  BY <1>1, <1>2

-----------------------------------------------------------------------------
(* Shortest paths: what the recursion in Within computes.                  *)

(* The number of entries: paths of up to as many links as there are nodes. *)
Size == Cardinality(Nodes) + 1

LEMMA SizeType == Size \in Nat \ {0}
  BY RoutesAssumption, FS_CardinalityType DEF RoutesAssumption, Size

(* The first n entries of Within satisfy its recursion.                    *)
Layers(w, links, d, n) ==
  w = [k \in 1..n |-> IF k = 1 THEN {d} ELSE Further(links, w[k - 1])]

(* There are such entries: n of them are continued by one more.            *)
LEMMA LayersExist ==
  ASSUME NEW links, NEW d
  PROVE  \A n \in Nat : \E w : Layers(w, links, d, n)
<1> DEFINE K == {n \in Nat : \E w : Layers(w, links, d, n)}
<1>1. 0 \in K
  <2> DEFINE w == [k \in 1..0 |-> {d}]
  <2>1. w = [k \in 1..0 |-> IF k = 1 THEN {d} ELSE Further(links, w[k - 1])]
    OBVIOUS
  <2> QED
    BY <2>1 DEF Layers
<1>2. ASSUME NEW n \in Nat, n \in K
      PROVE  n + 1 \in K
  <2>1. PICK v : Layers(v, links, d, n)
    BY <1>2
  <2> DEFINE end == IF n = 0 THEN {d} ELSE Further(links, v[n])
             w == [k \in 1..(n + 1) |-> IF k = n + 1 THEN end ELSE v[k]]
  <2>2. ASSUME NEW k \in 1..(n + 1)
        PROVE  w[k] = IF k = 1 THEN {d} ELSE Further(links, w[k - 1])
    <3>1. CASE k = n + 1
      <4>1. w[k] = end /\ (k # 1 => n # 0 /\ k - 1 = n /\ w[k - 1] = v[n])
        BY <3>1
      <4> HIDE DEF w
      <4> QED
        BY <3>1, <4>1
    <3>2. CASE k # n + 1
      <4>1. k \in 1..n /\ w[k] = v[k]
        BY <3>2
      <4>2. k # 1 => w[k - 1] = v[k - 1]
        BY <3>2
      <4>3. v[k] = IF k = 1 THEN {d} ELSE Further(links, v[k - 1])
        BY <2>1, <4>1 DEF Layers
      <4> HIDE DEF w
      <4> QED
        BY <4>1, <4>2, <4>3
    <3> QED
      BY <3>1, <3>2
  <2>3. w = [k \in 1..(n + 1) |-> w[k]]
    OBVIOUS
  <2> HIDE DEF w
  <2>4. Layers(w, links, d, n + 1)
    BY <2>2, <2>3 DEF Layers
  <2> QED
    BY <2>4
<1> HIDE DEF K
<1>3. \A n \in Nat : n \in K
  BY <1>1, <1>2, Induction
<1> QED
  BY <1>3 DEF K

(* So the recursion defines Within: the first entry is d alone, and every  *)
(* further one adds the nodes with a link to the one before.               *)
LEMMA WithinLayers ==
  ASSUME NEW links, NEW d
  PROVE  /\ DOMAIN Within(links, d) = 1..Size
         /\ Within(links, d)[1] = {d}
         /\ \A k \in 1..(Size - 1) :
              Within(links, d)[k + 1] = Further(links, Within(links, d)[k])
<1> DEFINE w == Within(links, d)
<1>1. Layers(w, links, d, Size)
  <2>1. \E v : Layers(v, links, d, Size)
    BY LayersExist, SizeType
  <2>2. w = CHOOSE v : Layers(v, links, d, Size)
    BY DEF Within, Layers, Size
  <2> HIDE DEF w
  <2> QED
    BY <2>1, <2>2, Zenon
<1> HIDE DEF w
<1>2. DOMAIN w = 1..Size /\ w[1] = {d}
  BY <1>1, SizeType DEF Layers
<1>3. ASSUME NEW k \in 1..(Size - 1) PROVE w[k + 1] = Further(links, w[k])
  <2>1. k + 1 \in 1..Size /\ k + 1 # 1 /\ (k + 1) - 1 = k
    BY SizeType
  <2>2. w[k + 1] = Further(links, w[(k + 1) - 1])
    BY <1>1, <2>1 DEF Layers
  <2> QED
    BY <2>1, <2>2
<1> QED
  BY <1>2, <1>3 DEF w

(* A node in an entry is in all later ones.                                *)
LEMMA WithinGrows ==
  ASSUME NEW links, NEW d
  PROVE  \A j, k \in 1..Size : j <= k => Within(links, d)[j] \subseteq Within(links, d)[k]
<1> DEFINE w == Within(links, d)
           K == {k \in Nat : k \in 1..Size => \A j \in 1..k : w[j] \subseteq w[k]}
<1>1. 0 \in K
  OBVIOUS
<1>2. ASSUME NEW k \in Nat, k \in K
      PROVE  k + 1 \in K
  <2> SUFFICES ASSUME k + 1 \in 1..Size, NEW j \in 1..(k + 1)
               PROVE  w[j] \subseteq w[k + 1]
    OBVIOUS
  <2>1. CASE j = k + 1
    BY <2>1
  <2>2. CASE j # k + 1
    <3>1. k \in 1..(Size - 1) /\ k \in 1..Size /\ j \in 1..k
      BY <2>2, SizeType
    <3>2. w[j] \subseteq w[k]
      BY <1>2, <3>1
    <3>3. w[k + 1] = Further(links, w[k])
      BY <3>1, WithinLayers
    <3> HIDE DEF w
    <3> QED
      BY <3>2, <3>3 DEF Further
  <2> QED
    BY <2>1, <2>2
<1> HIDE DEF K
<1>3. \A k \in Nat : k \in K
  BY <1>1, <1>2, Induction
<1>4. ASSUME NEW j \in 1..Size, NEW k \in 1..Size, j <= k PROVE w[j] \subseteq w[k]
  <2>1. k \in Nat /\ j \in 1..k
    BY <1>4, SizeType
  <2> HIDE DEF w
  <2> QED
    BY <1>3, <2>1 DEF K
<1> QED
  BY <1>4

(* A path of j nodes, which is one of j - 1 links, from n to d.            *)
IsPath(path, links, n, d, j) ==
  /\ path \in [1..j -> Nodes] /\ path[1] = n /\ path[j] = d
  /\ \A i \in 1..(j - 1) : <<path[i], path[i + 1]>> \in links

Connects(links, n, d, j) == \E path : IsPath(path, links, n, d, j)

(* A path without its first link is a path.                                *)
LEMMA Shorter ==
  ASSUME NEW links, NEW n, NEW d, NEW j \in Nat \ {0}, Connects(links, n, d, j + 1)
  PROVE  \E m \in Nodes : <<n, m>> \in links /\ Connects(links, m, d, j)
<1>1. PICK path : IsPath(path, links, n, d, j + 1)
  BY DEF Connects
<1> DEFINE rest == [i \in 1..j |-> path[i + 1]]
<1>2. /\ \A i \in 1..j : rest[i] = path[i + 1] /\ i + 1 \in 1..(j + 1)
      /\ DOMAIN rest = 1..j /\ rest = [i \in 1..j |-> rest[i]]
  OBVIOUS
<1> HIDE DEF rest
<1>3. path \in [1..(j + 1) -> Nodes] /\ path[1] = n /\ path[j + 1] = d
      /\ \A i \in 1..j : <<path[i], path[i + 1]>> \in links
  BY <1>1 DEF IsPath
<1>4. rest \in [1..j -> Nodes] /\ rest[1] = path[2] /\ rest[j] = d
  BY <1>2, <1>3
<1>5. ASSUME NEW i \in 1..(j - 1) PROVE <<rest[i], rest[i + 1]>> \in links
  <2>1. i \in 1..j /\ i + 1 \in 1..j
    OBVIOUS
  <2> QED
    BY <1>2, <1>3, <2>1
<1>6. Connects(links, path[2], d, j)
  BY <1>4, <1>5 DEF Connects, IsPath
<1>7. path[2] \in Nodes /\ <<n, path[2]>> \in links
  BY <1>3
<1> QED
  BY <1>6, <1>7

(* A link before a path makes a path.                                      *)
LEMMA Longer ==
  ASSUME NEW links, NEW n \in Nodes, NEW m, NEW d, NEW j \in Nat \ {0},
         <<n, m>> \in links, Connects(links, m, d, j)
  PROVE  Connects(links, n, d, j + 1)
<1>1. PICK path : IsPath(path, links, m, d, j)
  BY DEF Connects
<1> DEFINE whole == [i \in 1..(j + 1) |-> IF i = 1 THEN n ELSE path[i - 1]]
<1>2. path \in [1..j -> Nodes] /\ path[1] = m /\ path[j] = d
      /\ \A i \in 1..(j - 1) : <<path[i], path[i + 1]>> \in links
  BY <1>1 DEF IsPath
<1>3. whole \in [1..(j + 1) -> Nodes] /\ whole[1] = n /\ whole[j + 1] = d
  BY <1>2
<1>4. ASSUME NEW i \in 1..j PROVE <<whole[i], whole[i + 1]>> \in links
  <2>1. CASE i = 1
    BY <1>2, <2>1
  <2>2. CASE i # 1
    <3>1. i - 1 \in 1..(j - 1) /\ whole[i] = path[i - 1] /\ whole[i + 1] = path[(i - 1) + 1]
      BY <2>2
    <3> HIDE DEF whole
    <3> QED
      BY <1>2, <3>1
  <2> QED
    BY <2>1, <2>2
<1> HIDE DEF whole
<1>5. \A i \in 1..((j + 1) - 1) : <<whole[i], whole[i + 1]>> \in links
  BY <1>4
<1> QED
  BY <1>3, <1>5 DEF Connects, IsPath

LEMMA Alone ==
  ASSUME NEW links, NEW n, NEW d \in Nodes
  PROVE  Connects(links, n, d, 1) <=> n = d
<1>1. ASSUME n = d PROVE Connects(links, n, d, 1)
  <2> DEFINE path == [i \in 1..1 |-> d]
  <2>1. IsPath(path, links, n, d, 1)
    BY <1>1 DEF IsPath
  <2> QED
    BY <2>1 DEF Connects
<1> QED
  BY <1>1 DEF Connects, IsPath

(* The reference: the nodes with a path of less than k links to d.         *)
Reaching(links, d, k) == {n \in Nodes : \E j \in 1..k : Connects(links, n, d, j)}

(* TGMNetworkConfigurator.cc:345-356: what the routes are calculated from. *)
(* Entry k of Within has the nodes with a path of less than k links to d,  *)
(* and no others, on every topology: it gives the length of the shortest   *)
(* paths.                                                                  *)
THEOREM WithinIsShortest ==
  ASSUME NEW links \in SUBSET (Nodes \X Nodes), NEW d \in Nodes
  PROVE  \A k \in 1..Size : Within(links, d)[k] = Reaching(links, d, k)
<1> DEFINE w == Within(links, d)
           near(k) == {n \in Nodes : \E j \in 1..k : Connects(links, n, d, j)}
           K == {k \in Nat : k \in 1..Size => w[k] = near(k)}
<1>1. 0 \in K
  OBVIOUS
<1>2. ASSUME NEW k \in Nat, k \in K
      PROVE  k + 1 \in K
  <2> SUFFICES ASSUME k + 1 \in 1..Size PROVE w[k + 1] = near(k + 1)
    OBVIOUS
  <2>1. CASE k = 0
    <3>1. w[1] = {d}
      BY WithinLayers
    <3>2. near(1) = {d}
      BY Alone
    <3> HIDE DEF w, near
    <3> QED
      BY <2>1, <3>1, <3>2
  <2>2. CASE k # 0
    <3>1. k \in 1..Size /\ k \in 1..(Size - 1) /\ k \in Nat \ {0}
      BY <2>2, SizeType
    <3>2. w[k] = near(k) /\ w[k + 1] = Further(links, w[k])
      BY <1>2, <3>1, WithinLayers
    <3> HIDE DEF w
    <3>3. ASSUME NEW n \in w[k + 1] PROVE n \in near(k + 1)
      <4>1. CASE n \in w[k]
        BY <3>1, <3>2, <4>1
      <4>2. CASE n \notin w[k]
        <5>1. PICK l \in links : l[1] = n /\ l[2] \in near(k)
          BY <3>2, <3>3, <4>2 DEF Further
        <5>2. n \in Nodes /\ <<n, l[2]>> \in links
          BY <5>1
        <5>3. PICK j \in 1..k : Connects(links, l[2], d, j)
          BY <5>1
        <5>4. Connects(links, n, d, j + 1)
          BY <5>2, <5>3, Longer
        <5>5. j + 1 \in 1..(k + 1)
          OBVIOUS
        <5> QED
          BY <5>2, <5>4, <5>5
      <4> QED
        BY <4>1, <4>2
    <3>4. ASSUME NEW n \in near(k + 1) PROVE n \in w[k + 1]
      <4>1. PICK j \in 1..(k + 1) : Connects(links, n, d, j)
        OBVIOUS
      <4>2. CASE j \in 1..k
        BY <3>2, <4>1, <4>2 DEF Further
      <4>3. CASE j = k + 1
        <5>1. PICK m \in Nodes : <<n, m>> \in links /\ Connects(links, m, d, k)
          BY <3>1, <4>1, <4>3, Shorter
        <5>2. m \in near(k)
          BY <3>1, <5>1
        <5> HIDE DEF near
        <5>3. <<n, m>>[1] = n /\ <<n, m>>[2] = m
          OBVIOUS
        <5> QED
          BY <3>2, <5>1, <5>2, <5>3 DEF Further
      <4> QED
        BY <4>2, <4>3
    <3> HIDE DEF near
    <3> QED
      BY <3>3, <3>4
  <2> HIDE DEF w, near
  <2> QED
    BY <2>1, <2>2
<1> HIDE DEF K
<1>3. \A k \in Nat : k \in K
  BY <1>1, <1>2, Induction
<1>4. \A k : near(k) = Reaching(links, d, k)
  BY DEF Reaching
<1>5. ASSUME NEW k \in 1..Size PROVE w[k] = Reaching(links, d, k)
  <2>1. k \in Nat
    BY SizeType
  <2> HIDE DEF w, near
  <2> QED
    BY <1>3, <1>4, <2>1 DEF K
<1> QED
  BY <1>5

(* There are more entries than nodes, so one of them adds nothing.         *)
LEMMA Settled ==
  ASSUME NEW links \in SUBSET (Nodes \X Nodes), NEW d \in Nodes
  PROVE  \E k \in 1..(Size - 1) : Within(links, d)[k + 1] = Within(links, d)[k]
<1> SUFFICES ASSUME \A k \in 1..(Size - 1) : Within(links, d)[k + 1] # Within(links, d)[k]
             PROVE  FALSE
  OBVIOUS
<1> DEFINE w == Within(links, d)
           K == {k \in Nat : k \in 1..Size => Cardinality(w[k]) >= k}
<1>1. \A k \in 1..Size : w[k] \subseteq Nodes /\ IsFiniteSet(w[k]) /\ Cardinality(w[k]) \in Nat
                         /\ Cardinality(w[k]) <= Cardinality(Nodes)
  <2>1. ASSUME NEW k \in 1..Size PROVE w[k] \subseteq Nodes
    <3>1. w[k] = Reaching(links, d, k)
      BY WithinIsShortest
    <3> QED
      BY <3>1 DEF Reaching
  <2> HIDE DEF w
  <2> QED
    BY <2>1, FS_Subset, FS_CardinalityType, RoutesAssumption DEF RoutesAssumption
<1>2. 0 \in K
  OBVIOUS
<1>3. ASSUME NEW k \in Nat, k \in K
      PROVE  k + 1 \in K
  <2> SUFFICES ASSUME k + 1 \in 1..Size PROVE Cardinality(w[k + 1]) >= k + 1
    OBVIOUS
  <2>1. CASE k = 0
    <3>1. w[1] = {d}
      BY WithinLayers
    <3>2. Cardinality({d}) = 1
      BY FS_Singleton
    <3> HIDE DEF w
    <3> QED
      BY <2>1, <3>1, <3>2
  <2>2. CASE k # 0
    <3>1. k \in 1..Size /\ k \in 1..(Size - 1)
      BY <2>2, SizeType
    <3>2. w[k] \subseteq w[k + 1] /\ w[k + 1] # w[k]
      BY <3>1, WithinGrows, SizeType
    <3>3. Cardinality(w[k]) >= k
      BY <1>3, <3>1
    <3> HIDE DEF w
    <3>4. Cardinality(w[k]) < Cardinality(w[k + 1])
      <4>1. IsFiniteSet(w[k + 1]) /\ w[k] \subseteq w[k + 1] /\ w[k] # w[k + 1]
        BY <1>1, <3>2
      <4>2. /\ Cardinality(w[k]) <= Cardinality(w[k + 1])
            /\ Cardinality(w[k]) = Cardinality(w[k + 1]) => w[k] = w[k + 1]
        BY <4>1, FS_Subset
      <4> QED
        BY <1>1, <3>1, <4>1, <4>2
    <3> QED
      BY <1>1, <3>1, <3>3, <3>4
  <2> QED
    BY <2>1, <2>2
<1> HIDE DEF K
<1>4. Size \in K /\ Size \in 1..Size
  BY <1>2, <1>3, Induction, SizeType
<1>5. Cardinality(w[Size]) >= Size
  BY <1>4 DEF K
<1>6. Cardinality(Nodes) \in Nat /\ Size = Cardinality(Nodes) + 1
  BY FS_CardinalityType, RoutesAssumption DEF RoutesAssumption, Size
<1> HIDE DEF w
<1> QED
  BY <1>1, <1>4, <1>5, <1>6

(* TGMNetworkConfigurator.cc:361-363, "no route exists at all": a node     *)
(* that is in no entry has no path of any length; no way through a         *)
(* topology is too long for Within.                                        *)
THEOREM WithinIsComplete ==
  ASSUME NEW links \in SUBSET (Nodes \X Nodes), NEW d \in Nodes,
         NEW n \in Nodes, NEW j \in Nat \ {0}, Connects(links, n, d, j)
  PROVE  n \in Within(links, d)[Size]
<1> DEFINE w == Within(links, d)
<1>1. PICK k \in 1..(Size - 1) : w[k + 1] = w[k]
  BY Settled
<1>2. Further(links, w[k]) = w[k] /\ k \in 1..Size /\ k <= Size /\ Size \in 1..Size
  BY <1>1, WithinLayers, SizeType
<1>3. d \in w[k] /\ w[k] \subseteq w[Size]
  <2>1. 1 \in 1..Size /\ w[1] = {d} /\ w[1] \subseteq w[k] /\ w[k] \subseteq w[Size]
    BY <1>2, WithinLayers, WithinGrows, SizeType
  <2> HIDE DEF w
  <2> QED
    BY <2>1
<1> DEFINE K == {i \in Nat : \A m \in Nodes : Connects(links, m, d, i + 1) => m \in w[k]}
<1>4. 0 \in K
  <2> HIDE DEF w
  <2> QED
    BY <1>3, Alone
<1>5. ASSUME NEW i \in Nat, i \in K
      PROVE  i + 1 \in K
  <2> SUFFICES ASSUME NEW m \in Nodes, Connects(links, m, d, (i + 1) + 1) PROVE m \in w[k]
    OBVIOUS
  <2>1. PICK e \in Nodes : <<m, e>> \in links /\ Connects(links, e, d, i + 1)
    <3>1. i + 1 \in Nat \ {0}
      OBVIOUS
    <3> QED
      BY <3>1, Shorter
  <2> HIDE DEF w
  <2>2. e \in w[k]
    BY <1>5, <2>1
  <2>3. <<m, e>>[1] = m /\ <<m, e>>[2] = e
    OBVIOUS
  <2>4. m \in Further(links, w[k])
    BY <2>1, <2>2, <2>3 DEF Further
  <2> QED
    BY <1>2, <2>4
<1> HIDE DEF w, K
<1>6. j - 1 \in K /\ (j - 1) + 1 = j
  BY <1>4, <1>5, Induction
<1>7. n \in w[k]
  BY <1>6 DEF K
<1> QED
  BY <1>3, <1>7 DEF w

(* i is the first entry with n.                                            *)
Entry(w, n, i) == i \in 1..Size /\ n \in w[i] /\ \A k \in 1..Size : n \in w[k] <=> i <= k

LEMMA EntryExists ==
  ASSUME NEW links, NEW d, NEW n, NEW j \in 1..Size, n \in Within(links, d)[j]
  PROVE  \E i \in 1..j : Entry(Within(links, d), n, i)
<1> DEFINE w == Within(links, d)
           K == {k \in 1..Size : n \in w[k]}
<1>1. PICK i \in K : \A k \in K : i <= k
  <2>1. K \subseteq Nat /\ K # {}
    BY SizeType
  <2> HIDE DEF K
  <2> QED
    BY <2>1, Least
<1>2. i \in 1..Size /\ n \in w[i] /\ i \in 1..j
  BY <1>1, SizeType
<1>3. ASSUME NEW k \in 1..Size PROVE n \in w[k] <=> i <= k
  <2>1. n \in w[k] => i <= k
    BY <1>1
  <2>2. i <= k => n \in w[k]
    BY <1>2, WithinGrows
  <2> QED
    BY <2>1, <2>2
<1> HIDE DEF w, K
<1> QED
  BY <1>2, <1>3 DEF Entry, w

(* The node next on a shortest path is in the entry before the first one   *)
(* with n.                                                                 *)
LEMMA Neighbour ==
  ASSUME NEW links, NEW d, NEW n, NEW i, Entry(Within(links, d), n, i), n # d,
         links \subseteq Nodes \X Nodes
  PROVE  i - 1 \in 1..Size /\ \E m \in Nodes : <<n, m>> \in links /\ m \in Within(links, d)[i - 1]
<1> DEFINE w == Within(links, d)
<1>1. i \in 1..Size /\ n \in w[i] /\ w[1] = {d}
  BY WithinLayers DEF Entry
<1>2. i # 1
  BY <1>1
<1>3. i - 1 \in 1..Size /\ i - 1 \in 1..(Size - 1) /\ (i - 1) + 1 = i
  BY <1>1, <1>2, SizeType
<1>4. w[i] = Further(links, w[i - 1])
  <2>1. w[(i - 1) + 1] = Further(links, w[i - 1])
    BY <1>3, WithinLayers
  <2> QED
    BY <1>3, <2>1
<1>5. n \notin w[i - 1]
  BY <1>1, <1>3, SizeType DEF Entry
<1> HIDE DEF w
<1>6. PICK l \in links : l[1] = n /\ l[2] \in w[i - 1]
  BY <1>1, <1>4, <1>5 DEF Further
<1>7. l = <<n, l[2]>> /\ l[2] \in Nodes
  BY <1>6
<1> QED
  BY <1>3, <1>6, <1>7 DEF w

(* getPath(0): the chosen neighbour is one link nearer.                    *)
LEMMA FirstHop ==
  ASSUME NEW links, NEW d, NEW n, NEW i, Entry(Within(links, d), n, i), n # d,
         links \subseteq Nodes \X Nodes
  PROVE  LET m == firstHop(links, Within(links, d), n)
         IN  m \in Nodes /\ <<n, m>> \in links /\ m \in Within(links, d)[i - 1]
<1> DEFINE w == Within(links, d)
           far == {k \in DOMAIN w : n \notin w[k]}
           next == {m \in Nodes : <<n, m>> \in links /\ m \in w[i - 1]}
<1>1. DOMAIN w = 1..Size /\ i \in 1..Size /\ n \in w[i] /\ i - 1 \in Nat
  BY WithinLayers, SizeType DEF Entry
<1>2. far = 1..(i - 1)
  BY <1>1, SizeType DEF Entry
<1>3. Cardinality(far) = i - 1 /\ far # DOMAIN w
  <2>1. Cardinality(1..(i - 1)) = i - 1
    BY <1>1, FS_Interval
  <2> QED
    BY <1>1, <1>2, <2>1
<1>4. next # {}
  BY Neighbour
<1>5. firstHop(links, w, n) = CHOOSE m \in next : TRUE
  <2> HIDE DEF w
  <2> QED
    BY <1>3 DEF firstHop
<1>6. firstHop(links, w, n) \in next
  <2> HIDE DEF next
  <2> QED
    BY <1>4, <1>5
<1> QED
  BY <1>6

(* Whatever the topology: there is no path, or its first link is a link.   *)
LEMMA FirstLink ==
  ASSUME NEW links, links \subseteq Nodes \X Nodes, NEW d, NEW n, n # d
  PROVE  \/ firstHop(links, Within(links, d), n) = NONE
         \/ <<n, firstHop(links, Within(links, d), n)>> \in links
<1> DEFINE w == Within(links, d)
<1>1. CASE \E j \in 1..Size : n \in w[j]
  <2>1. \E i : Entry(w, n, i)
    BY <1>1, EntryExists
  <2> QED
    BY <2>1, FirstHop
<1>2. CASE ~ \E j \in 1..Size : n \in w[j]
  <2>1. DOMAIN w = 1..Size
    BY WithinLayers
  <2> HIDE DEF w
  <2>2. {k \in DOMAIN w : n \notin w[k]} = DOMAIN w
    BY <1>2, <2>1
  <2> QED
    BY <2>2 DEF firstHop, w
<1> QED
  BY <1>1, <1>2

-----------------------------------------------------------------------------
(* Routing tables.                                                         *)

(* Where setIntraASRoutes takes n's way to d to go.                        *)
nextTo(n, d) == firstHop(rlLinks(ASOf[n]), rlPaths[d], n)

(* All links of an end system are the one of its default route.            *)
LEMMA EndSystem ==
  ASSUME NEW n \in Nodes, routerType[n] = "ENDSYS"
  PROVE  \A m : <<n, m>> \in Links => m = defaultRouteIE(n) /\ routerType[m] = "EDGE"
<1>1. PICK e \in Nodes : routerType[e] = "EDGE" /\ Interfaces[n] = <<e>>
  BY LinksAssumption DEF LinksAssumption
<1>2. DOMAIN Interfaces[n] = {1} /\ Interfaces[n][1] = e
  BY <1>1
<1>3. \A m : <<n, m>> \in Links => m = e
  BY <1>2 DEF Links
<1> DEFINE up == {i \in DOMAIN Interfaces[n] :
                    routerType[Interfaces[n][i]] = Upper(routerType[n])}
<1>4. up = {1}
  BY <1>1, <1>2 DEF Upper
<1>5. defaultRouteIE(n) = Interfaces[n][CHOOSE i \in up : \A j \in up : i <= j]
  BY <1>4 DEF defaultRouteIE
<1> HIDE DEF up
<1>6. (CHOOSE i \in up : \A j \in up : i <= j) = 1
  BY <1>4
<1> QED
  BY <1>1, <1>2, <1>3, <1>5, <1>6

(* The host routes of n for an address, and its default routes.            *)
matches(n, mask, host) == {r \in routingTable[n] : r.mask = mask /\ r.host = host}

defaults(n) == {r \in routingTable[n] : r.mask = "all"}

(* A single host route is taken; without one, and without a route to a     *)
(* prefix, the default route.                                              *)
LEMMA BestMatch ==
  ASSUME NEW n, NEW dest
  PROVE  /\ \A x : matches(n, "host", dest) = {x} =>
                getInterfaceForDestAddr(n, dest) = x.interface
         /\ \A x : matches(n, "host", dest) = {} /\ defaults(n) = {x}
                   /\ (\A r \in routingTable[n] : r.mask # "net") =>
                getInterfaceForDestAddr(n, dest) = x.interface
<1> DEFINE match(mask) == {r \in routingTable[n] : r.mask = mask /\
             CASE mask = "host" -> r.host = dest
               [] mask = "net" -> r.host = NetSize * (dest \div NetSize)
               [] mask = "all" -> TRUE}
           best == IF match("host") # {} THEN match("host")
                   ELSE IF match("net") # {} THEN match("net") ELSE match("all")
<1>1. match("host") = matches(n, "host", dest)
  BY DEF matches
<1>2. match("all") = defaults(n)
  BY DEF defaults
<1>3. (\A r \in routingTable[n] : r.mask # "net") => match("net") = {}
  OBVIOUS
<1>4. getInterfaceForDestAddr(n, dest)
        = IF best = {} THEN NONE ELSE (CHOOSE r \in best : TRUE).interface
  BY DEF getInterfaceForDestAddr
<1> HIDE DEF match
<1>5. ASSUME NEW x, best = {x}
      PROVE  getInterfaceForDestAddr(n, dest) = x.interface
  <2> HIDE DEF best
  <2> QED
    BY <1>4, <1>5
<1>6. ASSUME NEW x, matches(n, "host", dest) = {x}
      PROVE  best = {x}
  BY <1>1, <1>6
<1>7. ASSUME NEW x, matches(n, "host", dest) = {}, defaults(n) = {x},
             \A r \in routingTable[n] : r.mask # "net"
      PROVE  best = {x}
  BY <1>1, <1>2, <1>3, <1>7
<1> HIDE DEF best
<1> QED
  BY <1>5, <1>6, <1>7

(* TGMNetworkConfigurator.cc:371-388: a node has a host route for every    *)
(* other node of its system unless the default route leads there: either   *)
(* way the route is the one calculated; end systems always use their       *)
(* default route.                                                          *)
LEMMA Table ==
  ASSUME NEW n \in Nodes, NEW d \in Nodes, ASOf[n] = ASOf[d], n # d, nextTo(n, d) \in Nodes
  PROVE  getInterfaceForDestAddr(n, addr[d]) =
           IF routerType[n] = "ENDSYS" THEN defaultRouteIE(n) ELSE nextTo(n, d)
<1> DEFINE others == {x \in rlTopology(ASOf[n]) \ {n} :
                      nextTo(n, x) \notin {NONE, defaultRouteIE(n)}}
<1>1. routingTable[n] = assignAddressAndSetDefaultRoutes(n) \cup setIntraASRoutes(n)
                          \cup createInterASPaths(n)
  BY DEF routingTable
<1>2. setIntraASRoutes(n) = IF routerType[n] = "ENDSYS" THEN {}
                            ELSE {Route("host", addr[x], nextTo(n, x)) : x \in others}
  BY DEF setIntraASRoutes, nextTo
<1>3. \A r \in createInterASPaths(n) : r.mask = "net" /\ routerType[n] = "CORE"
  BY DEF createInterASPaths, Route
<1>4. assignAddressAndSetDefaultRoutes(n)
        = IF routerType[n] = "CORE" THEN {} ELSE {Route("all", 0, defaultRouteIE(n))}
  BY DEF assignAddressAndSetDefaultRoutes
<1>5. routerType[n] = "CORE" => defaultRouteIE(n) = NONE
  BY DEF defaultRouteIE
<1>6. d \in rlTopology(ASOf[n]) \ {n} /\ nextTo(n, d) # NONE
  BY RoutesAssumption DEF RoutesAssumption, rlTopology
<1>7. \A x \in others : x \in Nodes
  BY DEF rlTopology
<1> DEFINE hosts == {Route("host", addr[x], nextTo(n, x)) : x \in others}
           table == routingTable[n]
<1>8. CASE routerType[n] # "ENDSYS" /\ nextTo(n, d) # defaultRouteIE(n)
  <2>1. d \in others
    BY <1>6, <1>8
  <2>2. Route("host", addr[d], nextTo(n, d)) \in table
    BY <1>1, <1>2, <1>8, <2>1
  <2>3. ASSUME NEW r \in table, r.mask = "host", r.host = addr[d]
        PROVE  r = Route("host", addr[d], nextTo(n, d))
    <3>1. r \in hosts
      BY <1>1, <1>2, <1>3, <1>4, <1>8, <2>3 DEF Route
    <3>2. PICK x \in others : r = Route("host", addr[x], nextTo(n, x))
      BY <3>1
    <3>3. addr[x] = addr[d]
      BY <2>3, <3>2 DEF Route
    <3>4. x = d
      BY <1>7, <3>3, AddressesDiffer
    <3> QED
      BY <3>2, <3>4
  <2> HIDE DEF table
  <2>4. matches(n, "host", addr[d]) = {Route("host", addr[d], nextTo(n, d))}
    BY <2>2, <2>3 DEF matches, Route, table
  <2>5. getInterfaceForDestAddr(n, addr[d]) = Route("host", addr[d], nextTo(n, d)).interface
    BY <2>4, BestMatch
  <2> QED
    BY <1>8, <2>5 DEF Route
<1>9. CASE routerType[n] = "ENDSYS" \/ nextTo(n, d) = defaultRouteIE(n)
  <2>1. routerType[n] # "CORE"
    BY <1>5, <1>6, <1>9
  <2>2. Route("all", 0, defaultRouteIE(n)) \in table
    BY <1>1, <1>4, <2>1
  <2>3. \A r \in table : r.mask # "net" /\ (r.mask = "all" => r = Route("all", 0, defaultRouteIE(n)))
    BY <1>1, <1>2, <1>3, <1>4, <2>1 DEF Route
  <2>4. ASSUME NEW r \in table, r.mask = "host", r.host = addr[d]
        PROVE  FALSE
    <3>1. routerType[n] # "ENDSYS" /\ r \in hosts
      BY <1>1, <1>2, <1>3, <1>4, <2>1, <2>4 DEF Route
    <3>2. PICK x \in others : r = Route("host", addr[x], nextTo(n, x))
      BY <3>1
    <3>3. addr[x] = addr[d]
      BY <2>4, <3>2 DEF Route
    <3>4. x = d
      BY <1>7, <3>3, AddressesDiffer
    <3> QED
      BY <1>9, <3>1, <3>4
  <2> HIDE DEF table
  <2>5. matches(n, "host", addr[d]) = {}
    BY <2>4 DEF matches, table
  <2>6. defaults(n) = {Route("all", 0, defaultRouteIE(n))}
    BY <2>2, <2>3 DEF defaults, Route, table
  <2>7. getInterfaceForDestAddr(n, addr[d]) = Route("all", 0, defaultRouteIE(n)).interface
    BY <2>3, <2>5, <2>6, BestMatch DEF table
  <2> QED
    BY <1>9, <2>7 DEF Route
<1> QED
  BY <1>8, <1>9

(* n has a path of less than k links to d.                                 *)
Near(n, d, k) == \E j \in DOMAIN rlPaths[d] : j <= k /\ n \in rlPaths[d][j]

(* m follows n on a shortest path to d, and need not forward if it is an   *)
(* end system.                                                             *)
Nearer(m, n, d) ==
  /\ m \in Nodes /\ m # NONE /\ ASOf[m] = ASOf[d] /\ <<n, m>> \in Links
  /\ \A k \in Nat : Near(n, d, k + 1) => Near(m, d, k)
  /\ routerType[m] = "ENDSYS" => m = d

LEMMA Paths ==
  ASSUME NEW d \in Nodes
  PROVE  /\ rlPaths[d] = Within(rlLinks(ASOf[d]), d) /\ DOMAIN rlPaths[d] = 1..Size
         /\ rlLinks(ASOf[d]) \subseteq Nodes \X Nodes /\ rlLinks(ASOf[d]) \subseteq Links
<1>1. rlPaths[d] = Within(rlLinks(ASOf[d]), d)
  BY DEF rlPaths
<1>2. DOMAIN rlPaths[d] = 1..Size
  BY <1>1, WithinLayers
<1> QED
  BY <1>1, <1>2 DEF rlLinks, Links

(* No shortest path leads through an end system: it would leave it by the  *)
(* link it came on.                                                        *)
LEMMA Through ==
  ASSUME NEW d \in Nodes, NEW n \in Nodes, NEW m \in Nodes,
         NEW i, Entry(rlPaths[d], n, i), <<n, m>> \in Links, m \in rlPaths[d][i - 1],
         i - 1 \in 1..Size, routerType[m] = "ENDSYS"
  PROVE  m = d
<1> SUFFICES ASSUME m # d PROVE FALSE
  OBVIOUS
<1> DEFINE w == rlPaths[d]
           links == rlLinks(ASOf[d])
<1>1. w = Within(links, d) /\ links \subseteq Nodes \X Nodes /\ links \subseteq Links
  BY Paths
<1> HIDE DEF w, links
<1>2. PICK k \in 1..(i - 1) : Entry(w, m, k)
  BY <1>1, EntryExists DEF w
<1>3. k - 1 \in 1..Size /\ \E e \in Nodes : <<m, e>> \in links /\ e \in w[k - 1]
  BY <1>1, <1>2, Neighbour
<1>4. PICK e \in Nodes : <<m, e>> \in Links /\ e \in w[k - 1]
  BY <1>1, <1>3
<1>5. <<m, n>> \in Links
  BY LinksAssumption DEF LinksAssumption
<1>6. e = n
  BY <1>4, <1>5, EndSystem
<1>7. i <= k - 1
  BY <1>3, <1>4, <1>6 DEF Entry, w
<1>8. i \in 1..Size
  BY DEF Entry
<1> QED
  BY <1>2, <1>3, <1>7, <1>8, SizeType

(* TGMNetworkConfigurator.cc:313-334,345-389: default routes and host      *)
(* routes fit together. In every system, at every node from which there is *)
(* a way to d, the route to d leads to a node of the system that is one    *)
(* link nearer, and to an end system only if that is d.                    *)
THEOREM ShortestWay ==
  ASSUME NEW n \in Nodes, NEW d \in Nodes, ASOf[n] = ASOf[d], n # d,
         \E k \in Nat : Near(n, d, k)
  PROVE  Nearer(getInterfaceForDestAddr(n, addr[d]), n, d)
<1> DEFINE w == rlPaths[d]
           links == rlLinks(ASOf[d])
           m == nextTo(n, d)
<1>1. /\ w = Within(links, d) /\ DOMAIN w = 1..Size
      /\ links \subseteq Nodes \X Nodes /\ links \subseteq Links
  BY Paths
<1>2. PICK j \in 1..Size : n \in w[j]
  BY <1>1 DEF Near
<1> HIDE DEF w, links
<1>3. PICK i \in 1..j : Entry(w, n, i)
  BY <1>1, <1>2, EntryExists
<1>4. m = firstHop(links, w, n)
  BY DEF nextTo, w, links
<1>5. m \in Nodes /\ <<n, m>> \in links /\ m \in w[i - 1]
  <2> HIDE DEF m
  <2>1. Entry(Within(links, d), n, i) /\ links \subseteq Nodes \X Nodes
    BY <1>1, <1>3
  <2>2. /\ firstHop(links, Within(links, d), n) \in Nodes
        /\ <<n, firstHop(links, Within(links, d), n)>> \in links
        /\ firstHop(links, Within(links, d), n) \in Within(links, d)[i - 1]
    BY <2>1, FirstHop
  <2> QED
    BY <1>1, <1>4, <2>2
<1>6. i - 1 \in 1..Size
  BY <1>1, <1>3, Neighbour
<1>7. <<n, m>> \in Links /\ ASOf[m] = ASOf[d]
  BY <1>1, <1>5 DEF links, rlLinks, rlTopology
<1>8. routerType[m] = "ENDSYS" => m = d
  <2> HIDE DEF m
  <2> QED
    BY <1>3, <1>5, <1>6, <1>7, Through DEF w
<1>9. ASSUME NEW k \in Nat, Near(n, d, k + 1) PROVE Near(m, d, k)
  <2>1. PICK x \in 1..Size : x <= k + 1 /\ n \in w[x]
    BY <1>1, <1>9 DEF Near, w
  <2>2. i <= x
    BY <1>3, <2>1 DEF Entry
  <2>3. i - 1 <= k
    BY <1>3, <2>1, <2>2, SizeType
  <2> HIDE DEF m
  <2> QED
    BY <1>1, <1>5, <1>6, <2>3 DEF Near, w
<1>10. getInterfaceForDestAddr(n, addr[d]) = m
  <2>1. getInterfaceForDestAddr(n, addr[d]) =
          IF routerType[n] = "ENDSYS" THEN defaultRouteIE(n) ELSE m
    BY <1>5, Table
  <2>2. routerType[n] = "ENDSYS" => m = defaultRouteIE(n)
    BY <1>7, EndSystem
  <2> QED
    BY <2>1, <2>2
<1>11. m # NONE
  BY <1>5, RoutesAssumption DEF RoutesAssumption
<1> HIDE DEF m
<1> QED
  BY <1>5, <1>7, <1>8, <1>9, <1>10, <1>11 DEF Nearer

(* TGMNetworkConfigurator.cc:97-148,313-389: every route of every routing  *)
(* table, default, host or between systems, leads to an interface that the *)
(* node has, or is one without an interface.                               *)
THEOREM RoutesLead ==
  \A n \in Nodes : \A r \in routingTable[n] :
    r.interface = NONE \/ <<n, r.interface>> \in Links
<1> SUFFICES ASSUME NEW n \in Nodes, NEW r \in routingTable[n]
             PROVE  r.interface = NONE \/ <<n, r.interface>> \in Links
  OBVIOUS
<1>1. CASE r \in assignAddressAndSetDefaultRoutes(n)
  <2>1. r.interface = defaultRouteIE(n) /\ routerType[n] # "CORE"
    BY <1>1 DEF assignAddressAndSetDefaultRoutes, Route
  <2> DEFINE up == {i \in DOMAIN Interfaces[n] :
                      routerType[Interfaces[n][i]] = Upper(routerType[n])}
  <2>2. CASE up = {}
    BY <2>1, <2>2 DEF defaultRouteIE
  <2>3. CASE up # {}
    <3>1. Interfaces[n] \in Seq(Nodes) /\ up \subseteq Nat
      BY RoutesAssumption DEF RoutesAssumption
    <3>2. defaultRouteIE(n) = Interfaces[n][CHOOSE i \in up : \A j \in up : i <= j]
      BY <2>1, <2>3 DEF defaultRouteIE
    <3>3. \E i \in up : \A j \in up : i <= j
      <4> HIDE DEF up
      <4> QED
        BY <2>3, <3>1, Least
    <3>4. (CHOOSE i \in up : \A j \in up : i <= j) \in up
      <4> HIDE DEF up
      <4> QED
        BY <3>3
    <3>5. PICK i \in DOMAIN Interfaces[n] : defaultRouteIE(n) = Interfaces[n][i]
      BY <3>2, <3>4
    <3>6. Interfaces[n][i] \in Nodes
      BY <3>1
    <3> QED
      BY <2>1, <3>5, <3>6 DEF Links
  <2> QED
    BY <2>2, <2>3
<1>2. CASE r \in setIntraASRoutes(n)
  <2>1. PICK d \in rlTopology(ASOf[n]) \ {n} :
          r.interface = firstHop(rlLinks(ASOf[n]), rlPaths[d], n)
    BY <1>2 DEF setIntraASRoutes, Route
  <2>2. d \in Nodes /\ ASOf[d] = ASOf[n] /\ n # d
    BY <2>1 DEF rlTopology
  <2>3. /\ rlPaths[d] = Within(rlLinks(ASOf[n]), d)
        /\ rlLinks(ASOf[n]) \subseteq Nodes \X Nodes /\ rlLinks(ASOf[n]) \subseteq Links
    BY <2>2, Paths
  <2>4. r.interface = firstHop(rlLinks(ASOf[n]), Within(rlLinks(ASOf[n]), d), n)
    BY <2>1, <2>3
  <2>5. r.interface = NONE \/ <<n, r.interface>> \in rlLinks(ASOf[n])
    BY <2>2, <2>3, <2>4, FirstLink
  <2> QED
    BY <2>3, <2>5
<1>3. CASE r \in createInterASPaths(n)
  <2>1. PICK d \in asTopology : asId(d) # asId(n)
               /\ r.interface = firstHop(enabledLinks, asPaths[d], n)
    BY <1>3 DEF createInterASPaths, Route
  <2>2. n # d /\ asPaths[d] = Within(enabledLinks, d)
        /\ enabledLinks \subseteq Nodes \X Nodes /\ enabledLinks \subseteq Links
    BY <2>1 DEF asPaths, enabledLinks, Links
  <2>3. r.interface = firstHop(enabledLinks, Within(enabledLinks, d), n)
    BY <2>1, <2>2
  <2>4. r.interface = NONE \/ <<n, r.interface>> \in enabledLinks
    BY <2>2, <2>3, FirstLink
  <2> QED
    BY <2>2, <2>4
<1> QED
  BY <1>1, <1>2, <1>3 DEF routingTable

(* What IP finds in a table is an interface of the node, or nothing.       *)
LEMMA InterfaceLeads ==
  ASSUME NEW n \in Nodes, NEW dest
  PROVE  \/ getInterfaceForDestAddr(n, dest) = NONE
         \/ <<n, getInterfaceForDestAddr(n, dest)>> \in Links
<1> DEFINE match(mask) == {r \in routingTable[n] : r.mask = mask /\
             CASE mask = "host" -> r.host = dest
               [] mask = "net" -> r.host = NetSize * (dest \div NetSize)
               [] mask = "all" -> TRUE}
           best == IF match("host") # {} THEN match("host")
                   ELSE IF match("net") # {} THEN match("net") ELSE match("all")
<1>1. getInterfaceForDestAddr(n, dest)
        = IF best = {} THEN NONE ELSE (CHOOSE r \in best : TRUE).interface
  BY DEF getInterfaceForDestAddr
<1>2. \A mask : match(mask) \subseteq routingTable[n]
  OBVIOUS
<1> HIDE DEF match
<1>3. best \subseteq routingTable[n]
  BY <1>2
<1> HIDE DEF best
<1>4. best # {} => (CHOOSE r \in best : TRUE) \in routingTable[n]
  BY <1>3
<1> QED
  BY <1>1, <1>4, RoutesLead

-----------------------------------------------------------------------------
(* The inductive invariant.                                                *)

(* Packets under way are addressed to their node and have hops left.       *)
Addressed == {p \in Packet : p.dest = addr[p.to]}
UnderWay == {p \in Addressed : p.ttl > 0}

CounterTypes ==
  /\ startTrace \subseteq Traced
  /\ trace \in [Traced -> [Counters -> Nat]] /\ packets \in [Traced -> [Counters -> Nat]]
  /\ unwritten \in [Traced -> [Counters -> Nat]] /\ written \in [Traced -> [Counters -> Nat]]

PacketTypes ==
  /\ frameCapacity \in Capacities /\ sent \in 0..MaxPackets
  /\ line \in [Links -> Seq(UnderWay)] /\ delivered \in [Nodes -> Seq(Packet)]
  /\ dropped \subseteq Packet /\ unroutable \subseteq Packet

IInv == PacketTypes /\ CounterTypes /\ DeliveredToAddressee /\ TraceAddsUp

-----------------------------------------------------------------------------
(* Packets.                                                                *)

LEMMA Datagrams ==
  ASSUME sent \in 0..MaxPackets, sent < MaxPackets, NEW h \in Hosts, NEW to \in Hosts
  PROVE  datagram(h, to) \in UnderWay
<1>1. /\ Hosts \subseteq Nodes /\ protocolOf[h] \in Protocols /\ HopLimit \in Nat
      /\ HopLimit > 0 /\ MaxPackets \in Nat
  BY IPNetworkAssumption DEF IPNetworkAssumption, Protocols
<1>2. sent + 1 \in 1..MaxPackets
  BY <1>1
<1>3. addr[h] \in Nat /\ addr[to] \in Nat
  BY <1>1, Address
<1> QED
  BY <1>1, <1>2, <1>3 DEF datagram, UnderWay, Addressed, Packet

LEMMA Hop ==
  ASSUME NEW p \in UnderWay
  PROVE  [p EXCEPT !.ttl = @ - 1] \in Addressed
         /\ [p EXCEPT !.ttl = @ - 1].protocol \in Protocols
<1> DEFINE t == p.ttl - 1
<1>1. p.ttl \in Nat /\ p.ttl > 0 /\ p \in Packet /\ p.dest = addr[p.to]
  BY DEF UnderWay, Addressed, Packet
<1>2. t \in Nat /\ [p EXCEPT !.ttl = @ - 1] = [p EXCEPT !.ttl = t]
  BY <1>1
<1>3. [p EXCEPT !.ttl = t] \in Addressed /\ [p EXCEPT !.ttl = t].protocol \in Protocols
  <2> HIDE DEF t
  <2> QED
    BY <1>1, <1>2 DEF Addressed, Packet
<1> QED
  BY <1>2, <1>3

(* routePacket: delivered only to the node with the address, and that is   *)
(* the node it is for.                                                     *)
LEMMA Routed ==
  ASSUME IInv, NEW lines \in [Links -> Seq(UnderWay)], NEW n \in Nodes,
         NEW p \in Addressed, NEW fromHL, routePacket(lines, n, p, fromHL)
  PROVE  /\ line' \in [Links -> Seq(UnderWay)] /\ delivered' \in [Nodes -> Seq(Packet)]
         /\ dropped' \subseteq Packet /\ unroutable' \subseteq Packet
         /\ DeliveredToAddressee'
<1>1. /\ delivered \in [Nodes -> Seq(Packet)] /\ DeliveredToAddressee
      /\ dropped \subseteq Packet /\ unroutable \subseteq Packet
      /\ p \in Packet /\ p.dest = addr[p.to] /\ p.to \in Nodes
  BY IPNetworkAssumption DEF IInv, PacketTypes, Addressed, Packet, IPNetworkAssumption
<1>2. CASE /\ p.dest = addr[n]
           /\ delivered' = [delivered EXCEPT ![n] = Append(@, p)]
           /\ line' = lines /\ UNCHANGED <<dropped, unroutable>>
  <2>1. p.to = n
    BY <1>1, <1>2, AddressesDiffer
  <2> DEFINE d == Append(delivered[n], p)
  <2>2. d \in Seq(Packet) /\ \A i \in DOMAIN d : d[i].to = n
    BY <1>1, <2>1 DEF DeliveredToAddressee
  <2>3. delivered' = [delivered EXCEPT ![n] = d]
    BY <1>2
  <2> HIDE DEF d
  <2>4. delivered' \in [Nodes -> Seq(Packet)]
        /\ \A m \in Nodes : delivered'[m] = IF m = n THEN d ELSE delivered[m]
    BY <1>1, <2>2, <2>3
  <2>5. DeliveredToAddressee'
    BY <1>1, <2>2, <2>4 DEF DeliveredToAddressee
  <2> QED
    BY <1>1, <1>2, <2>4, <2>5
<1>3. CASE /\ unroutable' = unroutable \cup {p} /\ line' = lines
           /\ UNCHANGED <<delivered, dropped>>
  BY <1>1, <1>3 DEF DeliveredToAddressee
<1>4. ASSUME NEW l, p.ttl > 0, enqueue(lines, l, p), UNCHANGED <<delivered, unroutable>>
      PROVE  /\ line' \in [Links -> Seq(UnderWay)] /\ delivered' \in [Nodes -> Seq(Packet)]
             /\ dropped' \subseteq Packet /\ unroutable' \subseteq Packet
             /\ DeliveredToAddressee'
  <2>1. p \in UnderWay
    BY <1>4 DEF UnderWay
  <2>2. CASE dropped' = dropped \cup {p} /\ line' = lines
    BY <1>1, <1>4, <2>2 DEF DeliveredToAddressee
  <2>3. CASE line' = [lines EXCEPT ![l] = Append(@, p)] /\ UNCHANGED dropped
    <3>1. line' \in [Links -> Seq(UnderWay)]
      <4>1. CASE l \in Links
        <5> DEFINE v == Append(lines[l], p)
        <5>1. v \in Seq(UnderWay) /\ line' = [lines EXCEPT ![l] = v]
          BY <2>1, <2>3, <4>1
        <5> HIDE DEF v
        <5> QED
          BY <5>1
      <4>2. CASE l \notin Links
        BY <2>3, <4>2
      <4> QED
        BY <4>1, <4>2
    <3> QED
      BY <1>1, <1>4, <2>3, <3>1 DEF DeliveredToAddressee
  <2> QED
    BY <1>4, <2>2, <2>3 DEF enqueue
<1> QED
  BY <1>2, <1>3, <1>4 DEF routePacket

-----------------------------------------------------------------------------
(* Counters.                                                               *)

LEMMA Counted ==
  ASSUME NEW c \in [Counters -> Nat], NEW protocol \in Protocols
  PROVE  /\ count(c, protocol) \in [Counters -> Nat]
         /\ \A x \in Counters : count(c, protocol)[x] =
              IF x \in {"total", protocol} THEN c[x] + 1 ELSE c[x]
  BY DEF count, Counters, Protocols

(* A node is not disturbed by the counters of another.                     *)
LEMMA SameCounters ==
  ASSUME IInv, UNCHANGED counters
  PROVE  CounterTypes' /\ TraceAddsUp'
  BY DEF IInv, CounterTypes, TraceAddsUp, counters

-----------------------------------------------------------------------------
(* The steps.                                                              *)

LEMMA SendStep ==
  ASSUME IInv, NEW h \in Hosts, handleMessageFromHL(h)
  PROVE  IInv'
<1>1. /\ sent < MaxPackets /\ sent' = sent + 1
      /\ \E to \in Hosts \ {h} : routePacket(line, h, datagram(h, to), TRUE)
      /\ UNCHANGED frameCapacity /\ UNCHANGED counters
  BY DEF handleMessageFromHL
<1>2. /\ sent \in 0..MaxPackets /\ line \in [Links -> Seq(UnderWay)] /\ h \in Nodes
      /\ MaxPackets \in Nat /\ frameCapacity \in Capacities
  BY IPNetworkAssumption DEF IInv, PacketTypes, IPNetworkAssumption
<1>3. PICK to \in Hosts : routePacket(line, h, datagram(h, to), TRUE)
  BY <1>1
<1>4. datagram(h, to) \in Addressed
  BY <1>1, <1>2, Datagrams DEF UnderWay
<1>5. /\ line' \in [Links -> Seq(UnderWay)] /\ delivered' \in [Nodes -> Seq(Packet)]
      /\ dropped' \subseteq Packet /\ unroutable' \subseteq Packet
      /\ DeliveredToAddressee'
  BY <1>2, <1>3, <1>4, Routed
<1>6. sent' \in 0..MaxPackets /\ frameCapacity' \in Capacities
  BY <1>1, <1>2
<1>7. CounterTypes' /\ TraceAddsUp'
  BY <1>1, SameCounters
<1> QED
  BY <1>5, <1>6, <1>7 DEF IInv, PacketTypes

LEMMA ForwardStep ==
  ASSUME IInv, NEW l \in Links, handlePacketFromNetwork(l)
  PROVE  IInv'
<1> DEFINE n == l[2]
           p == [Head(line[l]) EXCEPT !.ttl = @ - 1]
           queue == dequeue(line[l])
           lines == [line EXCEPT ![l] = queue]
<1>1. /\ line[l] # <<>> /\ routePacket(lines, n, p, FALSE)
      /\ IF n \in Traced
         THEN /\ trace' = [trace EXCEPT ![n] = count(@, p.protocol)]
              /\ packets' = [packets EXCEPT ![n] = count(@, p.protocol)]
         ELSE UNCHANGED <<trace, packets>>
      /\ UNCHANGED <<frameCapacity, sent, startTrace, unwritten, written>>
  BY DEF handlePacketFromNetwork
<1>2. /\ line \in [Links -> Seq(UnderWay)] /\ sent \in 0..MaxPackets
      /\ frameCapacity \in Capacities
  BY DEF IInv, PacketTypes
<1>3. n \in Nodes
  BY DEF Links
<1>4. Head(line[l]) \in UnderWay /\ queue \in Seq(UnderWay)
  BY <1>1, <1>2 DEF dequeue
<1>5. p \in Addressed /\ p.protocol \in Protocols
  BY <1>4, Hop
<1>6. lines \in [Links -> Seq(UnderWay)]
  <2> HIDE DEF queue
  <2> QED
    BY <1>2, <1>4
<1> HIDE DEF p, lines
<1>7. /\ line' \in [Links -> Seq(UnderWay)] /\ delivered' \in [Nodes -> Seq(Packet)]
      /\ dropped' \subseteq Packet /\ unroutable' \subseteq Packet
      /\ DeliveredToAddressee'
  BY <1>1, <1>3, <1>5, <1>6, Routed
<1>8. PacketTypes'
  BY <1>1, <1>2, <1>7 DEF PacketTypes
<1>9. CounterTypes' /\ TraceAddsUp'
  <2>1. CASE n \notin Traced
    <3>1. UNCHANGED counters
      BY <1>1, <2>1 DEF counters
    <3> QED
      BY <3>1, SameCounters
  <2>2. CASE n \in Traced
    <3> DEFINE c == count(trace[n], p.protocol)
               d == count(packets[n], p.protocol)
    <3>1. /\ trace' = [trace EXCEPT ![n] = c] /\ packets' = [packets EXCEPT ![n] = d]
          /\ UNCHANGED <<startTrace, unwritten, written>>
      BY <1>1, <2>2
    <3>2. CounterTypes /\ TraceAddsUp
      BY DEF IInv
    <3>3. /\ c \in [Counters -> Nat] /\ d \in [Counters -> Nat]
          /\ \A x \in Counters : c[x] =
               IF x \in {"total", p.protocol} THEN trace[n][x] + 1 ELSE trace[n][x]
          /\ \A x \in Counters : d[x] =
               IF x \in {"total", p.protocol} THEN packets[n][x] + 1 ELSE packets[n][x]
      <4>1. trace[n] \in [Counters -> Nat] /\ packets[n] \in [Counters -> Nat]
        BY <2>2, <3>2 DEF CounterTypes
      <4>2. /\ c \in [Counters -> Nat]
            /\ \A x \in Counters : c[x] =
                 IF x \in {"total", p.protocol} THEN trace[n][x] + 1 ELSE trace[n][x]
        BY <1>5, <4>1, Counted
      <4>3. /\ d \in [Counters -> Nat]
            /\ \A x \in Counters : d[x] =
                 IF x \in {"total", p.protocol} THEN packets[n][x] + 1 ELSE packets[n][x]
        BY <1>5, <4>1, Counted
      <4> HIDE DEF c, d
      <4> QED
        BY <4>2, <4>3
    <3> HIDE DEF c, d
    <3>4. /\ trace' \in [Traced -> [Counters -> Nat]] /\ packets' \in [Traced -> [Counters -> Nat]]
          /\ trace'[n] = c /\ packets'[n] = d
          /\ \A m \in Traced \ {n} : trace'[m] = trace[m] /\ packets'[m] = packets[m]
      BY <2>2, <3>1, <3>2, <3>3 DEF CounterTypes
    <3>5. CounterTypes'
      BY <3>1, <3>2, <3>4 DEF CounterTypes
    <3>6. \A x \in Counters : d[x] = unwritten[n][x] + written[n][x] + c[x]
      <4> SUFFICES ASSUME NEW x \in Counters
                   PROVE  d[x] = unwritten[n][x] + written[n][x] + c[x]
        OBVIOUS
      <4>1. /\ packets[n][x] = unwritten[n][x] + written[n][x] + trace[n][x]
            /\ unwritten[n][x] \in Nat /\ written[n][x] \in Nat /\ trace[n][x] \in Nat
        BY <2>2, <3>2 DEF TraceAddsUp, CounterTypes
      <4>2. \/ c[x] = trace[n][x] + 1 /\ d[x] = packets[n][x] + 1
            \/ c[x] = trace[n][x] /\ d[x] = packets[n][x]
        BY <3>3
      <4> QED
        BY <4>1, <4>2
    <3>7. d.total = d.ICMP + d.TCP + d.UDP
      <4>1. /\ packets[n] \in [Counters -> Nat]
            /\ packets[n].total = packets[n].ICMP + packets[n].TCP + packets[n].UDP
        BY <2>2, <3>2 DEF TraceAddsUp, CounterTypes
      <4>2. {"total", "ICMP", "TCP", "UDP"} = Counters /\ p.protocol \in {"ICMP", "TCP", "UDP"}
        BY <1>5 DEF Counters, Protocols
      <4> QED
        BY <3>3, <4>1, <4>2
    <3>8. TraceAddsUp'
      BY <3>1, <3>2, <3>4, <3>6, <3>7 DEF TraceAddsUp
    <3> QED
      BY <3>5, <3>8
  <2> QED
    BY <2>1, <2>2
<1> QED
  BY <1>7, <1>8, <1>9 DEF IInv

LEMMA TraceStep ==
  ASSUME IInv, NEW n \in Traced, traceOut(n)
  PROVE  IInv'
<1> DEFINE add(sum) == [sum EXCEPT ![n] = [c \in Counters |-> @[c] + trace[n][c]]]
<1>1. /\ startTrace' = startTrace \cup {n}
      /\ \/ written' = add(written) /\ UNCHANGED unwritten
         \/ unwritten' = add(unwritten) /\ UNCHANGED written
      /\ trace' = [trace EXCEPT ![n] = Zero]
      /\ UNCHANGED <<frameCapacity, line, sent, delivered, dropped, unroutable, packets>>
  BY DEF traceOut, nextInterval
<1>2. CounterTypes /\ TraceAddsUp /\ PacketTypes /\ DeliveredToAddressee
  BY DEF IInv
<1>3. PacketTypes' /\ DeliveredToAddressee'
  BY <1>1, <1>2 DEF PacketTypes, DeliveredToAddressee
<1>4. Zero \in [Counters -> Nat] /\ \A c \in Counters : Zero[c] = 0
  BY DEF Zero
<1>5. /\ trace' \in [Traced -> [Counters -> Nat]] /\ trace'[n] = Zero
      /\ \A m \in Traced \ {n} : trace'[m] = trace[m]
  BY <1>1, <1>2, <1>4 DEF CounterTypes
<1>6. ASSUME NEW sum \in [Traced -> [Counters -> Nat]]
      PROVE  /\ add(sum) \in [Traced -> [Counters -> Nat]]
             /\ \A c \in Counters : add(sum)[n][c] = sum[n][c] + trace[n][c]
             /\ \A m \in Traced \ {n} : add(sum)[m] = sum[m]
  <2> DEFINE s == [c \in Counters |-> sum[n][c] + trace[n][c]]
  <2>1. s \in [Counters -> Nat] /\ \A c \in Counters : s[c] = sum[n][c] + trace[n][c]
    BY <1>2 DEF CounterTypes
  <2>2. add(sum) = [sum EXCEPT ![n] = s]
    OBVIOUS
  <2> HIDE DEF s, add
  <2> QED
    BY <2>1, <2>2
<1> HIDE DEF add
<1>7. /\ written' \in [Traced -> [Counters -> Nat]]
      /\ unwritten' \in [Traced -> [Counters -> Nat]]
      /\ \A c \in Counters :
           unwritten'[n][c] + written'[n][c] = unwritten[n][c] + written[n][c] + trace[n][c]
      /\ \A m \in Traced \ {n} : written'[m] = written[m] /\ unwritten'[m] = unwritten[m]
  <2>1. /\ \A c \in Counters :
             unwritten[n][c] \in Nat /\ written[n][c] \in Nat /\ trace[n][c] \in Nat
        /\ written \in [Traced -> [Counters -> Nat]]
        /\ unwritten \in [Traced -> [Counters -> Nat]]
    BY <1>2 DEF CounterTypes
  <2>2. CASE written' = add(written) /\ UNCHANGED unwritten
    BY <1>6, <2>1, <2>2
  <2>3. CASE unwritten' = add(unwritten) /\ UNCHANGED written
    BY <1>6, <2>1, <2>3
  <2> QED
    BY <1>1, <2>2, <2>3
<1>8. CounterTypes'
  BY <1>1, <1>2, <1>5, <1>7 DEF CounterTypes
<1>9. TraceAddsUp'
  <2> SUFFICES ASSUME NEW m \in Traced
               PROVE  /\ \A c \in Counters :
                           packets[m][c] = unwritten'[m][c] + written'[m][c] + trace'[m][c]
                      /\ packets[m].total = packets[m].ICMP + packets[m].TCP + packets[m].UDP
    BY <1>1 DEF TraceAddsUp
  <2>1. CASE m = n
    <3>1. \A c \in Counters :
            /\ packets[n][c] = unwritten[n][c] + written[n][c] + trace[n][c]
            /\ packets[n][c] \in Nat
      BY <1>2 DEF TraceAddsUp, CounterTypes
    <3>2. \A c \in Counters : trace'[n][c] = 0
      BY <1>4, <1>5
    <3>3. \A c \in Counters :
            packets[n][c] = unwritten'[n][c] + written'[n][c] + trace'[n][c]
      BY <1>7, <3>1, <3>2
    <3> QED
      BY <1>2, <2>1, <3>3 DEF TraceAddsUp
  <2>2. CASE m # n
    BY <1>2, <1>5, <1>7, <2>2 DEF TraceAddsUp
  <2> QED
    BY <2>1, <2>2
<1> QED
  BY <1>3, <1>8, <1>9 DEF IInv

-----------------------------------------------------------------------------
(* The specification.                                                      *)

LEMMA InitInv == Init => IInv
<1> SUFFICES ASSUME Init PROVE IInv
  OBVIOUS
<1>1. Zero \in [Counters -> Nat] /\ \A c \in Counters : Zero[c] = 0
  BY DEF Zero
<1>2. PacketTypes
  BY IPNetworkAssumption DEF Init, initializeQueues, PacketTypes, IPNetworkAssumption
<1>3. CounterTypes
  BY <1>1 DEF Init, CounterTypes
<1>4. DeliveredToAddressee
  BY DEF Init, DeliveredToAddressee
<1>5. TraceAddsUp
  <2>1. {"total", "ICMP", "TCP", "UDP"} = Counters
    BY DEF Counters, Protocols
  <2>2. \A n \in Traced :
          /\ packets[n] = Zero /\ unwritten[n] = Zero /\ written[n] = Zero /\ trace[n] = Zero
    BY DEF Init
  <2>3. Zero.total = 0 /\ Zero.ICMP = 0 /\ Zero.TCP = 0 /\ Zero.UDP = 0
    BY <1>1, <2>1
  <2> QED
    BY <1>1, <2>2, <2>3 DEF TraceAddsUp
<1> QED
  BY <1>2, <1>3, <1>4, <1>5 DEF IInv

LEMMA NextInv == IInv /\ [Next]_vars => IInv'
<1> SUFFICES ASSUME IInv, [Next]_vars PROVE IInv'
  OBVIOUS
<1>1. CASE UNCHANGED vars
  <2>1. CounterTypes' /\ TraceAddsUp'
    BY <1>1, SameCounters DEF vars, counters
  <2>2. PacketTypes' /\ DeliveredToAddressee'
    BY <1>1 DEF IInv, vars, PacketTypes, DeliveredToAddressee
  <2> QED
    BY <2>1, <2>2 DEF IInv
<1> QED
  BY <1>1, SendStep, ForwardStep, TraceStep DEF Next

LEMMA Invariance == Spec => []IInv
  BY InitInv, NextInv, PTL DEF Spec

(* IPNetwork's types: packets, queues, counters; no time to live is ever   *)
(* negative.                                                               *)
THEOREM TypeCorrect == Spec => []TypeOK
<1>1. IInv => TypeOK
  <2> SUFFICES ASSUME IInv PROVE TypeOK
    OBVIOUS
  <2>1. \A l \in Links : line[l] \in Seq(UnderWay)
    BY DEF IInv, PacketTypes
  <2>2. UnderWay \subseteq Packet
    BY DEF UnderWay, Addressed
  <2>3. \A l \in Links : \A i \in DOMAIN line[l] : line[l][i] \in Packet
    BY <2>1, <2>2
  <2> QED
    BY <2>3 DEF IInv, PacketTypes, CounterTypes, TypeOK
<1> QED
  BY <1>1, Invariance, PTL

(* On every topology, and with whatever routes: a packet that is delivered *)
(* is at the node it was sent to.                                          *)
THEOREM DeliveredToAddresseeHolds == Spec => []DeliveredToAddressee
<1>1. IInv => DeliveredToAddressee
  BY DEF IInv
<1> QED
  BY <1>1, Invariance, PTL

(* IP_hack.cc:65-101,233-255: for any number of packets, nodes and trace   *)
(* timers the intervals of a router add up to what it has forwarded.       *)
THEOREM TraceAddsUpHolds == Spec => []TraceAddsUp
<1>1. IInv => TraceAddsUp
  BY DEF IInv
<1> QED
  BY <1>1, Invariance, PTL

-----------------------------------------------------------------------------
(* Packets between nodes of a system come nearer with every hop.           *)

(* A packet on its way to n has at least as many hops left as there are    *)
(* links from n to its addressee, one more for the arrival; and it is not  *)
(* on its way to a host that would have to forward it.                     *)
OnCourse(n, p) ==
  /\ ASOf[n] = ASOf[p.to] /\ Near(n, p.to, p.ttl)
  /\ routerType[n] = "ENDSYS" => n = p.to

OnCourses(lines) ==
  \A l \in Links : \A i \in DOMAIN lines[l] :
    SameAS(lines[l][i]) => OnCourse(l[2], lines[l][i])

RInv == IInv /\ IntraASRoutes /\ OnCourses(line)

(* routePacket keeps this: a packet with enough hops gets a route.         *)
LEMMA RoutedNearer ==
  ASSUME IntraASRoutes, NEW lines \in [Links -> Seq(UnderWay)], OnCourses(lines),
         NEW n \in Nodes, NEW p \in Addressed, NEW fromHL, routePacket(lines, n, p, fromHL),
         SameAS(p) => /\ ASOf[n] = ASOf[p.to] /\ Near(n, p.to, p.ttl + 1)
                      /\ routerType[n] = "ENDSYS" => fromHL \/ n = p.to
  PROVE  IntraASRoutes' /\ OnCourses(line')
<1> DEFINE interface == getInterfaceForDestAddr(n, p.dest)
<1>1. p.to \in Nodes /\ p.dest = addr[p.to] /\ p.ttl \in Nat
  BY IPNetworkAssumption DEF Addressed, Packet, IPNetworkAssumption
<1>2. ASSUME SameAS(p), p.dest # addr[n]
      PROVE  Nearer(interface, n, p.to) /\ p.ttl > 0 /\ (routerType[n] = "ENDSYS" => fromHL)
  <2>1. n # p.to
    BY <1>1, <1>2
  <2>2. ASOf[n] = ASOf[p.to] /\ Near(n, p.to, p.ttl + 1) /\ p.ttl + 1 \in Nat
    BY <1>1, <1>2
  <2>3. Nearer(interface, n, p.to)
    <3>1. \E k \in Nat : Near(n, p.to, k)
      BY <2>2
    <3>2. Nearer(getInterfaceForDestAddr(n, addr[p.to]), n, p.to)
      BY <1>1, <2>1, <2>2, <3>1, ShortestWay
    <3> QED
      BY <1>1, <3>2
  <2>4. p.ttl > 0
    <3> SUFFICES ASSUME p.ttl = 0 PROVE FALSE
      BY <1>1
    <3>1. Near(n, p.to, 1)
      BY <2>2
    <3>2. rlPaths[p.to][1] = {p.to} /\ DOMAIN rlPaths[p.to] = 1..Size
      BY <1>1, Paths, WithinLayers
    <3> QED
      BY <2>1, <3>1, <3>2, SizeType DEF Near
  <2> QED
    BY <1>2, <2>1, <2>3, <2>4
<1> HIDE DEF interface
<1>3. CASE p.dest = addr[n] /\ line' = lines /\ UNCHANGED unroutable
  BY <1>3 DEF IntraASRoutes
<1>4. CASE /\ p.dest # addr[n]
           /\ interface = NONE \/ p.ttl = 0 \/ (~fromHL /\ routerType[n] = "ENDSYS")
           /\ unroutable' = unroutable \cup {p} /\ line' = lines
  <2>1. ~SameAS(p)
    BY <1>1, <1>2, <1>4 DEF Nearer
  <2> QED
    BY <1>4, <2>1 DEF IntraASRoutes
<1>5. CASE p.dest # addr[n] /\ enqueue(lines, <<n, interface>>, p) /\ UNCHANGED unroutable
  <2>1. IntraASRoutes'
    BY <1>5 DEF IntraASRoutes
  <2>2. CASE line' = lines
    BY <2>1, <2>2
  <2>3. CASE line' = [lines EXCEPT ![<<n, interface>>] = Append(@, p)]
    <3> SUFFICES ASSUME NEW l \in Links, NEW i \in DOMAIN line'[l], SameAS(line'[l][i])
                 PROVE  OnCourse(l[2], line'[l][i])
      BY <2>1 DEF OnCourses
    <3>1. lines[l] \in Seq(UnderWay)
      OBVIOUS
    <3>2. CASE i \in DOMAIN lines[l] /\ line'[l][i] = lines[l][i]
      BY <3>2 DEF OnCourses
    <3>3. CASE l = <<n, interface>> /\ line'[l][i] = p
      <4>1. Nearer(interface, n, p.to)
        BY <1>2, <1>5, <3>3
      <4>2. ASOf[interface] = ASOf[p.to] /\ (routerType[interface] = "ENDSYS" => interface = p.to)
        BY <4>1 DEF Nearer
      <4>3. Near(interface, p.to, p.ttl)
        BY <1>1, <3>3, <4>1 DEF Nearer
      <4> QED
        BY <3>3, <4>2, <4>3 DEF OnCourse
    <3>4. \/ i \in DOMAIN lines[l] /\ line'[l][i] = lines[l][i]
          \/ l = <<n, interface>> /\ line'[l][i] = p
      <4>1. CASE l = <<n, interface>>
        <5>1. line'[l] = Append(lines[l], p)
          BY <2>3, <4>1
        <5> QED
          BY <3>1, <4>1, <5>1
      <4>2. CASE l # <<n, interface>>
        BY <2>3, <4>2
      <4> QED
        BY <4>1, <4>2
    <3> QED
      BY <3>2, <3>3, <3>4
  <2> QED
    BY <1>5, <2>2, <2>3 DEF enqueue
<1> QED
  BY <1>3, <1>4, <1>5 DEF routePacket, interface

LEMMA SendOnCourse ==
  ASSUME RInv, NEW h \in Hosts, handleMessageFromHL(h)
  PROVE  IntraASRoutes' /\ OnCourses(line)'
<1>1. PICK to \in Hosts \ {h} : routePacket(line, h, datagram(h, to), TRUE)
  BY DEF handleMessageFromHL
<1>2. /\ line \in [Links -> Seq(UnderWay)] /\ IntraASRoutes /\ OnCourses(line)
      /\ h \in Nodes /\ to \in Nodes /\ to \in Hosts /\ HopLimit \in Nat
      /\ sent \in 0..MaxPackets /\ sent < MaxPackets
  BY IPNetworkAssumption DEF RInv, IInv, PacketTypes, IPNetworkAssumption, handleMessageFromHL
<1> DEFINE p == datagram(h, to)
<1>3. p \in Addressed
  BY <1>2, Datagrams DEF UnderWay
<1>4. p.to = to /\ p.from = h /\ p.ttl = HopLimit
  BY DEF datagram
<1>5. SameAS(p) => ASOf[h] = ASOf[p.to] /\ Near(h, p.to, p.ttl + 1)
  BY <1>2, <1>4, HopLimitAssumption DEF SameAS, Near, HopLimitAssumption
<1> HIDE DEF p
<1>6. IntraASRoutes' /\ OnCourses(line')
  BY <1>1, <1>2, <1>3, <1>5, RoutedNearer DEF p
<1> QED
  BY <1>6 DEF OnCourses

LEMMA ForwardOnCourse ==
  ASSUME RInv, NEW l \in Links, handlePacketFromNetwork(l)
  PROVE  IntraASRoutes' /\ OnCourses(line)'
<1> DEFINE first == Head(line[l])
           p == [first EXCEPT !.ttl = @ - 1]
           queue == dequeue(line[l])
           lines == [line EXCEPT ![l] = queue]
<1>1. line[l] # <<>> /\ routePacket(lines, l[2], p, FALSE)
  BY DEF handlePacketFromNetwork
<1>2. line \in [Links -> Seq(UnderWay)] /\ IntraASRoutes /\ OnCourses(line) /\ l[2] \in Nodes
  BY DEF RInv, IInv, PacketTypes, Links
<1>3. /\ first \in UnderWay /\ queue \in Seq(UnderWay)
      /\ \A i \in DOMAIN queue : i + 1 \in DOMAIN line[l] /\ queue[i] = line[l][i + 1]
      /\ 1 \in DOMAIN line[l] /\ first = line[l][1]
  BY <1>1, <1>2 DEF dequeue
<1>4. p \in Addressed
  BY <1>3, Hop
<1>5. p.to = first.to /\ p.from = first.from /\ p.ttl + 1 = first.ttl
  BY <1>3 DEF UnderWay, Addressed, Packet
<1>6. SameAS(p) => /\ ASOf[l[2]] = ASOf[p.to] /\ Near(l[2], p.to, p.ttl + 1)
                   /\ routerType[l[2]] = "ENDSYS" => l[2] = p.to
  <2> HIDE DEF p, first
  <2> QED
    BY <1>2, <1>3, <1>5 DEF OnCourses, OnCourse, SameAS
<1> HIDE DEF p, first, queue
<1>7. lines \in [Links -> Seq(UnderWay)]
  BY <1>2, <1>3
<1>8. OnCourses(lines)
  BY <1>2, <1>3 DEF OnCourses
<1> HIDE DEF lines
<1>9. IntraASRoutes' /\ OnCourses(line')
  BY <1>1, <1>2, <1>4, <1>6, <1>7, <1>8, RoutedNearer
<1> QED
  BY <1>9 DEF OnCourses

(* TGMNetworkConfigurator.cc:290-389, IP_hack.cc:277: on every topology on *)
(* which hosts of a system are within HopLimit links and end systems hang  *)
(* on one edge router, IP never drops a packet for the same system: it     *)
(* finds a route at every node, and no route leads in a circle.            *)
THEOREM IntraASRoutesHold == Spec => []IntraASRoutes
<1>1. Init => RInv
  BY InitInv DEF RInv, Init, initializeQueues, IntraASRoutes, OnCourses
<1>2. RInv /\ [Next]_vars => RInv'
  <2> SUFFICES ASSUME RInv, [Next]_vars PROVE RInv'
    OBVIOUS
  <2>1. IInv'
    BY NextInv DEF RInv
  <2>2. ASSUME UNCHANGED <<line, unroutable>> PROVE IntraASRoutes' /\ OnCourses(line)'
    BY <2>2 DEF RInv, IntraASRoutes, OnCourses
  <2>3. (\E n \in Traced : traceOut(n)) \/ UNCHANGED vars => UNCHANGED <<line, unroutable>>
    BY DEF traceOut, vars
  <2>4. IntraASRoutes' /\ OnCourses(line)'
    BY <2>2, <2>3, SendOnCourse, ForwardOnCourse DEF Next
  <2> QED
    BY <2>1, <2>4 DEF RInv
<1>3. RInv => IntraASRoutes
  BY DEF RInv
<1> QED
  BY <1>1, <1>2, <1>3, PTL DEF Spec

-----------------------------------------------------------------------------
(* Nothing is lost.                                                        *)

(* Packet k is delivered, dropped, or on a link.                           *)
Somewhere(k, lines) ==
  \/ \E p \in dropped \cup unroutable : p.id = k
  \/ \E n \in Nodes : \E i \in DOMAIN delivered[n] : delivered[n][i].id = k
  \/ \E l \in Links : \E i \in DOMAIN lines[l] : lines[l][i].id = k

(* IP_hack.cc:233-334, DropTailTraceQueue.cc:42-56: no packet vanishes.    *)
NothingLost == \A k \in 1..sent : Somewhere(k, line)

(* routePacket puts a packet somewhere, and moves no other.                *)
LEMMA RoutedSomewhere ==
  ASSUME NEW lines \in [Links -> Seq(UnderWay)], delivered \in [Nodes -> Seq(Packet)],
         NEW n \in Nodes, NEW p, NEW fromHL, routePacket(lines, n, p, fromHL)
  PROVE  /\ \A k : Somewhere(k, lines) => Somewhere(k, line)'
         /\ \A k : k = p.id => Somewhere(k, line)'
<1> DEFINE interface == getInterfaceForDestAddr(n, p.dest)
<1>1. CASE delivered' = [delivered EXCEPT ![n] = Append(@, p)]
           /\ line' = lines /\ UNCHANGED <<dropped, unroutable>>
  <2>1. /\ \A m \in Nodes : \A i \in DOMAIN delivered[m] :
             i \in DOMAIN delivered'[m] /\ delivered'[m][i] = delivered[m][i]
        /\ \E i \in DOMAIN delivered'[n] : delivered'[n][i] = p
    <3> DEFINE d == Append(delivered[n], p)
    <3>1. /\ \A i \in DOMAIN delivered[n] : i \in DOMAIN d /\ d[i] = delivered[n][i]
          /\ Len(d) \in DOMAIN d /\ d[Len(d)] = p
      OBVIOUS
    <3>2. delivered' = [delivered EXCEPT ![n] = d]
      BY <1>1
    <3> HIDE DEF d
    <3>3. delivered'[n] = d /\ \A m \in Nodes \ {n} : delivered'[m] = delivered[m]
      BY <3>2
    <3> QED
      BY <3>1, <3>3
  <2> QED
    BY <1>1, <2>1 DEF Somewhere
<1>2. CASE unroutable' = unroutable \cup {p} /\ line' = lines /\ UNCHANGED <<delivered, dropped>>
  BY <1>2 DEF Somewhere
<1>3. CASE dropped' = dropped \cup {p} /\ line' = lines /\ UNCHANGED <<delivered, unroutable>>
  BY <1>3 DEF Somewhere
<1>4. CASE /\ interface # NONE /\ line' = [lines EXCEPT ![<<n, interface>>] = Append(@, p)]
           /\ UNCHANGED <<dropped, delivered, unroutable>>
  <2> DEFINE l == <<n, interface>>
             queue == Append(lines[l], p)
  <2>1. l \in Links
    BY <1>4, InterfaceLeads
  <2> HIDE DEF l
  <2>2. /\ \A i \in DOMAIN lines[l] : i \in DOMAIN queue /\ queue[i] = lines[l][i]
        /\ Len(queue) \in DOMAIN queue /\ queue[Len(queue)] = p
    BY <2>1
  <2>3. line' = [lines EXCEPT ![l] = queue]
    BY <1>4 DEF l
  <2> HIDE DEF queue
  <2>4. line'[l] = queue /\ \A m \in Links \ {l} : line'[m] = lines[m]
    BY <2>1, <2>3
  <2>5. \A m \in Links : \A i \in DOMAIN lines[m] :
          i \in DOMAIN line'[m] /\ line'[m][i] = lines[m][i]
    BY <2>2, <2>4
  <2>6. \E i \in DOMAIN line'[l] : line'[l][i].id = p.id
    BY <2>2, <2>4
  <2>7. UNCHANGED <<dropped, delivered, unroutable>>
    BY <1>4
  <2>8. ASSUME NEW k, Somewhere(k, lines) PROVE Somewhere(k, line)'
    <3> HIDE DEF interface
    <3> QED
      BY <2>5, <2>7, <2>8 DEF Somewhere
  <2>9. ASSUME NEW k, k = p.id PROVE Somewhere(k, line)'
    <3> HIDE DEF interface
    <3> QED
      BY <2>1, <2>6, <2>9 DEF Somewhere
  <2> QED
    BY <2>8, <2>9
<1> QED
  BY <1>1, <1>2, <1>3, <1>4 DEF routePacket, enqueue

(* IP_hack.cc:233-334, DropTailTraceQueue.cc:42-56: at any time every      *)
(* packet sent has been delivered, was dropped by a queue, found no route, *)
(* or is on a link; no route leads to an interface without a link, where   *)
(* it would vanish.  What Arrives adds is that links do not hold a packet  *)
(* for ever.                                                               *)
THEOREM NothingLostHolds == Spec => []NothingLost
<1>1. Init => NothingLost
  BY DEF Init, NothingLost
<1>2. ASSUME IInv, NothingLost, [Next]_vars PROVE NothingLost'
  <2>1. /\ line \in [Links -> Seq(UnderWay)] /\ delivered \in [Nodes -> Seq(Packet)]
        /\ sent \in Nat
    BY <1>2 DEF IInv, PacketTypes
  <2>2. ASSUME NEW h \in Hosts, handleMessageFromHL(h) PROVE NothingLost'
    <3>1. PICK to \in Hosts \ {h} : routePacket(line, h, datagram(h, to), TRUE)
      BY <2>2 DEF handleMessageFromHL
    <3>2. h \in Nodes /\ sent' = sent + 1 /\ datagram(h, to).id = sent + 1
      BY <2>2, IPNetworkAssumption DEF handleMessageFromHL, IPNetworkAssumption, datagram
    <3>3. \A k : Somewhere(k, line) \/ k = datagram(h, to).id => Somewhere(k, line)'
      BY <2>1, <3>1, <3>2, RoutedSomewhere
    <3>4. \A k \in 1..sent' : k \in 1..sent \/ k = datagram(h, to).id
      BY <2>1, <3>2
    <3> QED
      BY <1>2, <3>3, <3>4 DEF NothingLost
  <2>3. ASSUME NEW l \in Links, handlePacketFromNetwork(l) PROVE NothingLost'
    <3> DEFINE first == Head(line[l])
               p == [first EXCEPT !.ttl = @ - 1]
               queue == dequeue(line[l])
               lines == [line EXCEPT ![l] = queue]
    <3>1. /\ line[l] # <<>> /\ routePacket(lines, l[2], p, FALSE) /\ sent' = sent
      BY <2>3 DEF handlePacketFromNetwork
    <3>2. /\ queue \in Seq(UnderWay) /\ first \in UnderWay /\ l[2] \in Nodes
          /\ \A i \in DOMAIN line[l] : i # 1 => i - 1 \in DOMAIN queue /\ queue[i - 1] = line[l][i]
          /\ first = line[l][1]
      <4> DEFINE q == line[l]
      <4>1. q \in Seq(UnderWay) /\ q # <<>> /\ l[2] \in Nodes
        BY <2>1, <3>1 DEF Links
      <4> HIDE DEF q
      <4>2. /\ Tail(q) \in Seq(UnderWay) /\ Head(q) \in UnderWay /\ Head(q) = q[1]
            /\ DOMAIN q = 1..Len(q) /\ DOMAIN Tail(q) = 1..(Len(q) - 1) /\ Len(q) \in Nat
        BY <4>1
      <4>3. \A i \in DOMAIN q : i # 1 => i - 1 \in DOMAIN Tail(q) /\ Tail(q)[i - 1] = q[i]
        BY <4>1, <4>2
      <4> QED
        BY <4>1, <4>2, <4>3 DEF q, dequeue
    <3>3. p.id = first.id
      BY <3>2 DEF UnderWay, Addressed, Packet
    <3> HIDE DEF p, first, queue
    <3>4. /\ lines \in [Links -> Seq(UnderWay)] /\ lines[l] = queue
          /\ \A m \in Links \ {l} : lines[m] = line[m]
      BY <2>1, <3>2
    <3> HIDE DEF lines
    <3>5. ASSUME NEW k, Somewhere(k, line) PROVE Somewhere(k, lines) \/ k = p.id
      <4> SUFFICES ASSUME NEW m \in Links, NEW i \in DOMAIN line[m], line[m][i].id = k
                   PROVE  Somewhere(k, lines) \/ k = p.id
        BY <3>5 DEF Somewhere
      <4>1. CASE m # l
        BY <3>4, <4>1 DEF Somewhere
      <4>2. CASE m = l /\ i = 1
        BY <3>2, <3>3, <4>2
      <4>3. CASE m = l /\ i # 1
        <5>1. i - 1 \in DOMAIN lines[l] /\ lines[l][i - 1].id = k
          BY <3>2, <3>4, <4>3
        <5> QED
          BY <5>1 DEF Somewhere
      <4> QED
        BY <4>1, <4>2, <4>3
    <3>6. \A k : Somewhere(k, lines) \/ k = p.id => Somewhere(k, line)'
      BY <2>1, <3>1, <3>2, <3>4, RoutedSomewhere
    <3> QED
      BY <1>2, <3>1, <3>5, <3>6 DEF NothingLost
  <2>4. (\E n \in Traced : traceOut(n)) \/ UNCHANGED vars
          => UNCHANGED <<line, sent, delivered, dropped, unroutable>>
    BY DEF traceOut, vars
  <2>5. ASSUME UNCHANGED <<line, sent, delivered, dropped, unroutable>> PROVE NothingLost'
    BY <1>2, <2>5 DEF NothingLost, Somewhere
  <2> QED
    BY <1>2, <2>2, <2>3, <2>4, <2>5 DEF Next
<1>3. IInv /\ NothingLost /\ [Next]_vars => NothingLost'
  BY <1>2
<1> QED
  BY <1>1, <1>3, Invariance, PTL DEF Spec

-----------------------------------------------------------------------------
(* Order.  The route of a packet depends only on its source and addressee, *)
(* and the hop it has reached on the time to live that is left: of two     *)
(* packets, the later one has made no more hops than the earlier one, and  *)
(* in a queue they stand in the order in which they were sent.             *)

SamePair(p, q) == p.from = q.from /\ p.to = q.to
hops(p) == HopLimit - p.ttl

(* The packet that has come further is the older one.                      *)
Apart(c, d) ==
  \A i \in 1..Len(c), j \in 1..Len(d) :
    SamePair(c[i], d[j]) /\ c[i].ttl < d[j].ttl => c[i].id < d[j].id

(* On the same hop, too, the packet in front is the older one.             *)
InTurn(c) ==
  \A i, j \in 1..Len(c) :
    i < j /\ SamePair(c[i], c[j]) /\ c[i].ttl = c[j].ttl => c[i].id < c[j].id

Ordered(lines) ==
  /\ \A l, m \in Links : Apart(lines[l], lines[m])
  /\ \A l \in Links : InTurn(lines[l])

(* A packet that is between two links fits in with those on the links.     *)
FitsIn(p, q) ==
  SamePair(p, q) => IF q.ttl <= p.ttl THEN q.id < p.id ELSE p.id < q.id

Enters(lines, p) == \A l \in Links : \A i \in 1..Len(lines[l]) : FitsIn(p, lines[l][i])

(* The nodes on the way from h to an addressee, as far as a packet came.   *)
Way(w, h, to) ==
  /\ w \in Seq(Nodes) /\ w # <<>> /\ w[1] = h
  /\ \A i \in 1..(Len(w) - 1) :
       addr[w[i]] # addr[to] /\ getInterfaceForDestAddr(w[i], addr[to]) = w[i + 1]

Ways(ways) == \A h, to \in Hosts : Way(ways[h][to], h, to)

(* What has arrived is older than what is under way.                       *)
Later(p) ==
  \A i \in 1..Len(delivered[p.to]) :
    delivered[p.to][i].from = p.from => delivered[p.to][i].id < p.id

Behind(p) == p.id <= sent /\ Later(p)

AtNode(ways, n, p) ==
  LET w == ways[p.from][p.to] IN hops(p) + 1 <= Len(w) /\ w[hops(p) + 1] = n

OnLink(ways, l, p) ==
  LET w == ways[p.from][p.to]
  IN  hops(p) + 2 <= Len(w) /\ w[hops(p) + 1] = l[1] /\ w[hops(p) + 2] = l[2]

Flow(ways, lines) ==
  \A l \in Links : \A i \in 1..Len(lines[l]) :
    /\ lines[l][i].ttl <= HopLimit
    /\ OnLink(ways, l, lines[l][i])

Late(lines) == \A l \in Links : \A i \in 1..Len(lines[l]) : Behind(lines[l][i])

Numbers == \A n \in Nodes : \A i \in 1..Len(delivered[n]) : delivered[n][i].id <= sent

OInv ==
  /\ IInv
  /\ Ordered(line) /\ Late(line) /\ Numbers /\ InOrder
  /\ \E ways \in [Hosts -> [Hosts -> Seq(Nodes)]] : Ways(ways) /\ Flow(ways, line)

(* The end of a transmission: the queue moves up.                          *)
MovedUp(lines, l, rest) ==
  /\ \A m \in Links \ {l} : rest[m] = lines[m]
  /\ Len(lines[l]) \in Nat \ {0} /\ Len(rest[l]) = Len(lines[l]) - 1
  /\ \A i \in 1..Len(rest[l]) : i + 1 \in 1..Len(lines[l]) /\ rest[l][i] = lines[l][i + 1]

LEMMA MovesUp ==
  ASSUME NEW lines \in [Links -> Seq(UnderWay)], NEW l \in Links, lines[l] # <<>>,
         NEW rest, rest = [lines EXCEPT ![l] = dequeue(lines[l])]
  PROVE  /\ rest \in [Links -> Seq(UnderWay)] /\ MovedUp(lines, l, rest)
         /\ Head(lines[l]) = lines[l][1] /\ Head(lines[l]) \in UnderWay
<1> DEFINE q == lines[l]
<1>1. q \in Seq(UnderWay) /\ q # <<>>
  OBVIOUS
<1> HIDE DEF q
<1> DEFINE t == Tail(q)
<1>2. /\ t \in Seq(UnderWay) /\ Len(q) \in Nat \ {0} /\ Len(t) = Len(q) - 1
      /\ \A i \in 1..Len(t) : i + 1 \in 1..Len(q) /\ t[i] = q[i + 1]
      /\ Head(q) = q[1] /\ Head(q) \in UnderWay
  BY <1>1
<1> HIDE DEF t
<1>3. rest = [lines EXCEPT ![l] = t]
  BY DEF dequeue, q, t
<1>4. rest[l] = t /\ \A m \in Links \ {l} : rest[m] = lines[m]
  BY <1>3
<1>5. rest \in [Links -> Seq(UnderWay)]
  BY <1>2, <1>3
<1> QED
  BY <1>2, <1>4, <1>5 DEF q, MovedUp

LEMMA StillThere ==
  ASSUME NEW lines, NEW l \in Links, NEW rest, MovedUp(lines, l, rest)
  PROVE  \A m \in Links : \A i \in 1..Len(rest[m]) :
           \E k \in 1..Len(lines[m]) : rest[m][i] = lines[m][k] /\ (m = l => k > 1)
<1> SUFFICES ASSUME NEW m \in Links, NEW i \in 1..Len(rest[m])
             PROVE  \E k \in 1..Len(lines[m]) : rest[m][i] = lines[m][k] /\ (m = l => k > 1)
  OBVIOUS
<1>1. CASE m = l
  <2>1. i + 1 \in 1..Len(lines[l]) /\ rest[l][i] = lines[l][i + 1] /\ i + 1 > 1
    BY <1>1 DEF MovedUp
  <2> QED
    BY <1>1, <2>1
<1>2. CASE m # l
  BY <1>2 DEF MovedUp
<1> QED
  BY <1>1, <1>2

(* What stays in the queues stays in order.                                *)
LEMMA OrderedRest ==
  ASSUME NEW lines, Ordered(lines), NEW l \in Links, NEW rest, MovedUp(lines, l, rest)
  PROVE  Ordered(rest)
<1>1. ASSUME NEW m \in Links, NEW i \in 1..Len(rest[m])
      PROVE  \E k \in 1..Len(lines[m]) : rest[m][i] = lines[m][k]
  BY StillThere
<1>2. ASSUME NEW m \in Links, NEW n \in Links PROVE Apart(rest[m], rest[n])
  <2>1. Apart(lines[m], lines[n])
    BY DEF Ordered
  <2> QED
    BY <1>1, <2>1 DEF Apart
<1>3. ASSUME NEW m \in Links PROVE InTurn(rest[m])
  <2>1. InTurn(lines[m])
    BY DEF Ordered
  <2>2. CASE m # l
    BY <2>1, <2>2 DEF MovedUp
  <2>3. CASE m = l
    <3> SUFFICES ASSUME NEW i \in 1..Len(rest[l]), NEW j \in 1..Len(rest[l]), i < j,
                        SamePair(rest[l][i], rest[l][j]), rest[l][i].ttl = rest[l][j].ttl
                 PROVE  rest[l][i].id < rest[l][j].id
      BY <2>3 DEF InTurn
    <3>1. /\ i + 1 \in 1..Len(lines[l]) /\ rest[l][i] = lines[l][i + 1]
          /\ j + 1 \in 1..Len(lines[l]) /\ rest[l][j] = lines[l][j + 1]
      BY DEF MovedUp
    <3>2. i + 1 < j + 1
      OBVIOUS
    <3> QED
      BY <2>1, <2>3, <3>1, <3>2 DEF InTurn
  <2> QED
    BY <2>2, <2>3
<1> QED
  BY <1>2, <1>3 DEF Ordered

(* The packet that leaves a link fits in with those that stay.             *)
LEMMA HeadEnters ==
  ASSUME NEW lines \in [Links -> Seq(UnderWay)], Ordered(lines), NEW l \in Links,
         lines[l] # <<>>, NEW rest, MovedUp(lines, l, rest), NEW ways, Flow(ways, lines), NEW p,
         SamePair(p, Head(lines[l])), p.id = Head(lines[l]).id, p.ttl = Head(lines[l]).ttl - 1
  PROVE  Enters(rest, p)
<1> DEFINE f == Head(lines[l])
<1> SUFFICES ASSUME NEW m \in Links, NEW i \in 1..Len(rest[m]), SamePair(p, rest[m][i])
             PROVE  IF rest[m][i].ttl <= p.ttl THEN rest[m][i].id < p.id
                    ELSE p.id < rest[m][i].id
  BY DEF Enters, FitsIn
<1> DEFINE q == rest[m][i]
<1>1. PICK k \in 1..Len(lines[m]) : q = lines[m][k] /\ (m = l => k > 1)
  BY StillThere
<1>2. 1 \in 1..Len(lines[l]) /\ f = lines[l][1] /\ f \in UnderWay /\ q \in UnderWay
  <2>1. lines[l] \in Seq(UnderWay) /\ lines[m] \in Seq(UnderWay)
    OBVIOUS
  <2>2. q \in UnderWay
    BY <1>1, <2>1
  <2> QED
    BY <2>1, <2>2
<1>3. f.ttl \in Nat /\ q.ttl \in Nat /\ f.id \in Int /\ q.id \in Int /\ SamePair(f, q)
      /\ SamePair(q, f)
  BY <1>2 DEF UnderWay, Addressed, Packet, SamePair
<1>4. (q.ttl < f.ttl => q.id < f.id) /\ (f.ttl < q.ttl => f.id < q.id)
  BY <1>1, <1>2, <1>3 DEF Ordered, Apart
<1>5. f.ttl = q.ttl => f.id < q.id
  <2> SUFFICES ASSUME f.ttl = q.ttl PROVE f.id < q.id
    OBVIOUS
  <2>1. OnLink(ways, l, f) /\ OnLink(ways, m, q)
    BY <1>1, <1>2 DEF Flow
  <2>2. l[1] = m[1] /\ l[2] = m[2]
    BY <1>3, <2>1 DEF OnLink, hops, SamePair
  <2>3. l = m
    BY <2>2 DEF Links
  <2> QED
    BY <1>1, <1>2, <1>3, <2>3 DEF Ordered, InTurn
<1> HIDE DEF q, f
<1>6. IF q.ttl <= p.ttl THEN q.id < p.id ELSE p.id < q.id
  <2>1. p.id = f.id /\ p.ttl = f.ttl - 1
    BY DEF f
  <2> QED
    BY <1>3, <1>4, <1>5, <2>1
<1> QED
  BY <1>6 DEF q

(* A packet that fits in may join any queue.                               *)
JoinedBy(lines, l, p, joined) ==
  \A m \in Links : \A i \in 1..Len(joined[m]) :
    \/ i \in 1..Len(lines[m]) /\ joined[m][i] = lines[m][i]
    \/ m = l /\ joined[m][i] = p

LEMMA OrderedJoined ==
  ASSUME NEW lines \in [Links -> Seq(UnderWay)], Ordered(lines), NEW l \in Links,
         NEW p \in UnderWay, Enters(lines, p),
         NEW joined, joined = [lines EXCEPT ![l] = Append(lines[l], p)]
  PROVE  Ordered(joined) /\ JoinedBy(lines, l, p, joined)
<1>1. /\ Len(lines[l]) \in Nat /\ joined[l] = Append(lines[l], p)
      /\ \A m \in Links \ {l} : joined[m] = lines[m]
  OBVIOUS
<1>2. ASSUME NEW m \in Links, NEW i \in 1..Len(joined[m])
      PROVE  \/ i \in 1..Len(lines[m]) /\ joined[m][i] = lines[m][i]
             \/ m = l /\ joined[m][i] = p /\ i = Len(lines[l]) + 1
  <2>1. CASE m # l
    BY <1>1, <2>1
  <2>2. CASE m = l
    BY <1>1, <2>2
  <2> QED
    BY <2>1, <2>2
<1>3. /\ p.ttl \in Nat
      /\ \A m \in Links : \A i \in 1..Len(lines[m]) :
           FitsIn(p, lines[m][i]) /\ lines[m][i].ttl \in Nat
  <2>1. \A q \in UnderWay : q.ttl \in Nat
    BY DEF UnderWay, Addressed, Packet
  <2>2. ASSUME NEW m \in Links, NEW i \in 1..Len(lines[m]) PROVE lines[m][i] \in UnderWay
    <3>1. lines[m] \in Seq(UnderWay)
      OBVIOUS
    <3> QED
      BY <3>1
  <2> QED
    BY <2>1, <2>2 DEF Enters
<1>4. ASSUME NEW m \in Links, NEW n \in Links PROVE Apart(joined[m], joined[n])
  <2> SUFFICES ASSUME NEW i \in 1..Len(joined[m]), NEW j \in 1..Len(joined[n]),
                      SamePair(joined[m][i], joined[n][j]),
                      joined[m][i].ttl < joined[n][j].ttl
               PROVE  joined[m][i].id < joined[n][j].id
    BY DEF Apart
  <2>1. CASE /\ i \in 1..Len(lines[m]) /\ joined[m][i] = lines[m][i]
             /\ j \in 1..Len(lines[n]) /\ joined[n][j] = lines[n][j]
    BY <2>1 DEF Ordered, Apart
  <2>2. CASE i \in 1..Len(lines[m]) /\ joined[m][i] = lines[m][i] /\ joined[n][j] = p
    BY <1>3, <2>2 DEF FitsIn, SamePair
  <2>3. CASE joined[m][i] = p /\ j \in 1..Len(lines[n]) /\ joined[n][j] = lines[n][j]
    BY <1>3, <2>3 DEF FitsIn, SamePair
  <2>4. ~(joined[m][i] = p /\ joined[n][j] = p)
    BY <1>3
  <2> QED
    BY <1>2, <2>1, <2>2, <2>3, <2>4
<1>5. ASSUME NEW m \in Links PROVE InTurn(joined[m])
  <2> SUFFICES ASSUME NEW i \in 1..Len(joined[m]), NEW j \in 1..Len(joined[m]), i < j,
                      SamePair(joined[m][i], joined[m][j]),
                      joined[m][i].ttl = joined[m][j].ttl
               PROVE  joined[m][i].id < joined[m][j].id
    BY DEF InTurn
  <2>1. i \in 1..Len(lines[m]) /\ joined[m][i] = lines[m][i]
    <3>1. m = l => i # Len(lines[l]) + 1
      BY <1>1
    <3> QED
      BY <1>2, <3>1
  <2>2. CASE j \in 1..Len(lines[m]) /\ joined[m][j] = lines[m][j]
    BY <2>1, <2>2 DEF Ordered, InTurn
  <2>3. CASE joined[m][j] = p
    <3> DEFINE q == lines[m][i]
    <3>1. FitsIn(p, q) /\ q.ttl \in Nat
      BY <1>3, <2>1
    <3>2. SamePair(p, q) /\ q.ttl = p.ttl
      BY <2>1, <2>3 DEF SamePair
    <3> HIDE DEF q
    <3>3. q.id < p.id
      BY <1>3, <3>1, <3>2 DEF FitsIn
    <3> QED
      BY <2>1, <2>3, <3>3 DEF q
  <2> QED
    BY <1>2, <2>2, <2>3
<1> QED
  BY <1>2, <1>4, <1>5 DEF Ordered, JoinedBy

LEMMA Hops ==
  ASSUME NEW p, p.ttl \in Nat, p.ttl <= HopLimit
  PROVE  hops(p) \in Nat
  BY IPNetworkAssumption DEF hops, IPNetworkAssumption

(* The way ends at the addressee: a packet that arrives there is the first *)
(* of those under way.                                                     *)
LEMMA ArrivesFirst ==
  ASSUME NEW lines \in [Links -> Seq(UnderWay)], NEW ways, Ways(ways), Flow(ways, lines),
         NEW n \in Nodes, NEW p \in Addressed, p.ttl <= HopLimit, Enters(lines, p),
         AtNode(ways, n, p), p.dest = addr[n],
         NEW l \in Links, NEW i \in 1..Len(lines[l]), SamePair(p, lines[l][i])
  PROVE  p.id < lines[l][i].id
<1> DEFINE q == lines[l][i]
           w == ways[p.from][p.to]
           k == hops(p) + 1
<1>1. q \in UnderWay /\ HopLimit \in Nat
  <2>1. lines[l] \in Seq(UnderWay)
    OBVIOUS
  <2> QED
    BY <2>1, IPNetworkAssumption DEF IPNetworkAssumption
<1>2. /\ p.ttl \in Nat /\ q.ttl \in Nat /\ p.from \in Hosts /\ p.to \in Hosts
      /\ p.dest = addr[p.to] /\ q.from = p.from /\ q.to = p.to
  BY <1>1 DEF UnderWay, Addressed, Packet, SamePair
<1>3. Way(w, p.from, p.to) /\ Len(w) \in Nat
  BY <1>2 DEF Ways, Way
<1>4. w[k] = n /\ k \in Nat \ {0}
  BY <1>1, <1>2 DEF AtNode, hops
<1>5. hops(q) + 2 <= Len(w)
  BY <1>2 DEF Flow, OnLink
<1>6. ~(q.ttl <= p.ttl)
  <2> SUFFICES ASSUME q.ttl <= p.ttl PROVE FALSE
    OBVIOUS
  <2>1. k \in 1..(Len(w) - 1)
    <3>1. hops(p) <= hops(q)
      BY <1>1, <1>2 DEF hops
    <3>2. hops(p) \in Nat /\ hops(q) \in Nat
      BY <1>1, <1>2, <3>1, Hops DEF hops
    <3> HIDE DEF q, w
    <3> QED
      BY <1>3, <1>5, <3>1, <3>2
  <2>2. addr[w[k]] # addr[p.to]
    BY <1>3, <2>1 DEF Way
  <2> QED
    BY <1>2, <1>4, <2>2
<1> QED
  BY <1>6 DEF Enters, FitsIn

(* One hop more: the way is long enough for it, or grows.                  *)
LEMMA WayOn ==
  ASSUME NEW ways \in [Hosts -> [Hosts -> Seq(Nodes)]], Ways(ways),
         NEW n \in Nodes, NEW p \in Addressed, p.ttl <= HopLimit, AtNode(ways, n, p),
         p.dest # addr[n], NEW m \in Nodes, m = getInterfaceForDestAddr(n, p.dest)
  PROVE  \E longer \in [Hosts -> [Hosts -> Seq(Nodes)]] :
           /\ Ways(longer) /\ OnLink(longer, <<n, m>>, p)
           /\ \A l, q : q \in UnderWay /\ q.ttl <= HopLimit /\ OnLink(ways, l, q)
                          => OnLink(longer, l, q)
<1> DEFINE w == ways[p.from][p.to]
           k == hops(p) + 1
<1>1. /\ p.ttl \in Nat /\ p.from \in Hosts /\ p.to \in Hosts /\ p.dest = addr[p.to]
      /\ HopLimit \in Nat
  BY IPNetworkAssumption DEF Addressed, Packet, IPNetworkAssumption
<1>2. /\ Way(w, p.from, p.to) /\ w \in Seq(Nodes) /\ Len(w) \in Nat
      /\ k \in 1..Len(w) /\ w[k] = n
  <2>1. Way(w, p.from, p.to)
    BY <1>1 DEF Ways
  <2>2. w \in Seq(Nodes) /\ Len(w) \in Nat
    BY <2>1 DEF Way
  <2>3. k <= Len(w) /\ w[k] = n
    BY DEF AtNode
  <2>4. k \in Nat \ {0}
    BY <1>1 DEF hops
  <2> HIDE DEF w, k
  <2> QED
    BY <2>1, <2>2, <2>3, <2>4
<1>3. CASE k < Len(w)
  <2>1. k \in 1..(Len(w) - 1) /\ k + 1 = hops(p) + 2 /\ k + 1 <= Len(w)
    <3>1. k + 1 = hops(p) + 2
      BY <1>1 DEF hops
    <3> HIDE DEF w, k
    <3> QED
      BY <1>2, <1>3, <3>1
  <2>2. w[k + 1] = m
    BY <1>1, <1>2, <2>1 DEF Way
  <2>3. OnLink(ways, <<n, m>>, p)
    BY <1>2, <2>1, <2>2 DEF OnLink
  <2> QED
    BY <2>3
<1>4. CASE k = Len(w)
  <2> DEFINE v == Append(w, m)
  <2>1. /\ v \in Seq(Nodes) /\ Len(v) = Len(w) + 1 /\ v[Len(w) + 1] = m /\ v # <<>>
        /\ \A i \in 1..Len(w) : v[i] = w[i]
    BY <1>2
  <2> HIDE DEF v
  <2>2. Way(v, p.from, p.to)
    <3>1. 1 \in 1..Len(w) /\ v[1] = p.from
      BY <1>2, <2>1 DEF Way
    <3>2. ASSUME NEW i \in 1..(Len(v) - 1)
          PROVE  addr[v[i]] # addr[p.to] /\ getInterfaceForDestAddr(v[i], addr[p.to]) = v[i + 1]
      <4>1. CASE i = Len(w)
        BY <1>1, <1>2, <1>4, <2>1, <4>1
      <4>2. CASE i # Len(w)
        <5>1. i \in 1..(Len(w) - 1) /\ i \in 1..Len(w) /\ i + 1 \in 1..Len(w)
          BY <1>2, <2>1, <4>2
        <5> QED
          BY <1>2, <2>1, <5>1 DEF Way
      <4> QED
        BY <4>1, <4>2
    <3> QED
      BY <2>1, <3>1, <3>2 DEF Way
  <2> DEFINE u == [ways[p.from] EXCEPT ![p.to] = v]
             longer == [ways EXCEPT ![p.from] = u]
  <2>3. u \in [Hosts -> Seq(Nodes)] /\ u[p.to] = v /\ \A to \in Hosts \ {p.to} : u[to] = ways[p.from][to]
    BY <1>1, <2>1
  <2> HIDE DEF u
  <2>4. /\ longer \in [Hosts -> [Hosts -> Seq(Nodes)]]
        /\ \A h, to \in Hosts :
             longer[h][to] = IF h = p.from /\ to = p.to THEN v ELSE ways[h][to]
    BY <1>1, <2>3
  <2> HIDE DEF longer
  <2>5. Ways(longer)
    BY <2>2, <2>4 DEF Ways
  <2>6. OnLink(longer, <<n, m>>, p)
    <3>1. longer[p.from][p.to] = v
      BY <1>1, <2>4
    <3>2. hops(p) + 2 = Len(w) + 1 /\ hops(p) + 1 = Len(w) /\ hops(p) + 1 \in 1..Len(w)
      <4>1. hops(p) \in Nat
        BY <1>1, Hops
      <4> HIDE DEF w
      <4> QED
        BY <1>2, <1>4, <4>1
    <3> QED
      BY <1>2, <1>4, <2>1, <3>1, <3>2 DEF OnLink
  <2>7. ASSUME NEW l, NEW q, q \in UnderWay, q.ttl <= HopLimit, OnLink(ways, l, q)
        PROVE  OnLink(longer, l, q)
    <3>1. q.ttl \in Nat /\ q.from \in Hosts /\ q.to \in Hosts
      BY <2>7 DEF UnderWay, Addressed, Packet
    <3>2. CASE q.from = p.from /\ q.to = p.to
      <4>1. longer[q.from][q.to] = v /\ ways[q.from][q.to] = w
        BY <2>4, <3>1, <3>2
      <4>2. hops(q) + 1 \in 1..Len(w) /\ hops(q) + 2 \in 1..Len(w)
        <5>1. hops(q) \in Nat /\ hops(q) + 2 <= Len(w)
          BY <2>7, <3>1, <4>1, Hops DEF OnLink
        <5> HIDE DEF w
        <5> QED
          BY <1>2, <5>1
      <4>3. w[hops(q) + 1] = l[1] /\ w[hops(q) + 2] = l[2]
        BY <2>7, <4>1 DEF OnLink
      <4>4. v[hops(q) + 1] = l[1] /\ v[hops(q) + 2] = l[2]
        BY <2>1, <4>2, <4>3
      <4>5. hops(q) + 2 <= Len(v)
        <5>1. hops(q) \in Nat
          BY <2>7, <3>1, Hops
        <5> HIDE DEF w
        <5> QED
          BY <1>2, <2>1, <4>2, <5>1
      <4> QED
        BY <4>1, <4>4, <4>5 DEF OnLink
    <3>3. CASE ~(q.from = p.from /\ q.to = p.to)
      BY <2>4, <2>7, <3>1, <3>3 DEF OnLink
    <3> QED
      BY <3>2, <3>3
  <2> QED
    BY <2>4, <2>5, <2>6, <2>7
<1>5. k < Len(w) \/ k = Len(w)
  <2> HIDE DEF w, k
  <2> QED
    BY <1>2
<1> QED
  BY <1>3, <1>4, <1>5

(* routePacket: a packet that fits in with those on the links is delivered *)
(* or queued in its turn.                                                  *)
LEMMA Delivered ==
  ASSUME IInv, InOrder, Numbers, sent' \in Nat, sent <= sent',
         NEW lines \in [Links -> Seq(UnderWay)], Late(lines),
         NEW ways, Ways(ways), Flow(ways, lines),
         NEW n \in Nodes, NEW p \in Addressed, p.ttl <= HopLimit, Enters(lines, p),
         AtNode(ways, n, p), p.id <= sent', Later(p),
         p.dest = addr[n], delivered' = [delivered EXCEPT ![n] = Append(@, p)], line' = lines
  PROVE  Late(line)' /\ Numbers' /\ InOrder'
<1> DEFINE old == delivered[n]
           new == delivered'[n]
<1>1. /\ p \in Packet /\ p.to \in Nodes /\ p.dest = addr[p.to] /\ sent \in Nat
      /\ delivered \in [Nodes -> Seq(Packet)]
  <2>1. p \in Packet /\ p.dest = addr[p.to] /\ sent \in Nat /\ delivered \in [Nodes -> Seq(Packet)]
    BY DEF IInv, PacketTypes, Addressed
  <2>2. p.to \in Nodes
    BY <2>1, IPNetworkAssumption DEF Packet, IPNetworkAssumption
  <2> QED
    BY <2>1, <2>2
<1>2. p.to = n
  BY <1>1, AddressesDiffer
<1>3. /\ \A m \in Nodes \ {n} : delivered'[m] = delivered[m]
      /\ old \in Seq(Packet) /\ new = Append(old, p)
  BY <1>1
<1> HIDE DEF old, new
<1>4. /\ Len(old) \in Nat /\ Len(new) = Len(old) + 1 /\ DOMAIN new = 1..Len(new)
      /\ new[Len(new)] = p
      /\ \A i \in 1..Len(new) : i # Len(new) => i \in 1..Len(old) /\ new[i] = old[i]
      /\ DOMAIN old = 1..Len(old)
  BY <1>1, <1>3
<1>5. \A i \in 1..Len(old) : /\ old[i].id <= sent /\ old[i].id \in Nat
                             /\ old[i].from = p.from => old[i].id < p.id
  <2>1. \A i \in 1..Len(old) : old[i] \in Packet
    BY <1>3
  <2>2. MaxPackets \in Nat /\ 1..MaxPackets \subseteq Nat
    BY IPNetworkAssumption DEF IPNetworkAssumption
  <2> QED
    BY <1>2, <2>1, <2>2 DEF Numbers, Later, Packet, old
<1>6. Numbers'
  <2>1. \A i \in 1..Len(new) : new[i].id <= sent'
    BY <1>1, <1>4, <1>5
  <2>2. ASSUME NEW m \in Nodes \ {n}, NEW i \in 1..Len(delivered[m])
        PROVE  delivered[m][i].id <= sent'
    <3>1. delivered[m][i].id <= sent /\ delivered[m][i] \in Packet
      BY <1>1, <2>2 DEF Numbers
    <3>2. delivered[m][i].id \in Int
      BY <3>1 DEF Packet
    <3> QED
      BY <1>1, <3>1, <3>2
  <2> QED
    BY <1>3, <2>1, <2>2 DEF Numbers, new
<1>7. InOrder'
  <2>1. ASSUME NEW i \in 1..Len(new), NEW j \in 1..Len(new), i < j, new[i].from = new[j].from
        PROVE  new[i].id < new[j].id
    <3>1. i # Len(new) /\ i \in 1..Len(old) /\ new[i] = old[i]
      <4>1. i # Len(new)
        BY <1>4, <2>1
      <4> QED
        BY <1>4, <4>1
    <3>2. CASE j = Len(new)
      BY <1>4, <1>5, <2>1, <3>1, <3>2
    <3>3. CASE j # Len(new)
      <4>1. j \in 1..Len(old) /\ new[j] = old[j]
        BY <1>4, <3>3
      <4> QED
        BY <1>4, <2>1, <3>1, <4>1 DEF InOrder, old
    <3> QED
      BY <3>2, <3>3
  <2> QED
    BY <1>3, <1>4, <2>1 DEF InOrder, new
<1>8. ASSUME NEW q \in UnderWay, Behind(q), SamePair(p, q) => p.id < q.id
      PROVE  Behind(q)'
  <2>1. q.id \in Int /\ q.to \in Nodes
    BY IPNetworkAssumption DEF UnderWay, Addressed, Packet, IPNetworkAssumption
  <2>2. q.id <= sent'
    BY <1>1, <1>8, <2>1 DEF Behind
  <2>3. ASSUME q.to # n PROVE Later(q)'
    BY <1>3, <1>8, <2>1, <2>3 DEF Behind, Later
  <2>4. ASSUME q.to = n PROVE Later(q)'
    <3>1. ASSUME NEW k \in 1..Len(new), new[k].from = q.from PROVE new[k].id < q.id
      <4>1. CASE k = Len(new)
        BY <1>2, <1>4, <1>8, <2>4, <3>1, <4>1 DEF SamePair
      <4>2. CASE k # Len(new)
        <5>1. k \in 1..Len(old) /\ new[k] = old[k]
          BY <1>4, <4>2
        <5> QED
          BY <1>8, <2>4, <3>1, <5>1 DEF Behind, Later, old
      <4> QED
        BY <4>1, <4>2
    <3> QED
      BY <2>4, <3>1 DEF Later, new
  <2> QED
    BY <2>2, <2>3, <2>4 DEF Behind
<1>9. Late(line)'
  <2> SUFFICES ASSUME NEW l \in Links, NEW i \in 1..Len(lines[l])
               PROVE  Behind(lines[l][i])'
    BY DEF Late
  <2>1. lines[l][i] \in UnderWay /\ Behind(lines[l][i])
    <3>1. lines[l] \in Seq(UnderWay)
      OBVIOUS
    <3> QED
      BY <3>1 DEF Late
  <2>2. SamePair(p, lines[l][i]) => p.id < lines[l][i].id
    BY ArrivesFirst
  <2> QED
    BY <1>8, <2>1, <2>2
<1> QED
  BY <1>6, <1>7, <1>9

(* A step that delivers nothing disturbs no order of what is delivered.    *)
LEMMA NothingDelivered ==
  ASSUME IInv, InOrder, Numbers, sent' \in Nat, sent <= sent', UNCHANGED delivered
  PROVE  /\ Numbers' /\ InOrder'
         /\ \A q \in UnderWay : Behind(q) => Behind(q)'
<1>1. sent \in Nat /\ delivered \in [Nodes -> Seq(Packet)]
  BY DEF IInv, PacketTypes
<1>2. \A q \in Packet : q.id \in Int
  BY DEF Packet
<1>3. ASSUME NEW m \in Nodes, NEW i \in 1..Len(delivered[m])
      PROVE  delivered[m][i].id <= sent'
  <2>1. delivered[m][i].id <= sent /\ delivered[m][i] \in Packet
    BY <1>1, <1>3 DEF Numbers
  <2> QED
    BY <1>1, <1>2, <2>1
<1>4. ASSUME NEW q \in UnderWay, Behind(q) PROVE Behind(q)'
  <2>1. q.id \in Int
    BY <1>2 DEF UnderWay, Addressed
  <2>2. q.id <= sent'
    BY <1>1, <1>4, <2>1 DEF Behind
  <2> QED
    BY <1>4, <2>2 DEF Behind, Later
<1> QED
  BY <1>3, <1>4 DEF Numbers, InOrder

LEMMA RoutedInOrder ==
  ASSUME IInv, InOrder, Numbers, sent' \in Nat, sent <= sent',
         NEW lines \in [Links -> Seq(UnderWay)], Ordered(lines), Late(lines),
         NEW ways \in [Hosts -> [Hosts -> Seq(Nodes)]], Ways(ways), Flow(ways, lines),
         NEW n \in Nodes, NEW p \in Addressed, p.ttl <= HopLimit, Enters(lines, p),
         AtNode(ways, n, p), p.id <= sent', Later(p),
         NEW fromHL, routePacket(lines, n, p, fromHL)
  PROVE  /\ Ordered(line') /\ Late(line)' /\ Numbers' /\ InOrder'
         /\ \E longer \in [Hosts -> [Hosts -> Seq(Nodes)]] : Ways(longer) /\ Flow(longer, line')
<1> DEFINE m == getInterfaceForDestAddr(n, p.dest)
           l == <<n, m>>
<1>1. \A k \in Links : \A i \in 1..Len(lines[k]) : lines[k][i] \in UnderWay
  <2> SUFFICES ASSUME NEW k \in Links, NEW i \in 1..Len(lines[k]) PROVE lines[k][i] \in UnderWay
    OBVIOUS
  <2>1. lines[k] \in Seq(UnderWay)
    OBVIOUS
  <2> QED
    BY <2>1
<1>2. CASE p.dest = addr[n] /\ delivered' = [delivered EXCEPT ![n] = Append(@, p)] /\ line' = lines
  <2>1. Late(line)' /\ Numbers' /\ InOrder'
    BY <1>2, Delivered
  <2> QED
    BY <1>2, <2>1
<1>3. CASE line' = lines /\ UNCHANGED delivered
  <2>1. Numbers' /\ InOrder' /\ \A q \in UnderWay : Behind(q) => Behind(q)'
    BY <1>3, NothingDelivered
  <2>2. Late(line)'
    BY <1>1, <1>3, <2>1 DEF Late
  <2> QED
    BY <1>3, <2>1, <2>2
<1>4. CASE /\ p.dest # addr[n] /\ p.ttl > 0 /\ l \in Links
           /\ line' = [lines EXCEPT ![l] = Append(lines[l], p)] /\ UNCHANGED delivered
  <2>1. p \in UnderWay /\ m \in Nodes
    BY <1>4 DEF UnderWay, Links
  <2>2. Numbers' /\ InOrder' /\ \A q \in UnderWay : Behind(q) => Behind(q)'
    BY <1>4, NothingDelivered
  <2>3. Behind(p)'
    BY <1>4 DEF Behind, Later
  <2>4. PICK longer \in [Hosts -> [Hosts -> Seq(Nodes)]] :
          /\ Ways(longer) /\ OnLink(longer, l, p)
          /\ \A k, q : q \in UnderWay /\ q.ttl <= HopLimit /\ OnLink(ways, k, q)
                         => OnLink(longer, k, q)
    BY <1>4, <2>1, WayOn
  <2> HIDE DEF l, m
  <2>5. Ordered(line') /\ JoinedBy(lines, l, p, line')
    <3> DEFINE joined == [lines EXCEPT ![l] = Append(lines[l], p)]
    <3>1. Ordered(joined) /\ JoinedBy(lines, l, p, joined)
      BY <1>4, <2>1, OrderedJoined, Zenon
    <3> QED
      BY <1>4, <3>1
  <2>6. Late(line)'
    BY <1>1, <2>2, <2>3, <2>5 DEF Late, JoinedBy
  <2>7. Flow(longer, line')
    BY <1>1, <2>4, <2>5 DEF Flow, JoinedBy
  <2> QED
    BY <2>2, <2>4, <2>5, <2>6, <2>7
<1>5. CASE /\ l \notin Links /\ line' = [lines EXCEPT ![l] = Append(lines[l], p)]
           /\ UNCHANGED delivered
  <2>1. line' = lines
    <3> HIDE DEF l
    <3> QED
      BY <1>5
  <2> QED
    BY <1>3, <1>5, <2>1
<1> QED
  BY <1>2, <1>3, <1>4, <1>5 DEF routePacket, enqueue

(* The steps.  IInv' is the invariance of IInv.                            *)
LEMMA SendInOrder ==
  ASSUME OInv, IInv', NEW h \in Hosts, handleMessageFromHL(h)
  PROVE  OInv'
<1>1. PICK to \in Hosts : routePacket(line, h, datagram(h, to), TRUE)
  BY DEF handleMessageFromHL
<1> DEFINE p == datagram(h, to)
<1>2. /\ sent \in 0..MaxPackets /\ sent < MaxPackets /\ sent' = sent + 1
      /\ line \in [Links -> Seq(UnderWay)] /\ h \in Nodes /\ HopLimit \in Nat /\ MaxPackets \in Nat
      /\ delivered \in [Nodes -> Seq(Packet)]
  BY IPNetworkAssumption
     DEF OInv, IInv, PacketTypes, handleMessageFromHL, IPNetworkAssumption
<1>3. sent \in Nat /\ sent' \in Nat /\ sent <= sent' /\ sent < sent'
  BY <1>2
<1>4. p \in UnderWay
  BY <1>2, Datagrams
<1>5. /\ p.id = sent' /\ p.ttl = HopLimit /\ p.from = h /\ p.to = to /\ p \in Addressed
      /\ p.to \in Nodes
  BY <1>2, <1>4, IPNetworkAssumption DEF datagram, UnderWay, IPNetworkAssumption
<1> HIDE DEF p
<1>6. PICK ways \in [Hosts -> [Hosts -> Seq(Nodes)]] : Ways(ways) /\ Flow(ways, line)
  BY DEF OInv
<1>7. Enters(line, p)
  <2> SUFFICES ASSUME NEW l \in Links, NEW i \in 1..Len(line[l]) PROVE FitsIn(p, line[l][i])
    BY DEF Enters
  <2>1. line[l][i] \in UnderWay
    <3>1. line[l] \in Seq(UnderWay)
      BY <1>2
    <3> QED
      BY <3>1
  <2>2. line[l][i].id <= sent /\ line[l][i].id \in Int
    BY <2>1 DEF OInv, Late, Behind, UnderWay, Addressed, Packet
  <2>3. line[l][i].ttl <= HopLimit
    BY <1>6 DEF Flow
  <2>4. line[l][i].id < sent'
    BY <1>3, <2>2
  <2> QED
    BY <1>5, <2>3, <2>4 DEF FitsIn
<1>8. AtNode(ways, h, p)
  <2>1. Way(ways[h][to], h, to)
    BY <1>6 DEF Ways
  <2>2. hops(p) + 1 = 1
    BY <1>2, <1>5 DEF hops
  <2>3. 1 <= Len(ways[h][to])
    BY <2>1 DEF Way
  <2> QED
    BY <1>5, <2>1, <2>2, <2>3 DEF AtNode, Way
<1>9. Later(p)
  <2>1. ASSUME NEW i \in 1..Len(delivered[to]) PROVE delivered[to][i].id < p.id
    <3>1. delivered[to][i].id <= sent /\ delivered[to][i] \in Packet
      BY <1>2, <1>5 DEF OInv, Numbers
    <3>2. delivered[to][i].id \in Int
      BY <3>1 DEF Packet
    <3> QED
      BY <1>3, <1>5, <3>1, <3>2
  <2> QED
    BY <1>5, <2>1 DEF Later
<1>10. /\ Ordered(line') /\ Late(line)' /\ Numbers' /\ InOrder'
       /\ \E longer \in [Hosts -> [Hosts -> Seq(Nodes)]] : Ways(longer) /\ Flow(longer, line')
  <2>1. p.ttl <= HopLimit /\ p.id <= sent'
    BY <1>2, <1>3, <1>5
  <2>2. routePacket(line, h, p, TRUE)
    BY <1>1 DEF p
  <2>3. IInv /\ InOrder /\ Numbers /\ Ordered(line) /\ Late(line)
    BY DEF OInv
  <2> QED
    BY <1>2, <1>3, <1>5, <1>6, <1>7, <1>8, <1>9, <2>1, <2>2, <2>3, RoutedInOrder
<1> QED
  BY <1>10 DEF OInv

LEMMA ForwardInOrder ==
  ASSUME OInv, IInv', NEW l \in Links, handlePacketFromNetwork(l)
  PROVE  OInv'
<1> DEFINE q == Head(line[l])
           rest == [line EXCEPT ![l] = dequeue(line[l])]
           n == l[2]
           p == [q EXCEPT !.ttl = @ - 1]
<1>1. /\ line[l] # <<>> /\ routePacket(rest, n, p, FALSE) /\ sent' = sent
      /\ line \in [Links -> Seq(UnderWay)] /\ n \in Nodes /\ sent \in Nat
  <2>1. line[l] # <<>> /\ routePacket(rest, n, p, FALSE) /\ sent' = sent
    BY DEF handlePacketFromNetwork
  <2>2. line \in [Links -> Seq(UnderWay)] /\ sent \in Nat
    BY DEF OInv, IInv, PacketTypes
  <2>3. n \in Nodes
    BY DEF Links
  <2> QED
    BY <2>1, <2>2, <2>3
<1>2. /\ IInv /\ InOrder /\ Numbers /\ Ordered(line) /\ Late(line)
      /\ sent' \in Nat /\ sent <= sent'
  BY <1>1 DEF OInv
<1>3. PICK ways \in [Hosts -> [Hosts -> Seq(Nodes)]] : Ways(ways) /\ Flow(ways, line)
  BY DEF OInv
<1>4. /\ rest \in [Links -> Seq(UnderWay)] /\ MovedUp(line, l, rest)
      /\ q = line[l][1] /\ q \in UnderWay
  BY <1>1, MovesUp
<1>5. 1 \in 1..Len(line[l])
  BY <1>4 DEF MovedUp
<1>6. Behind(q) /\ OnLink(ways, l, q) /\ q.ttl <= HopLimit
  BY <1>2, <1>3, <1>4, <1>5 DEF Late, Flow
<1>7. /\ p \in Addressed /\ p.id = q.id /\ p.from = q.from /\ p.to = q.to /\ p.ttl = q.ttl - 1
      /\ q.ttl \in Nat
  <2>1. p \in Addressed
    BY <1>4, Hop
  <2>2. q \in Packet
    BY <1>4 DEF UnderWay, Addressed
  <2> QED
    BY <2>1, <2>2 DEF Packet
<1> HIDE DEF p, q, rest, n
<1>8. Ordered(rest)
  BY <1>2, <1>4, OrderedRest
<1>9. Enters(rest, p)
  BY <1>1, <1>2, <1>3, <1>4, <1>7, HeadEnters DEF SamePair, q
<1>10. Late(rest) /\ Flow(ways, rest)
  <2>1. ASSUME NEW m \in Links, NEW i \in 1..Len(rest[m])
        PROVE  /\ Behind(rest[m][i]) /\ rest[m][i].ttl <= HopLimit
               /\ OnLink(ways, m, rest[m][i])
    <3>1. PICK k \in 1..Len(line[m]) : rest[m][i] = line[m][k] /\ (m = l => k > 1)
      BY <1>4, StillThere
    <3> QED
      BY <1>2, <1>3, <3>1 DEF Late, Flow
  <2> QED
    BY <2>1 DEF Late, Flow
<1>11. p.ttl <= HopLimit /\ hops(p) = hops(q) + 1
  BY <1>6, <1>7, IPNetworkAssumption DEF hops, IPNetworkAssumption
<1>12. AtNode(ways, n, p)
  <2>1. hops(q) \in Nat
    BY <1>6, <1>7, Hops
  <2>2. hops(p) + 1 = hops(q) + 2
    BY <1>11, <2>1
  <2> QED
    BY <1>6, <1>7, <2>2 DEF AtNode, OnLink, n
<1>13. p.id <= sent' /\ Later(p)
  BY <1>1, <1>6, <1>7 DEF Behind, Later
<1>14. /\ Ordered(line') /\ Late(line)' /\ Numbers' /\ InOrder'
       /\ \E longer \in [Hosts -> [Hosts -> Seq(Nodes)]] : Ways(longer) /\ Flow(longer, line')
  BY <1>1, <1>2, <1>3, <1>4, <1>7, <1>8, <1>9, <1>10, <1>11, <1>12, <1>13, RoutedInOrder
<1> QED
  BY <1>14 DEF OInv

LEMMA InitInOrder == Init => OInv
<1> SUFFICES ASSUME Init PROVE OInv
  OBVIOUS
<1>1. IInv
  BY InitInv
<1>2. /\ \A l \in Links : line[l] = <<>> /\ Len(line[l]) = 0
      /\ \A n \in Nodes : delivered[n] = <<>> /\ Len(delivered[n]) = 0
  BY DEF Init, initializeQueues
<1>3. Ordered(line) /\ Late(line) /\ Numbers
  BY <1>2 DEF Ordered, Apart, InTurn, Late, Numbers
<1>4. InOrder
  BY <1>2 DEF InOrder
<1>5. \E ways \in [Hosts -> [Hosts -> Seq(Nodes)]] : Ways(ways) /\ Flow(ways, line)
  <2> DEFINE ways == [h \in Hosts |-> [to \in Hosts |-> <<h>>]]
  <2>1. ways \in [Hosts -> [Hosts -> Seq(Nodes)]]
    BY IPNetworkAssumption DEF IPNetworkAssumption
  <2>2. Ways(ways)
    <3> SUFFICES ASSUME NEW h \in Hosts, NEW to \in Hosts PROVE Way(ways[h][to], h, to)
      BY DEF Ways
    <3>1. ways[h][to] = <<h>> /\ h \in Nodes
      BY IPNetworkAssumption DEF IPNetworkAssumption
    <3> QED
      BY <3>1 DEF Way
  <2>3. Flow(ways, line)
    BY <1>2 DEF Flow
  <2> QED
    BY <2>1, <2>2, <2>3
<1> QED
  BY <1>1, <1>3, <1>4, <1>5 DEF OInv

LEMMA NextInOrder == OInv /\ [Next]_vars => OInv'
<1> SUFFICES ASSUME OInv, [Next]_vars PROVE OInv'
  OBVIOUS
<1>1. IInv'
  BY NextInv DEF OInv
<1>2. ASSUME UNCHANGED <<line, sent, delivered>> PROVE OInv'
  <2>1. Late(line)' /\ Numbers' /\ InOrder'
    BY <1>2 DEF OInv, Late, Behind, Later, Numbers, InOrder
  <2> QED
    BY <1>1, <1>2, <2>1 DEF OInv
<1>3. (\E n \in Traced : traceOut(n)) \/ UNCHANGED vars => UNCHANGED <<line, sent, delivered>>
  BY DEF traceOut, vars
<1> QED
  BY <1>1, <1>2, <1>3, SendInOrder, ForwardInOrder DEF Next

(* DropTailTraceQueue.cc:42-70: on any topology, with any capacity of the  *)
(* queues and any static routes, even circular ones: packets between two   *)
(* nodes never overtake.                                                   *)
THEOREM InOrderHolds == Spec => []InOrder
<1>1. OInv => InOrder
  BY DEF OInv
<1> QED
  BY <1>1, InitInOrder, NextInOrder, PTL DEF Spec
=============================================================================
