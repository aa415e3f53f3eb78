------------------------- MODULE ServiceChainProofs -------------------------
(***************************************************************************)
(* Theorems about ServiceChain, with their proofs: for any number of       *)
(* ports, interfaces and transparent cubes, any programs they have and     *)
(* any sequence of attach, detach, connect and unconnect, the compiled     *)
(* pointers lead every packet through the listed programs in order.        *)
(***************************************************************************)
EXTENDS ServiceChain, FiniteSetTheorems, SequenceTheorems, WellFoundedInduction,
        NaturalsInduction, TLAPS

-----------------------------------------------------------------------------
(* The inductive invariant.                                                *)

Kinds == {"in", "out", "parent_in", "parent_out", "netdev", "stack", "none"}
Targets == [kind : Kinds, of : TCubes \cup Ends \cup {NoEnd}]
Entries == [next : Targets, port : Ends \cup {NoEnd}]

Nets ==
  [cubes : [Ends -> Seq(TCubes)],
   link : [Ends -> Ends \cup {NoEnd}],
   next_in : [TCubes -> Targets],
   next_out : [TCubes -> Targets],
   egress_next_tc : [TCubes -> Targets],
   next_twin : [TCubes -> Targets],
   index : [Ifaces -> Targets],
   port_index : [Ports -> Targets],
   fwd : [Ports -> Entries],
   rx : [Ifaces -> Entries],
   tx : [Ifaces -> Entries],
   out_next : [Ports -> Targets],
   out_next_xdp : [Ports -> Targets]]

\* The cubes of a list.
Of(s) == {s[i] : i \in DOMAIN s}

\* A cube is in one list at most, and once.
Once(s) == \A i, j \in DOMAIN s : s[i] = s[j] => i = j
Disjoint(n) ==
  /\ \A e \in Ends : Once(n.cubes[e])
  /\ \A e, f \in Ends : e # f => Of(n.cubes[e]) \cap Of(n.cubes[f]) = {}

\* Links are mutual, and one end of each is a port.
Linked(n) ==
  \A e \in Ends : n.link[e] # NoEnd =>
    /\ n.link[e] # e
    /\ n.link[n.link[e]] = e
    /\ e \in Ifaces => n.link[e] \in Ports

\* The cubes of S in list s are chained from the last to the first, and from
\* the first to the last.
Upward(f, s, S, kind, target) ==
  \A i \in Places(s, S) :
    f[s[i]] = AtHighest(s, {j \in Places(s, S) : j < i}, kind, target)
Downward(f, s, S, kind, target) ==
  \A i \in Places(s, S) :
    f[s[i]] = AtLowest(s, {j \in Places(s, S) : j > i}, kind, target)

\* The chain into port p, and the one out of it to target.
PortEntered(n, p) ==
  /\ Upward(n.next_in, n.cubes[p], WithIngress, "in", To("parent_in", p))
  /\ n.port_index[p] = TopEntry(n.cubes[p], WithIngress, "in", To("parent_in", p))
PortLeft(n, p, target) ==
  /\ Downward(n.next_out, n.cubes[p], WithEgress, "out", target)
  /\ n.fwd[p] = [next |-> BottomEntry(n.cubes[p], WithEgress, "out", target),
                 port |-> IF n.link[p] \in Ports THEN n.link[p] ELSE p]

\* The chain from interface i to target, and the one out of it.
IfaceEntered(n, i, target) ==
  /\ Downward(n.next_in, n.cubes[i], WithIngress, "in", target)
  /\ n.rx[i] = [next |-> BottomEntry(n.cubes[i], WithIngress, "in", target),
                port |-> n.link[i]]
IfaceLeft(h, n, i) ==
  /\ Upward(n.next_out, n.cubes[i], WithEgress, "out",
            IF h = "xdp" THEN To("netdev", i) ELSE Stack)
  /\ h = "xdp" =>
       /\ Upward(n.egress_next_tc, n.cubes[i], WithEgress, "out", Stack)
       /\ Upward(n.next_twin, n.cubes[i], WithEgress, "out", Stack)
       /\ n.index[i] = OutEntry(n, i)
  /\ n.tx[i] = [next |-> OutEntry(n, i), port |-> n.link[i]]
  /\ n.link[i] \in ParentEgress =>
       LET top == TopEntry(n.cubes[i], WithEgress, "out", Stack)
       IN /\ n.out_next[n.link[i]] = top
          /\ h = "xdp" => n.out_next_xdp[n.link[i]] = Resolve(top, i)

\* What the peer of port p and of interface i offers as its entry.
Outside(n, p) ==
  LET q == n.link[p]
  IN IF q \in Ifaces THEN Resolve(n.index[q], q) ELSE n.port_index[q]
Inside(n, i) == IF n.link[i] = NoEnd THEN Stack ELSE n.port_index[n.link[i]]

EndChained(h, n, e) ==
  IF e \in Ports THEN PortEntered(n, e) /\ (n.link[e] # NoEnd => PortLeft(n, e, Outside(n, e)))
  ELSE IfaceEntered(n, e, Inside(n, e)) /\ IfaceLeft(h, n, e)

\* A twin is as its program where that one is followed by a cube, wherever the
\* cube was left: an update that finds the program up to date does not compile
\* the twin.
Twins(n) ==
  \A c \in TCubes : n.next_out[c].kind = "out" =>
    n.egress_next_tc[c] = n.next_out[c] /\ n.next_twin[c] = n.next_out[c]

\* What every call keeps, and the entry index of an interface on the TC hook.
Common(h, n) == Twins(n) /\ (h = "tc" => \A i \in Ifaces : n.index[i] = Stack)

ChainedBut(h, n, E) == Common(h, n) /\ \A e \in Ends \ E : EndChained(h, n, e)

Lists(n, par) == \A c \in TCubes, e \in Ends : c \in Of(n.cubes[e]) <=> par[c] = e

TypeOK ==
  /\ hook \in Hooks
  /\ net \in Nets
  /\ parent \in [TCubes -> Ends \cup {NoEnd}]
  /\ crashed \in BOOLEAN

Inv ==
  /\ TypeOK
  /\ Disjoint(net) /\ Linked(net) /\ Lists(net, parent)
  /\ ChainedBut(hook, net, {})

-----------------------------------------------------------------------------
(* Places in a list.                                                       *)

\* The lowest of some places.
LEMMA LowestPlace ==
  ASSUME NEW I \in SUBSET Nat, I # {}
  PROVE  Lowest(I) \in I /\ \A j \in I : Lowest(I) <= j
<1> DEFINE R == OpToRel(<, Nat)
<1>1. IsWellFoundedOn(R, Nat)
  BY NatLessThanWellFounded
<1>2. PICK x \in I : \A y \in I : ~(<<y, x>> \in R)
  <2> HIDE DEF R
  <2> QED BY <1>1, WFMin
<1>3. \A y \in I : x <= y
  <2> SUFFICES ASSUME NEW y \in I PROVE x <= y
    OBVIOUS
  <2>1. x \in Nat /\ y \in Nat /\ ~(<<y, x>> \in R)
    BY <1>2
  <2>2. ~(y < x)
    BY <2>1 DEF R, OpToRel
  <2> HIDE DEF R
  <2> QED BY <2>1, <2>2
<1> QED BY <1>3 DEF Lowest

\* The highest of some places of a list.
LEMMA HighestPlace ==
  ASSUME NEW n \in Nat, NEW I \in SUBSET (1 .. n), I # {}
  PROVE  Highest(I) \in I /\ \A j \in I : j <= Highest(I)
<1> DEFINE J == {k \in Nat : n - k \in I}
<1>1. J # {}
  <2>1. PICK i \in I : TRUE
    OBVIOUS
  <2>2. n - i \in Nat /\ n - (n - i) = i
    OBVIOUS
  <2> QED BY <2>2
<1>2. Lowest(J) \in J /\ \A j \in J : Lowest(J) <= j
  <2> HIDE DEF J
  <2>1. J \in SUBSET Nat
    BY DEF J
  <2> QED BY <1>1, <2>1, LowestPlace
<1> DEFINE x == n - Lowest(J)
<1>3. x \in I /\ Lowest(J) \in Nat
  BY <1>2
<1>4. \A j \in I : j <= x
  <2> SUFFICES ASSUME NEW j \in I PROVE j <= x
    OBVIOUS
  <2>1. n - j \in Nat /\ n - (n - j) = j /\ j \in Nat
    OBVIOUS
  <2>2. n - j \in J
    BY <2>1
  <2>3. Lowest(J) <= n - j
    BY <1>2, <2>2
  <2> HIDE DEF J
  <2> QED BY <1>3, <2>1, <2>3
<1> HIDE DEF x
<1> QED BY <1>3, <1>4 DEF Highest

\* The ranks of some places.
LEMMA Ranks ==
  ASSUME NEW n \in Nat, NEW I \in SUBSET (1 .. n)
  PROVE  \E f \in [1 .. Cardinality(I) -> I] :
           \A j, k \in 1 .. Cardinality(I) : j < k => f[j] < f[k]
<1> DEFINE N == Cardinality(I)
           rank == [i \in I |-> Cardinality({j \in I : j <= i})]
<1>1. IsFiniteSet(I) /\ N \in Nat
  <2>1. IsFiniteSet(1 .. n)
    BY FS_Interval
  <2> QED BY <2>1, FS_Subset, FS_CardinalityType
<1>2. ASSUME NEW i \in I
      PROVE  IsFiniteSet({j \in I : j <= i}) /\ rank[i] \in Nat /\ rank[i] <= N
  BY <1>1, FS_Subset, FS_CardinalityType
<1>3. ASSUME NEW i \in I PROVE rank[i] \in 1 .. N
  <2>1. rank[i] # 0
    <3>1. i \in {j \in I : j <= i}
      OBVIOUS
    <3> QED BY <1>2, <3>1, FS_EmptySet
  <2>2. rank[i] \in Nat /\ rank[i] <= N
    BY <1>2
  <2> HIDE DEF rank, N
  <2> QED BY <1>1, <2>1, <2>2
<1>4. ASSUME NEW i \in I, NEW k \in I, i < k PROVE rank[i] < rank[k]
  <2> DEFINE A == {j \in I : j <= i}
             B == {j \in I : j <= k}
  <2>1. A \subseteq B /\ k \in B /\ k \notin A
    <3>1. i \in Int /\ k \in Int
      OBVIOUS
    <3>2. ASSUME NEW j \in I, j <= i PROVE j <= k
      <4>1. j \in Int
        OBVIOUS
      <4> QED BY <1>4, <3>1, <3>2, <4>1
    <3>3. k <= k /\ ~(k <= i)
      BY <1>4, <3>1
    <3>4. A \subseteq B
      BY <3>2
    <3> QED BY <3>3, <3>4
  <2>2. IsFiniteSet(B) /\ IsFiniteSet(A) /\ Cardinality(A) \in Nat /\ Cardinality(B) \in Nat
    BY <1>2, FS_CardinalityType
  <2>3. rank[i] = Cardinality(A) /\ rank[k] = Cardinality(B)
    OBVIOUS
  <2> HIDE DEF A, B
  <2>4. Cardinality(A) <= Cardinality(B) /\ Cardinality(A) # Cardinality(B)
    BY <2>1, <2>2, FS_Subset
  <2> HIDE DEF rank
  <2> QED BY <2>2, <2>3, <2>4
<1>5. rank \in Injection(I, 1 .. N)
  <2>1. \A i, k \in I : rank[i] = rank[k] => i = k
    <3> SUFFICES ASSUME NEW i \in I, NEW k \in I, i # k PROVE rank[i] # rank[k]
      OBVIOUS
    <3>1. i < k \/ k < i
      OBVIOUS
    <3>2. rank[i] \in Nat /\ rank[k] \in Nat
      BY <1>2
    <3> HIDE DEF rank
    <3> QED BY <1>4, <3>1, <3>2
  <2>2. rank \in [I -> 1 .. N]
    <3>1. \A i \in I : rank[i] \in 1 .. N
      BY <1>3
    <3> HIDE DEF N
    <3> QED BY <3>1
  <2> HIDE DEF rank
  <2> QED BY <2>1, <2>2 DEF Injection, IsInjective
<1>6. rank \in Surjection(I, 1 .. N)
  <2>1. IsFiniteSet(1 .. N) /\ Cardinality(1 .. N) = N
    BY <1>1, FS_Interval
  <2> HIDE DEF rank
  <2> QED BY <1>5, <2>1, FS_Injection
<1> DEFINE f == [k \in 1 .. N |-> CHOOSE i \in I : rank[i] = k]
<1> HIDE DEF rank
<1>7. \A k \in 1 .. N : f[k] \in I /\ rank[f[k]] = k
  <2> SUFFICES ASSUME NEW k \in 1 .. N PROVE f[k] \in I /\ rank[f[k]] = k
    OBVIOUS
  <2>1. \E i \in I : rank[i] = k
    BY <1>6 DEF Surjection
  <2> QED BY <2>1
<1>8. \A j, k \in 1 .. N : j < k => f[j] < f[k]
  <2> SUFFICES ASSUME NEW j \in 1 .. N, NEW k \in 1 .. N, j < k PROVE f[j] < f[k]
    OBVIOUS
  <2>1. f[j] \in I /\ f[k] \in I /\ rank[f[j]] = j /\ rank[f[k]] = k
    BY <1>7
  <2> HIDE DEF f
  <2>0. N \in Nat /\ j \in Int /\ k \in Int
    BY <1>1
  <2>2. ~(f[k] < f[j]) /\ f[k] # f[j]
    <3>1. f[k] < f[j] => rank[f[k]] < rank[f[j]]
      BY <1>4, <2>1
    <3> QED BY <2>0, <2>1, <3>1
  <2>3. f[j] \in Int /\ f[k] \in Int
    <3>1. I \subseteq Int
      OBVIOUS
    <3> QED BY <2>1, <3>1
  <2> QED BY <2>2, <2>3
<1>9. f \in [1 .. N -> I]
  BY <1>7
<1> HIDE DEF f
<1> QED BY <1>8, <1>9

\* Listing lists every place once, in increasing order.
LEMMA ListingOf ==
  ASSUME NEW n \in Nat, NEW I \in SUBSET (1 .. n)
  PROVE  /\ Listing(I) \in Seq(I) /\ Len(Listing(I)) \in Nat
         /\ \A k \in 1 .. Len(Listing(I)) : Listing(I)[k] \in I
         /\ \A j, k \in 1 .. Len(Listing(I)) : j < k => Listing(I)[j] < Listing(I)[k]
         /\ \A i \in I : \E k \in 1 .. Len(Listing(I)) : Listing(I)[k] = i
<1> DEFINE N == Cardinality(I)
           l == Listing(I)
<1>1. IsFiniteSet(I) /\ N \in Nat
  <2>1. IsFiniteSet(1 .. n)
    BY FS_Interval
  <2> QED BY <2>1, FS_Subset, FS_CardinalityType
<1>2. l \in [1 .. N -> I] /\ \A j, k \in 1 .. N : j < k => l[j] < l[k]
  BY Ranks DEF Listing
<1> HIDE DEF l
<1>3. l \in Injection(1 .. N, I)
  <2>1. ASSUME NEW j \in 1 .. N, NEW k \in 1 .. N, l[j] = l[k] PROVE j = k
    <3>1. ~(j < k) /\ ~(k < j)
      <4>1. l[j] \in Int /\ l[k] \in Int
        <5>1. I \subseteq Int
          OBVIOUS
        <5> QED BY <1>2, <5>1
      <4> HIDE DEF N
      <4> QED BY <1>2, <2>1, <4>1
    <3> QED BY <3>1
  <2> QED BY <1>2, <2>1 DEF Injection, IsInjective
<1>4. l \in Surjection(1 .. N, I)
  <2>1. IsFiniteSet(1 .. N) /\ Cardinality(1 .. N) = N
    BY <1>1, FS_Interval
  <2> QED BY <1>1, <1>3, <2>1, FS_Injection
<1>5. l \in Seq(I) /\ Len(l) = N
  BY <1>1, <1>2
<1>6. \A i \in I : \E k \in 1 .. N : l[k] = i
  BY <1>4 DEF Surjection
<1> HIDE DEF N
<1> QED BY <1>1, <1>2, <1>5, <1>6 DEF l

\* The neighbours of a place among some places, and the first and the last.
LEMMA ListingNeighbours ==
  ASSUME NEW n \in Nat, NEW I \in SUBSET (1 .. n), NEW l, l = Listing(I)
  PROVE  /\ I = {} <=> Len(l) = 0
         /\ I # {} => Lowest(I) = l[1] /\ Highest(I) = l[Len(l)]
         /\ \A k \in 1 .. Len(l) - 1 :
              LET above == {j \in I : j > l[k]}
              IN above # {} /\ Lowest(above) = l[k + 1]
         /\ \A k \in 2 .. Len(l) :
              LET below == {j \in I : j < l[k]}
              IN below # {} /\ Highest(below) = l[k - 1]
         /\ {j \in I : j > l[Len(l)]} = {}
         /\ {j \in I : j < l[1]} = {}
<1> DEFINE N == Len(l)
<1>1. /\ N \in Nat
      /\ \A k \in 1 .. N : l[k] \in I
      /\ \A j, k \in 1 .. N : j < k => l[j] < l[k]
      /\ \A i \in I : \E k \in 1 .. N : l[k] = i
  BY ListingOf
<1>2. I \subseteq Nat
  OBVIOUS
<1> HIDE DEF N
<1>3. I = {} <=> N = 0
  <2>1. N # 0 => 1 \in 1 .. N
    BY <1>1
  <2>2. N = 0 => 1 .. N = {}
    OBVIOUS
  <2> QED BY <1>1, <2>1, <2>2
<1>4. \A j, k \in 1 .. N : (l[j] < l[k] <=> j < k) /\ (l[j] <= l[k] <=> j <= k)
  <2> SUFFICES ASSUME NEW j \in 1 .. N, NEW k \in 1 .. N
               PROVE  (l[j] < l[k] <=> j < k) /\ (l[j] <= l[k] <=> j <= k)
    OBVIOUS
  <2>1. l[j] \in Nat /\ l[k] \in Nat /\ j \in Nat /\ k \in Nat
    <3>1. l[j] \in I /\ l[k] \in I /\ N \in Nat
      BY <1>1
    <3>2. j \in Nat /\ k \in Nat
      BY <3>1
    <3> QED BY <1>2, <3>1, <3>2
  <2>2. (j < k => l[j] < l[k]) /\ (k < j => l[k] < l[j]) /\ (j = k => l[j] = l[k])
    BY <1>1
  <2> QED BY <2>1, <2>2
<1>5. ASSUME NEW J \in SUBSET I, NEW k \in 1 .. N, l[k] \in J, \A i \in J : l[k] <= i
      PROVE  Lowest(J) = l[k]
  <2>1. Lowest(J) \in J /\ \A j \in J : Lowest(J) <= j
    <3>1. J \in SUBSET Nat /\ J # {}
      BY <1>2, <1>5
    <3> QED BY <3>1, LowestPlace
  <2>2. Lowest(J) \in Nat /\ l[k] \in Nat /\ Lowest(J) <= l[k] /\ l[k] <= Lowest(J)
    BY <1>2, <1>5, <2>1
  <2> QED BY <2>2
<1>6. ASSUME NEW J \in SUBSET I, NEW k \in 1 .. N, l[k] \in J, \A i \in J : i <= l[k]
      PROVE  Highest(J) = l[k]
  <2>1. Highest(J) \in J /\ \A j \in J : j <= Highest(J)
    <3>1. J \in SUBSET (1 .. n) /\ J # {}
      BY <1>6
    <3> QED BY <3>1, HighestPlace
  <2>2. Highest(J) \in Nat /\ l[k] \in Nat /\ Highest(J) <= l[k] /\ l[k] <= Highest(J)
    BY <1>2, <1>6, <2>1
  <2> QED BY <2>2
<1>7. ASSUME I # {} PROVE Lowest(I) = l[1] /\ Highest(I) = l[N]
  <2>1. 1 \in 1 .. N /\ N \in 1 .. N
    <3>1. N \in Nat /\ N # 0
      BY <1>1, <1>3, <1>7
    <3> QED BY <3>1
  <2>2. ASSUME NEW i \in I PROVE l[1] <= i /\ i <= l[N]
    <3>1. PICK j \in 1 .. N : l[j] = i
      BY <1>1
    <3>2. 1 <= j /\ j <= N
      BY <1>1
    <3> QED BY <1>4, <2>1, <3>1, <3>2
  <2> QED BY <1>1, <1>5, <1>6, <2>1, <2>2
<1>8. ASSUME NEW k \in 1 .. N - 1
      PROVE  /\ {j \in I : j > l[k]} # {}
             /\ Lowest({j \in I : j > l[k]}) = l[k + 1]
  <2> DEFINE J == {j \in I : j > l[k]}
  <2>1. k \in 1 .. N /\ k + 1 \in 1 .. N
    BY <1>1
  <2>2. l[k + 1] \in J
    BY <1>1, <1>4, <2>1
  <2>3. ASSUME NEW i \in J PROVE l[k + 1] <= i
    <3>1. i \in I /\ l[k] < i
      BY <1>2, <1>1, <2>1
    <3>2. PICK j \in 1 .. N : l[j] = i
      BY <1>1, <3>1
    <3>3. k < j
      BY <1>4, <2>1, <3>1, <3>2
    <3>4. k + 1 <= j
      BY <1>1, <3>3
    <3> QED BY <1>4, <2>1, <3>2, <3>4
  <2> QED BY <1>5, <2>1, <2>2, <2>3
<1>9. ASSUME NEW k \in 2 .. N
      PROVE  /\ {j \in I : j < l[k]} # {}
             /\ Highest({j \in I : j < l[k]}) = l[k - 1]
  <2> DEFINE J == {j \in I : j < l[k]}
  <2>1. k \in 1 .. N /\ k - 1 \in 1 .. N
    BY <1>1
  <2>2. l[k - 1] \in J
    BY <1>1, <1>4, <2>1
  <2>3. ASSUME NEW i \in J PROVE i <= l[k - 1]
    <3>1. i \in I /\ i < l[k]
      OBVIOUS
    <3>2. PICK j \in 1 .. N : l[j] = i
      BY <1>1, <3>1
    <3>3. j < k
      BY <1>4, <2>1, <3>1, <3>2
    <3>4. j <= k - 1
      BY <1>1, <3>3
    <3> QED BY <1>4, <2>1, <3>2, <3>4
  <2> QED BY <1>6, <2>1, <2>2, <2>3
<1>10. {j \in I : j > l[N]} = {} /\ {j \in I : j < l[1]} = {}
  <2>1. ASSUME NEW j \in I PROVE ~(j > l[N]) /\ ~(j < l[1])
    <3>1. l[1] <= j /\ j <= l[N] /\ l[1] \in Nat /\ l[N] \in Nat /\ j \in Nat
      <4>1. 1 \in 1 .. N /\ N \in 1 .. N
        BY <1>1, <1>3
      <4>2. PICK k \in 1 .. N : l[k] = j
        BY <1>1
      <4>3. 1 <= k /\ k <= N
        BY <1>1
      <4> QED BY <1>1, <1>2, <1>4, <4>1, <4>2, <4>3
    <3> QED BY <3>1
  <2> QED BY <2>1
<1> QED BY <1>3, <1>7, <1>8, <1>9, <1>10 DEF N

-----------------------------------------------------------------------------
(* Ways.                                                                   *)

\* Programs that lead to one another and to the start of a way are a way.
LEMMA LeadsThrough ==
  ASSUME NEW plane, NEW target, NEW A \in Seq(Targets), NEW B \in Seq(Targets),
         Leads(target, plane, B), A # <<>>,
         \A k \in 1 .. Len(A) : IsProgram(A[k]),
         \A k \in 1 .. Len(A) - 1 : A[k + 1] = Hop(A[k], plane),
         target = Hop(A[Len(A)], plane)
  PROVE  Leads(A[1], plane, A \o B)
<1> DEFINE W == A \o B
           a == Len(A)
           b == Len(B)
<1>1. /\ a \in Nat /\ a >= 1 /\ b \in Nat /\ b >= 1
      /\ B[1] = target
      /\ \A k \in 1 .. b - 1 : IsProgram(B[k]) /\ B[k + 1] = Hop(B[k], plane)
      /\ ~ IsProgram(B[b])
  BY EmptySeq, LenProperties DEF Leads
<1>2. /\ W \in Seq(Targets) /\ Len(W) = a + b
      /\ \A k \in 1 .. a + b : W[k] = IF k <= a THEN A[k] ELSE B[k - a]
  BY ConcatProperties
<1> HIDE DEF W, a, b
<1>3. W # <<>> /\ W[1] = A[1]
  <2>1. Len(W) # 0 /\ 1 \in 1 .. a + b
    BY <1>1, <1>2
  <2> QED BY <1>1, <1>2, <2>1
<1>4. ~ IsProgram(W[Len(W)])
  <2>1. a + b \in 1 .. a + b /\ ~(a + b <= a) /\ a + b - a = b
    BY <1>1
  <2> QED BY <1>1, <1>2, <2>1
<1>5. ASSUME NEW k \in 1 .. Len(W) - 1
      PROVE  IsProgram(W[k]) /\ W[k + 1] = Hop(W[k], plane)
  <2>1. k \in 1 .. a + b /\ k + 1 \in 1 .. a + b /\ k \in Nat
    BY <1>1, <1>2
  <2>2. CASE k < a
    <3>1. k \in 1 .. a - 1 /\ k \in 1 .. a /\ k <= a /\ k + 1 <= a
      BY <1>1, <2>1, <2>2
    <3>2. W[k] = A[k] /\ W[k + 1] = A[k + 1]
      BY <1>2, <2>1, <3>1
    <3> QED BY <3>1, <3>2 DEF a
  <2>3. CASE k = a
    <3>1. a \in 1 .. a /\ ~(k + 1 <= a) /\ k + 1 - a = 1 /\ k <= a
      BY <1>1, <2>1, <2>3
    <3>2. W[k] = A[a] /\ W[k + 1] = B[1]
      BY <1>2, <2>1, <2>3, <3>1
    <3> QED BY <1>1, <3>1, <3>2 DEF a
  <2>4. CASE k > a
    <3>1. k - a \in 1 .. b - 1 /\ ~(k <= a) /\ ~(k + 1 <= a) /\ k + 1 - a = (k - a) + 1
      BY <1>1, <1>2, <2>1, <2>4
    <3>2. W[k] = B[k - a] /\ W[k + 1] = B[(k - a) + 1]
      <4>1. W[k] = B[k - a]
        BY <1>2, <2>1, <3>1
      <4>2. PICK j : j = k + 1
        OBVIOUS
      <4>3. j \in 1 .. a + b /\ ~(j <= a) /\ j - a = (k - a) + 1
        BY <1>1, <2>1, <3>1, <4>2
      <4>4. W[j] = B[j - a]
        BY <1>2, <4>3
      <4>5. W[j] = B[(k - a) + 1]
        BY <4>3, <4>4
      <4> QED BY <4>1, <4>2, <4>5
    <3> QED BY <1>1, <3>1, <3>2
  <2> QED BY <1>1, <2>1, <2>2, <2>3, <2>4
<1> QED BY <1>3, <1>4, <1>5 DEF Leads, W

\* What a way leads to behind one of its programs.
LEMMA LeadsAt ==
  ASSUME NEW plane, NEW start, NEW W \in Seq(Targets), Leads(start, plane, W),
         NEW i \in DOMAIN W, IsProgram(W[i])
  PROVE  /\ Leads(Hop(W[i], plane), plane, SubSeq(W, i + 1, Len(W)))
         /\ SubSeq(W, i + 1, Len(W)) \in Seq(Targets)
         /\ Len(W) \in Nat /\ i \in 1 .. Len(W) - 1
         /\ W[i + 1] = Hop(W[i], plane)
         /\ IsProgram(W[i + 1]) <=> i + 1 # Len(W)
<1> DEFINE w == Len(W)
           B == SubSeq(W, i + 1, Len(W))
<1>2. w \in Nat /\ DOMAIN W = 1 .. w
  BY LenProperties
<1>3. /\ \A k \in 1 .. w - 1 : IsProgram(W[k]) /\ W[k + 1] = Hop(W[k], plane)
      /\ ~ IsProgram(W[w])
  BY DEF Leads
<1>4. i \in 1 .. w - 1
  <2>1. i # w
    BY <1>3
  <2> HIDE DEF w
  <2> QED BY <1>2, <2>1
<1>5. /\ B \in Seq(Targets) /\ Len(B) = w - i
      /\ \A k \in 1 .. w - i : B[k] = W[i + k]
  <2>2. B \in Seq(Targets) /\ Len(B) = w - i
    BY <1>2, <1>4
  <2>3. \A k \in 1 .. w - i : B[k] = W[i + k]
    BY <1>2, <1>4
  <2> QED BY <2>2, <2>3
<1> HIDE DEF B, w
<1>6. w - i \in Nat /\ w - i >= 1 /\ i \in Nat
  BY <1>2, <1>4
<1>7. B # <<>> /\ B[1] = Hop(W[i], plane)
  <2>1. 1 \in 1 .. w - i
    BY <1>6
  <2> QED BY <1>3, <1>4, <1>5, <1>6, <2>1
<1>8. ~ IsProgram(B[Len(B)])
  <2>1. w - i \in 1 .. w - i /\ i + (w - i) = w
    BY <1>2, <1>6
  <2> QED BY <1>3, <1>5, <2>1
<1>9. ASSUME NEW k \in 1 .. Len(B) - 1
      PROVE  IsProgram(B[k]) /\ B[k + 1] = Hop(B[k], plane)
  <2>1. k \in 1 .. w - i /\ k + 1 \in 1 .. w - i /\ i + k \in 1 .. w - 1
        /\ i + (k + 1) = (i + k) + 1
    BY <1>2, <1>4, <1>5, <1>6
  <2> QED BY <1>3, <1>5, <2>1
<1>10. Leads(Hop(W[i], plane), plane, B)
  BY <1>7, <1>8, <1>9 DEF Leads
<1>11. IsProgram(W[i + 1]) <=> i + 1 # w
  <2>1. i + 1 # w => i + 1 \in 1 .. w - 1
    BY <1>2, <1>4
  <2> QED BY <1>3, <2>1
<1> QED BY <1>2, <1>3, <1>4, <1>5, <1>10, <1>11 DEF B, w

\* Program t is on the way W.
Meets(W, t) == \E k \in DOMAIN W : W[k] = t

\* The same for the place where Behind looks.
LEMMA LeadsBehind ==
  ASSUME NEW plane, NEW start, NEW W \in Seq(Targets), Leads(start, plane, W),
         NEW t, IsProgram(t), Meets(W, t)
  PROVE  Leads(Hop(t, plane), plane, Behind(t, W))
<1> DEFINE i == CHOOSE k \in DOMAIN W : W[k] = t
<1>1. i \in DOMAIN W /\ W[i] = t
  BY DEF Meets
<1>2. Behind(t, W) = SubSeq(W, i + 1, Len(W))
  BY DEF Behind
<1> HIDE DEF i
<1> QED BY <1>1, <1>2, LeadsAt

\* A single end is a way.
LEMMA LeadsToEnd ==
  ASSUME NEW plane, NEW t \in Targets, ~ IsProgram(t)
  PROVE  Leads(t, plane, <<t>>) /\ <<t>> \in Seq(Targets)
BY DEF Leads

\* The lists of programs, as sequences.
LEMMA ProgramLists ==
  ASSUME NEW s \in Seq(TCubes), NEW S, NEW kind \in {"in", "out"},
         NEW l, l = Listing(Places(s, S))
  PROVE  /\ Places(s, S) \in SUBSET (1 .. Len(s)) /\ Len(s) \in Nat
         /\ Len(l) \in Nat /\ \A k \in 1 .. Len(l) : l[k] \in Places(s, S)
         /\ InnerFirst(s, S, kind) \in Seq(Targets)
         /\ OuterFirst(s, S, kind) \in Seq(Targets)
         /\ Len(InnerFirst(s, S, kind)) = Len(l) /\ Len(OuterFirst(s, S, kind)) = Len(l)
         /\ \A k \in 1 .. Len(l) : /\ InnerFirst(s, S, kind)[k] = To(kind, s[l[k]])
                                   /\ OuterFirst(s, S, kind)[k] = To(kind, s[l[Len(l) + 1 - k]])
         /\ \A i \in Places(s, S) : To(kind, s[i]) \in Targets /\ s[i] \in TCubes
<1>1. Places(s, S) \in SUBSET (1 .. Len(s)) /\ Len(s) \in Nat
  BY LenProperties DEF Places
<1>2. Len(l) \in Nat /\ \A k \in 1 .. Len(l) : l[k] \in Places(s, S)
  BY <1>1, ListingOf
<1>3. \A i \in Places(s, S) : To(kind, s[i]) \in Targets /\ s[i] \in TCubes
  <2> SUFFICES ASSUME NEW i \in Places(s, S)
               PROVE  To(kind, s[i]) \in Targets /\ s[i] \in TCubes
    OBVIOUS
  <2>1. s[i] \in TCubes
    BY <1>1, ElementOfSeq
  <2> QED BY <2>1 DEF To, Targets, Kinds
<1> DEFINE n == Len(l)
           F == [k \in 1 .. n |-> To(kind, s[l[k]])]
           G == [k \in 1 .. n |-> To(kind, s[l[n + 1 - k]])]
<1>4. F = InnerFirst(s, S, kind) /\ G = OuterFirst(s, S, kind)
  BY DEF InnerFirst, OuterFirst
<1> HIDE DEF n
<1>5. ASSUME NEW k \in 1 .. n
      PROVE  To(kind, s[l[k]]) \in Targets /\ To(kind, s[l[n + 1 - k]]) \in Targets
  <2>1. n + 1 - k \in 1 .. n
    BY <1>2 DEF n
  <2>2. l[k] \in Places(s, S) /\ l[n + 1 - k] \in Places(s, S)
    BY <1>2, <2>1 DEF n
  <2> QED BY <1>3, <2>2
<1>6. F \in [1 .. n -> Targets] /\ G \in [1 .. n -> Targets]
  BY <1>5
<1>7. /\ \A k \in 1 .. n : F[k] = To(kind, s[l[k]]) /\ G[k] = To(kind, s[l[n + 1 - k]])
  OBVIOUS
<1> HIDE DEF F, G
<1>8. n \in Nat
  BY <1>2 DEF n
<1>9. F \in Seq(Targets) /\ Len(F) = n /\ G \in Seq(Targets) /\ Len(G) = n
  BY <1>6, <1>8
<1> QED BY <1>1, <1>2, <1>3, <1>4, <1>7, <1>9 DEF n

\* An upward chain is a way through its programs.
LEMMA UpwardWay ==
  ASSUME NEW plane, NEW f, NEW s \in Seq(TCubes), NEW S, NEW kind \in {"in", "out"},
         NEW target, Upward(f, s, S, kind, target),
         \A i \in Places(s, S) : Hop(To(kind, s[i]), plane) = f[s[i]],
         NEW B \in Seq(Targets), Leads(target, plane, B)
  PROVE  Leads(TopEntry(s, S, kind, target), plane, OuterFirst(s, S, kind) \o B)
<1> DEFINE I == Places(s, S)
           l == Listing(I)
           N == Len(l)
           A == OuterFirst(s, S, kind)
<1>1. /\ I \in SUBSET (1 .. Len(s)) /\ Len(s) \in Nat /\ N \in Nat
      /\ \A k \in 1 .. N : l[k] \in I
      /\ A \in Seq(Targets) /\ Len(A) = N
      /\ \A k \in 1 .. N : A[k] = To(kind, s[l[N + 1 - k]])
  BY ProgramLists
<1>2. /\ I = {} <=> N = 0
      /\ I # {} => Highest(I) = l[N]
      /\ \A k \in 2 .. N : {j \in I : j < l[k]} # {} /\ Highest({j \in I : j < l[k]}) = l[k - 1]
      /\ {j \in I : j < l[1]} = {}
  <2> HIDE DEF I
  <2> QED BY <1>1, ListingNeighbours
<1>3. \A i \in I : /\ f[s[i]] = AtHighest(s, {j \in I : j < i}, kind, target)
                   /\ Hop(To(kind, s[i]), plane) = f[s[i]]
  BY DEF Upward
<1>4. TopEntry(s, S, kind, target) = IF I = {} THEN target ELSE To(kind, s[Highest(I)])
  BY DEF TopEntry, AtHighest
<1> HIDE DEF I, l, N, A
<1>5. CASE I = {}
  <2>1. A = <<>>
    BY <1>1, <1>2, <1>5, EmptySeq
  <2>2. A \o B = B
    BY <2>1, ConcatEmptySeq
  <2> QED BY <1>4, <1>5, <2>2 DEF A
<1>6. CASE I # {}
  <2>1. N >= 1 /\ A # <<>>
    <3>1. N # 0 /\ Len(<<>>) = 0
      BY <1>2, <1>6, EmptySeq
    <3> QED BY <1>1, <3>1
  <2>2. \A k \in 1 .. N : IsProgram(A[k])
    BY <1>1 DEF IsProgram, To
  <2>3. ASSUME NEW k \in 2 .. N PROVE Hop(To(kind, s[l[k]]), plane) = To(kind, s[l[k - 1]])
    <3>1. k \in 1 .. N
      BY <1>1
    <3>2. Hop(To(kind, s[l[k]]), plane) = AtHighest(s, {j \in I : j < l[k]}, kind, target)
      BY <1>1, <1>3, <3>1
    <3> QED BY <1>2, <3>2 DEF AtHighest
  <2>4. Hop(To(kind, s[l[1]]), plane) = target
    <3>1. 1 \in 1 .. N
      BY <1>1, <2>1
    <3>2. Hop(To(kind, s[l[1]]), plane) = AtHighest(s, {j \in I : j < l[1]}, kind, target)
      BY <1>1, <1>3, <3>1
    <3> QED BY <1>2, <3>2 DEF AtHighest
  <2>5. ASSUME NEW k \in 1 .. N - 1 PROVE A[k + 1] = Hop(A[k], plane)
    <3>1. /\ k \in 1 .. N /\ k + 1 \in 1 .. N /\ N + 1 - k \in 2 .. N
          /\ N + 1 - (k + 1) = (N + 1 - k) - 1
      BY <1>1
    <3>2. A[k] = To(kind, s[l[N + 1 - k]])
      BY <1>1, <3>1
    <3>3. A[k + 1] = To(kind, s[l[N + 1 - (k + 1)]])
      BY <1>1, <3>1
    <3>4. Hop(To(kind, s[l[N + 1 - k]]), plane) = To(kind, s[l[(N + 1 - k) - 1]])
      BY <2>3, <3>1
    <3> QED BY <3>1, <3>2, <3>3, <3>4
  <2>6. A[N] = To(kind, s[l[1]]) /\ A[1] = To(kind, s[l[N]])
    <3>1. 1 \in 1 .. N /\ N \in 1 .. N /\ N + 1 - N = 1 /\ N + 1 - 1 = N
      BY <1>1, <2>1
    <3>2. A[N] = To(kind, s[l[N + 1 - N]])
      BY <1>1, <3>1
    <3>3. A[1] = To(kind, s[l[N + 1 - 1]])
      BY <1>1, <3>1
    <3> QED BY <3>1, <3>2, <3>3
  <2>7. Leads(A[1], plane, A \o B)
    <3>1. target = Hop(A[Len(A)], plane)
      BY <1>1, <2>4, <2>6
    <3>2. \A k \in 1 .. Len(A) : IsProgram(A[k])
      BY <1>1, <2>2
    <3>3. \A k \in 1 .. Len(A) - 1 : A[k + 1] = Hop(A[k], plane)
      BY <1>1, <2>5
    <3> QED BY <1>1, <2>1, <3>1, <3>2, <3>3, LeadsThrough
  <2> QED BY <1>2, <1>4, <1>6, <2>6, <2>7 DEF A
<1> QED BY <1>5, <1>6

\* A downward chain is a way through its programs.
LEMMA DownwardWay ==
  ASSUME NEW plane, NEW f, NEW s \in Seq(TCubes), NEW S, NEW kind \in {"in", "out"},
         NEW target, Downward(f, s, S, kind, target),
         \A i \in Places(s, S) : Hop(To(kind, s[i]), plane) = f[s[i]],
         NEW B \in Seq(Targets), Leads(target, plane, B)
  PROVE  Leads(BottomEntry(s, S, kind, target), plane, InnerFirst(s, S, kind) \o B)
<1> DEFINE I == Places(s, S)
           l == Listing(I)
           N == Len(l)
           A == InnerFirst(s, S, kind)
<1>1. /\ I \in SUBSET (1 .. Len(s)) /\ Len(s) \in Nat /\ N \in Nat
      /\ \A k \in 1 .. N : l[k] \in I
      /\ A \in Seq(Targets) /\ Len(A) = N
      /\ \A k \in 1 .. N : A[k] = To(kind, s[l[k]])
  BY ProgramLists
<1>2. /\ I = {} <=> N = 0
      /\ I # {} => Lowest(I) = l[1]
      /\ \A k \in 1 .. N - 1 : {j \in I : j > l[k]} # {} /\ Lowest({j \in I : j > l[k]}) = l[k + 1]
      /\ {j \in I : j > l[N]} = {}
  <2> HIDE DEF I
  <2> QED BY <1>1, ListingNeighbours
<1>3. \A i \in I : /\ f[s[i]] = AtLowest(s, {j \in I : j > i}, kind, target)
                   /\ Hop(To(kind, s[i]), plane) = f[s[i]]
  BY DEF Downward
<1>4. BottomEntry(s, S, kind, target) = IF I = {} THEN target ELSE To(kind, s[Lowest(I)])
  BY DEF BottomEntry, AtLowest
<1> HIDE DEF I, l, N, A
<1>5. CASE I = {}
  <2>1. A = <<>>
    BY <1>1, <1>2, <1>5, EmptySeq
  <2>2. A \o B = B
    BY <2>1, ConcatEmptySeq
  <2> QED BY <1>4, <1>5, <2>2 DEF A
<1>6. CASE I # {}
  <2>1. N >= 1 /\ A # <<>>
    <3>1. N # 0 /\ Len(<<>>) = 0
      BY <1>2, <1>6, EmptySeq
    <3> QED BY <1>1, <3>1
  <2>2. \A k \in 1 .. N : IsProgram(A[k])
    BY <1>1 DEF IsProgram, To
  <2>3. ASSUME NEW k \in 1 .. N - 1 PROVE A[k + 1] = Hop(A[k], plane)
    <3>1. k \in 1 .. N /\ k + 1 \in 1 .. N
      BY <1>1
    <3>2. Hop(To(kind, s[l[k]]), plane) = AtLowest(s, {j \in I : j > l[k]}, kind, target)
      BY <1>1, <1>3, <3>1
    <3>3. A[k] = To(kind, s[l[k]]) /\ A[k + 1] = To(kind, s[l[k + 1]])
      BY <1>1, <3>1
    <3>4. AtLowest(s, {j \in I : j > l[k]}, kind, target) = To(kind, s[l[k + 1]])
      BY <1>2 DEF AtLowest
    <3> QED BY <3>2, <3>3, <3>4
  <2>4. Hop(A[N], plane) = target /\ A[1] = To(kind, s[l[1]])
    <3>1. 1 \in 1 .. N /\ N \in 1 .. N
      BY <1>1, <2>1
    <3>2. Hop(To(kind, s[l[N]]), plane) = AtLowest(s, {j \in I : j > l[N]}, kind, target)
      BY <1>1, <1>3, <3>1
    <3>3. A[N] = To(kind, s[l[N]]) /\ A[1] = To(kind, s[l[1]])
      BY <1>1, <3>1
    <3>4. AtLowest(s, {j \in I : j > l[N]}, kind, target) = target
      BY <1>2 DEF AtLowest
    <3> QED BY <3>2, <3>3, <3>4
  <2>5. Leads(A[1], plane, A \o B)
    <3>1. target = Hop(A[Len(A)], plane)
      BY <1>1, <2>4
    <3>2. \A k \in 1 .. Len(A) : IsProgram(A[k])
      BY <1>1, <2>2
    <3>3. \A k \in 1 .. Len(A) - 1 : A[k + 1] = Hop(A[k], plane)
      BY <1>1, <2>3
    <3> QED BY <1>1, <2>1, <3>1, <3>2, <3>3, LeadsThrough
  <2> QED BY <1>2, <1>4, <1>6, <2>4, <2>5 DEF A
<1> QED BY <1>5, <1>6

-----------------------------------------------------------------------------
(* What the invariant says of the ways of packets.                         *)

\* What programs hand a packet to.
LEMMA Hops ==
  ASSUME NEW plane, NEW c
  PROVE  /\ Hop(To("in", c), plane) = net.next_in[c]
         /\ plane = hook => Hop(To("out", c), plane) = net.next_out[c]
         /\ plane # hook => Hop(To("out", c), plane) = net.next_twin[c]
         /\ plane = "tc" => Hop(To("parent_out", c), plane) = net.out_next[c]
         /\ plane # "tc" => Hop(To("parent_out", c), plane) = net.out_next_xdp[c]
         /\ IsProgram(To("in", c)) /\ IsProgram(To("out", c)) /\ IsProgram(To("parent_out", c))
BY DEF Hop, To, TransparentHop, EgressHop, IsProgram

\* What is no program.
LEMMA EndTargets ==
  /\ Stack \in Targets /\ ~ IsProgram(Stack) /\ Nowhere \in Targets
  /\ \A i \in Ifaces : To("netdev", i) \in Targets /\ ~ IsProgram(To("netdev", i))
                       /\ To("netdev", i) # Stack
  /\ \A p \in Ports : /\ To("parent_in", p) \in Targets /\ ~ IsProgram(To("parent_in", p))
                      /\ To("parent_in", p) # Stack
                      /\ To("parent_out", p) \in Targets
                      /\ To("parent_out", p) # Stack
  /\ \A c \in TCubes : /\ To("in", c) \in Targets /\ To("in", c) # Stack
                       /\ To("out", c) \in Targets /\ To("out", c) # Stack
BY DEF Stack, Nowhere, To, Targets, Kinds, IsProgram, Ends

\* Fields of a network.
LEMMA NetFields ==
  ASSUME NEW n \in Nets
  PROVE  /\ \A e \in Ends : n.cubes[e] \in Seq(TCubes) /\ n.link[e] \in Ends \cup {NoEnd}
         /\ \A c \in TCubes : /\ n.next_in[c] \in Targets /\ n.next_out[c] \in Targets
                              /\ n.egress_next_tc[c] \in Targets /\ n.next_twin[c] \in Targets
         /\ \A i \in Ifaces : n.index[i] \in Targets
         /\ \A p \in Ports : n.port_index[p] \in Targets
BY DEF Nets

\* The way into a port.
LEMMA WayIntoPort ==
  ASSUME Inv, NEW p \in Ports, NEW plane
  PROVE  /\ IntoPort(p) \in Seq(Targets)
         /\ Leads(net.port_index[p], plane, IntoPort(p))
         /\ net.port_index[p] # Stack
<1>1. /\ Upward(net.next_in, net.cubes[p], WithIngress, "in", To("parent_in", p))
      /\ net.port_index[p] = TopEntry(net.cubes[p], WithIngress, "in", To("parent_in", p))
      /\ net.cubes[p] \in Seq(TCubes)
  <2>1. EndChained(hook, net, p) /\ p \in Ends /\ net \in Nets
    BY DEF Inv, ChainedBut, TypeOK, Ends
  <2> QED BY <2>1, NetFields DEF EndChained, PortEntered
<1> DEFINE B == <<To("parent_in", p)>>
<1>2. B \in Seq(Targets) /\ Leads(To("parent_in", p), plane, B)
  BY EndTargets, LeadsToEnd
<1>3. \A i \in Places(net.cubes[p], WithIngress) :
        Hop(To("in", net.cubes[p][i]), plane) = net.next_in[net.cubes[p][i]]
  BY Hops
<1>4. OuterFirst(net.cubes[p], WithIngress, "in") \in Seq(Targets)
  BY <1>1, ProgramLists
<1> HIDE DEF B
<1>5. Leads(net.port_index[p], plane, OuterFirst(net.cubes[p], WithIngress, "in") \o B)
  BY <1>1, <1>2, <1>3, UpwardWay
<1>6. net.port_index[p] # Stack
  BY <1>1 DEF TopEntry, AtHighest, To, Stack
<1> QED BY <1>2, <1>4, <1>5, <1>6, ConcatProperties DEF IntoPort, B

\* The way in from an interface.
LEMMA WayFromIface ==
  ASSUME Inv, NEW i \in Ifaces
  PROVE  LET way == InnerFirst(net.cubes[i], WithIngress, "in")
                      \o (IF net.link[i] = NoEnd THEN <<Stack>> ELSE IntoPort(net.link[i]))
         IN way \in Seq(Targets) /\ Leads(ReceiveHop(i), hook, way)
<1>1. /\ Downward(net.next_in, net.cubes[i], WithIngress, "in", Inside(net, i))
      /\ net.rx[i].next = BottomEntry(net.cubes[i], WithIngress, "in", Inside(net, i))
      /\ net.cubes[i] \in Seq(TCubes)
  <2>1. EndChained(hook, net, i) /\ i \in Ends /\ net \in Nets /\ i \notin Ports
    BY EndsAssumption DEF Inv, ChainedBut, TypeOK, Ends
  <2> QED BY <2>1, NetFields DEF EndChained, IfaceEntered
<1> DEFINE B == IF net.link[i] = NoEnd THEN <<Stack>> ELSE IntoPort(net.link[i])
<1>2. B \in Seq(Targets) /\ Leads(Inside(net, i), hook, B)
  <2>1. CASE net.link[i] = NoEnd
    <3>1. <<Stack>> \in Seq(Targets) /\ Leads(Stack, hook, <<Stack>>)
      BY EndTargets, LeadsToEnd
    <3> QED BY <2>1, <3>1 DEF Inside
  <2>2. CASE net.link[i] # NoEnd
    <3>1. net.link[i] \in Ports
      BY <2>2 DEF Inv, Linked, Ends
    <3> QED BY <2>2, <3>1, WayIntoPort DEF Inside
  <2> QED BY <2>1, <2>2
<1>3. \A k \in Places(net.cubes[i], WithIngress) :
        Hop(To("in", net.cubes[i][k]), hook) = net.next_in[net.cubes[i][k]]
  BY Hops
<1>4. InnerFirst(net.cubes[i], WithIngress, "in") \in Seq(Targets)
  BY <1>1, ProgramLists
<1> HIDE DEF B
<1>5. Leads(ReceiveHop(i), hook, InnerFirst(net.cubes[i], WithIngress, "in") \o B)
  BY <1>1, <1>2, <1>3, DownwardWay DEF ReceiveHop
<1> QED BY <1>2, <1>4, <1>5, ConcatProperties DEF B

\* A chain that ends in the stack, and the same one that ends in the device.
LEMMA ResolveTop ==
  ASSUME NEW s \in Seq(TCubes), NEW S, NEW i \in Ifaces
  PROVE  Resolve(TopEntry(s, S, "out", Stack), i) = TopEntry(s, S, "out", To("netdev", i))
<1>1. CASE Places(s, S) = {}
  BY <1>1 DEF Resolve, TopEntry, AtHighest
<1>2. CASE Places(s, S) # {}
  BY <1>2 DEF Resolve, TopEntry, AtHighest, To, Stack
<1> QED BY <1>1, <1>2

\* The ways out of an interface: of the stack of the host on the TC hook, and
\* of the cubes on the XDP hook.
LEMMA WayOutOfIface ==
  ASSUME Inv, NEW i \in Ifaces
  PROVE  /\ OutThrough(i) \in Seq(Targets)
         /\ Leads(OutEntry(net, i), "tc", OutThrough(i) \o <<Stack>>)
         /\ hook = "xdp" => Leads(Resolve(net.index[i], i), hook,
                                  OutThrough(i) \o <<To("netdev", i)>>)
         /\ hook = "tc" =>
              Leads(TopEntry(net.cubes[i], WithEgress, "out", Stack), hook,
                    OuterFirst(net.cubes[i], WithEgress, "out") \o <<Stack>>)
         /\ hook = "xdp" =>
              Leads(TopEntry(net.cubes[i], WithEgress, "out", To("netdev", i)), hook,
                    OuterFirst(net.cubes[i], WithEgress, "out") \o <<To("netdev", i)>>)
<1> DEFINE s == net.cubes[i]
           A == OuterFirst(s, WithEgress, "out")
           q == net.link[i]
           top == TopEntry(s, WithEgress, "out", Stack)
           C == <<Stack>>
           D == <<To("netdev", i)>>
<1>1. IfaceLeft(hook, net, i) /\ s \in Seq(TCubes) /\ hook \in {"tc", "xdp"}
  <2>1. EndChained(hook, net, i) /\ i \in Ends /\ net \in Nets /\ i \notin Ports
    BY EndsAssumption DEF Inv, ChainedBut, TypeOK, Ends
  <2> QED BY <2>1, NetFields, HooksAssumption DEF EndChained, Inv, TypeOK
<1>2. A \in Seq(Targets)
  BY <1>1, ProgramLists
<1>3. /\ C \in Seq(Targets) /\ Leads(Stack, hook, C) /\ Leads(Stack, "tc", C)
      /\ D \in Seq(Targets) /\ Leads(To("netdev", i), hook, D)
  BY EndTargets, LeadsToEnd
<1> HIDE DEF s, A, q, top, C, D
<1>4. Leads(top, "tc", A \o C)
  <2>1. CASE hook = "tc"
    <3>1. Upward(net.next_out, s, WithEgress, "out", Stack)
      BY <1>1, <2>1 DEF IfaceLeft, s
    <3>2. \A k \in Places(s, WithEgress) : Hop(To("out", s[k]), "tc") = net.next_out[s[k]]
      BY <2>1, Hops
    <3> QED BY <1>1, <1>3, <3>1, <3>2, UpwardWay DEF top, A
  <2>2. CASE hook = "xdp"
    <3>1. Upward(net.next_twin, s, WithEgress, "out", Stack)
      BY <1>1, <2>2 DEF IfaceLeft, s
    <3>2. \A k \in Places(s, WithEgress) : Hop(To("out", s[k]), "tc") = net.next_twin[s[k]]
      BY <2>2, Hops
    <3> QED BY <1>1, <1>3, <3>1, <3>2, UpwardWay DEF top, A
  <2> QED BY <1>1, <2>1, <2>2
<1>5. ASSUME hook = "xdp"
      PROVE  Leads(TopEntry(s, WithEgress, "out", To("netdev", i)), hook, A \o D)
  <2>1. Upward(net.next_out, s, WithEgress, "out", To("netdev", i))
    BY <1>1, <1>5 DEF IfaceLeft, s
  <2>2. \A k \in Places(s, WithEgress) : Hop(To("out", s[k]), hook) = net.next_out[s[k]]
    BY Hops
  <2> QED BY <1>1, <1>3, <2>1, <2>2, UpwardWay DEF A
<1>6. ASSUME hook = "xdp" PROVE Leads(Resolve(top, i), hook, A \o D)
  BY <1>1, <1>5, <1>6, ResolveTop DEF top
<1>7. CASE q \notin ParentEgress
  <2>1. OutThrough(i) = A
    <3>1. OutThrough(i) = <<>> \o A
      BY <1>7 DEF OutThrough, A, s, q
    <3> QED BY <1>2, <3>1, ConcatEmptySeq
  <2>2. OutEntry(net, i) = top
    BY <1>7 DEF OutEntry, top, s, q
  <2>3. hook = "xdp" => net.index[i] = top
    BY <1>1, <2>2 DEF IfaceLeft
  <2> QED BY <1>2, <1>4, <1>5, <1>6, <2>1, <2>2, <2>3 DEF A, C, D, s, top
<1>8. CASE q \in ParentEgress
  <2> DEFINE E == <<To("parent_out", q)>>
  <2>1. q \in Ports
    BY <1>8, ProgramsAssumption
  <2>2. /\ E \in Seq(Targets) /\ E # <<>> /\ Len(E) = 1 /\ E[1] = To("parent_out", q)
        /\ IsProgram(E[1])
    <3>1. To("parent_out", q) \in Targets /\ IsProgram(To("parent_out", q))
      BY <2>1, EndTargets, Hops
    <3> QED BY <3>1
  <2>3. OutThrough(i) = E \o A
    BY <1>8 DEF OutThrough, A, s, q
  <2>4. OutEntry(net, i) = To("parent_out", q)
    BY <1>8 DEF OutEntry, q
  <2>5. /\ net.out_next[q] = top
        /\ hook = "xdp" => net.out_next_xdp[q] = Resolve(top, i) /\ net.index[i] = OutEntry(net, i)
    BY <1>1, <1>8 DEF IfaceLeft, top, s, q
  <2> HIDE DEF E
  <2>6. A \o C \in Seq(Targets) /\ A \o D \in Seq(Targets) /\ E \o A \in Seq(Targets)
    BY <1>2, <1>3, <2>2, ConcatProperties
  <2>7. (E \o A) \o C = E \o (A \o C) /\ (E \o A) \o D = E \o (A \o D)
    <3>1. ASSUME NEW X \in Seq(Targets) PROVE (E \o A) \o X = E \o (A \o X)
      <4>1. A \in Seq(Targets) /\ E \in Seq(Targets)
        BY <1>2, <2>2
      <4> QED BY <4>1, ConcatAssociative
    <3> QED BY <1>3, <3>1
  <2>8. \A k \in 1 .. Len(E) : IsProgram(E[k])
    BY <2>2
  <2>9. \A k \in 1 .. Len(E) - 1 : FALSE
    BY <2>2
  <2>10. Leads(E[1], "tc", E \o (A \o C))
    <3>1. top = Hop(E[Len(E)], "tc")
      BY <2>2, <2>5, Hops
    <3>2. \A k \in 1 .. Len(E) - 1 : E[k + 1] = Hop(E[k], "tc")
      BY <2>9
    <3> QED BY <1>4, <2>2, <2>6, <2>8, <3>1, <3>2, LeadsThrough
  <2>11. ASSUME hook = "xdp" PROVE Leads(E[1], hook, E \o (A \o D))
    <3>1. Resolve(top, i) = Hop(E[Len(E)], hook)
      BY <2>2, <2>5, <2>11, Hops
    <3>2. \A k \in 1 .. Len(E) - 1 : E[k + 1] = Hop(E[k], hook)
      BY <2>9
    <3> QED BY <1>6, <2>2, <2>6, <2>8, <2>11, <3>1, <3>2, LeadsThrough
  <2>12. hook = "xdp" => Resolve(net.index[i], i) = E[1]
    <3>1. To("parent_out", q) # Stack
      BY <2>1, EndTargets
    <3> QED BY <2>2, <2>4, <2>5, <3>1 DEF Resolve
  <2>13. Leads(OutEntry(net, i), "tc", OutThrough(i) \o C)
    BY <2>2, <2>3, <2>4, <2>7, <2>10
  <2>14. hook = "xdp" => Leads(Resolve(net.index[i], i), hook, OutThrough(i) \o D)
    BY <2>3, <2>7, <2>11, <2>12
  <2> QED BY <1>4, <1>5, <2>3, <2>6, <2>13, <2>14 DEF A, C, D, s, top
<1> QED BY <1>7, <1>8

\* The way behind the egress cubes of a linked port.
LEMMA WayBeyond ==
  ASSUME Inv, NEW p \in Ports, net.link[p] # NoEnd
  PROVE  Beyond(p) \in Seq(Targets) /\ Leads(Outside(net, p), hook, Beyond(p))
<1> DEFINE q == net.link[p]
<1>1. q \in Ends
  BY NetFields DEF Inv, TypeOK, Ends
<1>2. CASE q \in Ports
  <2>1. q \notin Ifaces
    BY <1>2, EndsAssumption
  <2> QED BY <1>2, <2>1, WayIntoPort DEF Beyond, Outside
<1>3. CASE q \in Ifaces
  <2>1. q \notin Ports
    BY <1>3, EndsAssumption
  <2> DEFINE D == <<To("netdev", q)>>
  <2>2. D \in Seq(Targets) /\ Leads(To("netdev", q), hook, D)
    BY <1>3, EndTargets, LeadsToEnd
  <2>3. Outside(net, p) = Resolve(net.index[q], q)
    BY <1>3 DEF Outside
  <2>4. CASE hook = "xdp"
    <3>1. Beyond(p) = OutThrough(q) \o D
      BY <2>1, <2>4 DEF Beyond
    <3>2. OutThrough(q) \in Seq(Targets)
          /\ Leads(Resolve(net.index[q], q), hook, OutThrough(q) \o D)
      BY <1>3, <2>4, WayOutOfIface
    <3> HIDE DEF D
    <3> QED BY <2>2, <2>3, <3>1, <3>2, ConcatProperties
  <2>5. CASE hook = "tc"
    <3>1. Beyond(p) = <<>> \o D
      BY <2>1, <2>5 DEF Beyond
    <3>2. Beyond(p) = D
      BY <2>2, <3>1, ConcatEmptySeq
    <3>3. net.index[q] = Stack
      BY <1>3, <2>5 DEF Inv, ChainedBut, Common
    <3> QED BY <2>2, <2>3, <3>2, <3>3 DEF Resolve
  <2> QED BY <2>4, <2>5, HooksAssumption DEF Inv, TypeOK
<1> QED BY <1>1, <1>2, <1>3 DEF Ends

\* A cube of the list is met on the way through the list.
LEMMA Met ==
  ASSUME NEW s \in Seq(TCubes), NEW S, NEW kind \in {"in", "out"}, NEW B \in Seq(Targets),
         NEW c \in S, c \in Of(s)
  PROVE  /\ Meets(InnerFirst(s, S, kind) \o B, To(kind, c))
         /\ Meets(OuterFirst(s, S, kind) \o B, To(kind, c))
<1> DEFINE I == Places(s, S)
           l == Listing(I)
           N == Len(l)
           X == InnerFirst(s, S, kind)
           Y == OuterFirst(s, S, kind)
<1>1. /\ I \in SUBSET (1 .. Len(s)) /\ Len(s) \in Nat /\ N \in Nat
      /\ X \in Seq(Targets) /\ Len(X) = N /\ Y \in Seq(Targets) /\ Len(Y) = N
      /\ \A k \in 1 .. N : X[k] = To(kind, s[l[k]]) /\ Y[k] = To(kind, s[l[N + 1 - k]])
  BY ProgramLists
<1>2. PICK i \in I : s[i] = c
  BY DEF Of, Places
<1>3. PICK j \in 1 .. N : l[j] = i
  <2> HIDE DEF I
  <2> QED BY <1>1, ListingOf
<1> HIDE DEF I, l, N, X, Y
<1>4. ASSUME NEW A \in Seq(Targets), Len(A) = N, NEW k \in 1 .. N, A[k] = To(kind, c)
      PROVE  Meets(A \o B, To(kind, c))
  <2>1. /\ Len(B) \in Nat /\ Len(A \o B) = N + Len(B) /\ A \o B \in Seq(Targets)
        /\ \A m \in 1 .. N + Len(B) : (A \o B)[m] = IF m <= N THEN A[m] ELSE B[m - N]
    BY <1>4, ConcatProperties, LenProperties
  <2>2. k \in 1 .. N + Len(B) /\ k <= N
    BY <1>1, <2>1
  <2>3. DOMAIN (A \o B) = 1 .. N + Len(B)
    BY <2>1, LenProperties
  <2> QED BY <1>4, <2>1, <2>2, <2>3 DEF Meets
<1>5. X[j] = To(kind, c)
  BY <1>1, <1>2, <1>3
<1>6. N + 1 - j \in 1 .. N /\ N + 1 - (N + 1 - j) = j
  BY <1>1
<1>7. Y[N + 1 - j] = To(kind, c)
  <2>1. Y[N + 1 - j] = To(kind, s[l[N + 1 - (N + 1 - j)]])
    BY <1>1, <1>6
  <2> QED BY <1>2, <1>3, <1>6, <2>1
<1> QED BY <1>1, <1>4, <1>5, <1>6, <1>7 DEF X, Y

\* ReceivePath follows from the invariant.
LEMMA InvReceives == Inv => ReceivePath
<1> SUFFICES ASSUME Inv, NEW i \in Ifaces
             PROVE  /\ Leads(ReceiveHop(i), hook,
                             InnerFirst(net.cubes[i], WithIngress, "in")
                               \o (IF net.link[i] = NoEnd THEN <<Stack>> ELSE IntoPort(net.link[i])))
                    /\ net.rx[i].port = net.link[i]
  BY DEF ReceivePath
<1>1. EndChained(hook, net, i) /\ i \notin Ports
  BY EndsAssumption DEF Inv, ChainedBut, Ends
<1> QED BY <1>1, WayFromIface DEF EndChained, IfaceEntered

\* TransmitPath follows from the invariant.
LEMMA InvTransmits == Inv => TransmitPath
<1> SUFFICES ASSUME Inv, NEW i \in Ifaces
             PROVE  /\ Leads(net.tx[i].next, "tc", OutThrough(i) \o <<Stack>>)
                    /\ net.tx[i].port = net.link[i]
  BY DEF TransmitPath
<1>1. EndChained(hook, net, i) /\ i \notin Ports
  BY EndsAssumption DEF Inv, ChainedBut, Ends
<1>2. net.tx[i] = [next |-> OutEntry(net, i), port |-> net.link[i]]
  BY <1>1 DEF EndChained, IfaceLeft
<1>3. net.tx[i].next = OutEntry(net, i) /\ net.tx[i].port = net.link[i]
  BY <1>2
<1>4. Leads(OutEntry(net, i), "tc", OutThrough(i) \o <<Stack>>)
  BY WayOutOfIface
<1> QED BY <1>3, <1>4

\* The way out of a linked port.
LEMMA WayFromPort ==
  ASSUME Inv, NEW p \in Ports, net.link[p] # NoEnd
  PROVE  LET way == InnerFirst(net.cubes[p], WithEgress, "out") \o Beyond(p)
         IN /\ way \in Seq(Targets)
            /\ Leads(ForwardHop(p), hook, way)
            /\ net.fwd[p].port = Carried(p, "out")
<1>1. PortLeft(net, p, Outside(net, p)) /\ net.cubes[p] \in Seq(TCubes)
  <2>1. EndChained(hook, net, p) /\ p \in Ends /\ net \in Nets
    BY DEF Inv, ChainedBut, TypeOK, Ends
  <2> QED BY <2>1, NetFields DEF EndChained
<1>2. /\ Downward(net.next_out, net.cubes[p], WithEgress, "out", Outside(net, p))
      /\ net.fwd[p].next = BottomEntry(net.cubes[p], WithEgress, "out", Outside(net, p))
      /\ net.fwd[p].port = IF net.link[p] \in Ports THEN net.link[p] ELSE p
  BY <1>1 DEF PortLeft
<1>3. \A k \in Places(net.cubes[p], WithEgress) :
        Hop(To("out", net.cubes[p][k]), hook) = net.next_out[net.cubes[p][k]]
  BY Hops
<1>4. InnerFirst(net.cubes[p], WithEgress, "out") \in Seq(Targets)
  BY <1>1, ProgramLists
<1>5. Leads(ForwardHop(p), hook, InnerFirst(net.cubes[p], WithEgress, "out") \o Beyond(p))
  BY <1>1, <1>2, <1>3, WayBeyond, DownwardWay DEF ForwardHop
<1>6. net.fwd[p].port = Carried(p, "out")
  BY <1>2, EndsAssumption DEF Carried
<1> QED BY <1>4, <1>5, <1>6, WayBeyond, ConcatProperties

\* SendPath follows from the invariant.
LEMMA InvSends == Inv => SendPath
BY WayFromPort DEF SendPath

\* What a service sends out of a port.
LEMMA PortServed ==
  ASSUME Inv, NEW p \in Ports, net.link[p] # NoEnd
  PROVE  Leads(PortOut(p).next, hook, Beyond(p)) /\ PortOut(p).port = net.fwd[p].port
<1>1. net.link[p] \in Ends
  BY NetFields DEF Inv, TypeOK, Ends
<1>2. PortOut(p).next = Outside(net, p)
  BY DEF PortOut, Outside
<1>3. PortOut(p).port = IF net.link[p] \in Ports THEN net.link[p] ELSE p
  BY <1>1, EndsAssumption DEF PortOut, Ends
<1>4. net.fwd[p].port = IF net.link[p] \in Ports THEN net.link[p] ELSE p
  <2>1. EndChained(hook, net, p)
    BY DEF Inv, ChainedBut, Ends
  <2> QED BY <2>1 DEF EndChained, PortLeft
<1> QED BY <1>2, <1>3, <1>4, WayBeyond

\* Behind a program of a way to the stack are the same programs as behind it on
\* a way with another end.
LEMMA OtherEnd ==
  ASSUME NEW A \in Seq(Targets), NEW end \in Targets, ~ IsProgram(end),
         NEW t, IsProgram(t), NEW start, Leads(start, hook, A \o <<Stack>>),
         Meets(A \o <<end>>, t)
  PROVE  LET way == Behind(t, A \o <<end>>)
         IN /\ Hop(t, hook) # Stack => Leads(Hop(t, hook), hook, Programs(way) \o <<Stack>>)
            /\ Hop(t, hook) = Stack => way = <<end>> /\ Programs(way) = <<>>
<1> DEFINE W == A \o <<Stack>>
           V == A \o <<end>>
           a == Len(A)
           i == CHOOSE k \in DOMAIN V : V[k] = t
           way == SubSeq(V, i + 1, Len(V))
           rest == SubSeq(W, i + 1, Len(W))
<1>1. i \in DOMAIN V /\ V[i] = t /\ Behind(t, V) = way
  BY DEF Behind, Meets
<1>2. Stack \in Targets /\ ~ IsProgram(Stack)
  BY EndTargets
<1>3. /\ a \in Nat
      /\ W \in Seq(Targets) /\ Len(W) = a + 1 /\ \A k \in 1 .. a : W[k] = A[k]
      /\ V \in Seq(Targets) /\ Len(V) = a + 1 /\ \A k \in 1 .. a : V[k] = A[k]
      /\ W[a + 1] = Stack /\ V[a + 1] = end
  BY <1>2
<1> HIDE DEF W, V, a, i
<1>4. i \in 1 .. a + 1 /\ DOMAIN W = 1 .. a + 1
  BY <1>1, <1>3, LenProperties
<1>5. i \in 1 .. a
  <2>1. i # a + 1
    BY <1>1, <1>3
  <2> QED BY <1>3, <1>4, <2>1
<1>6. W[i] = t /\ i \in DOMAIN W
  <2>1. W[i] = A[i] /\ V[i] = A[i]
    BY <1>3, <1>5
  <2> QED BY <1>1, <1>3, <1>4, <2>1
<1>7. /\ Leads(Hop(t, hook), hook, rest) /\ rest \in Seq(Targets)
      /\ W[i + 1] = Hop(t, hook)
      /\ IsProgram(W[i + 1]) <=> i + 1 # a + 1
  <2>1. Leads(start, hook, W)
    BY DEF W
  <2> QED BY <1>3, <1>6, <2>1, LeadsAt
<1>8. /\ Len(way) = a + 1 - i /\ way \in Seq(Targets)
      /\ \A k \in 1 .. a + 1 - i : way[k] = V[i + k]
      /\ Len(rest) = a + 1 - i /\ rest \in Seq(Targets)
      /\ \A k \in 1 .. a + 1 - i : rest[k] = W[i + k]
  <2>1. i + 1 \in Int /\ a + 1 \in Int /\ i + 1 <= a + 1 /\ a + 1 - (i + 1) + 1 = a + 1 - i
        /\ a + 1 - i \in Nat
    BY <1>3, <1>5
  <2>2. ASSUME NEW S \in Seq(Targets), Len(S) = a + 1
        PROVE  /\ SubSeq(S, i + 1, a + 1) \in Seq(Targets)
               /\ Len(SubSeq(S, i + 1, a + 1)) = a + 1 - i
               /\ \A k \in 1 .. a + 1 - i : SubSeq(S, i + 1, a + 1)[k] = S[i + k]
    <3>1. \A k \in i + 1 .. a + 1 : S[k] \in Targets
      BY <1>3, <1>5, <2>2, ElementOfSeq
    <3>2. /\ SubSeq(S, i + 1, a + 1) \in Seq(Targets)
          /\ Len(SubSeq(S, i + 1, a + 1)) = a + 1 - i
          /\ \A k \in 1 .. a + 1 - i : SubSeq(S, i + 1, a + 1)[k] = S[(i + 1) + k - 1]
      <4>1. PICK m, n : m = i + 1 /\ n = a + 1
        OBVIOUS
      <4>2. m \in Int /\ n \in Int /\ m <= n /\ n - m + 1 = a + 1 - i
        BY <1>3, <1>5, <4>1
      <4>3. \A k \in m .. n : S[k] \in Targets
        BY <3>1, <4>1
      <4>4. /\ SubSeq(S, m, n) \in Seq(Targets)
            /\ Len(SubSeq(S, m, n)) = IF m <= n THEN n - m + 1 ELSE 0
            /\ \A k \in 1 .. n - m + 1 : SubSeq(S, m, n)[k] = S[m + k - 1]
        BY <4>2, <4>3, SubSeqProperties
      <4> QED BY <4>1, <4>2, <4>4
    <3>3. ASSUME NEW k \in 1 .. a + 1 - i PROVE (i + 1) + k - 1 = i + k
      BY <1>3, <1>5
    <3> QED BY <3>2, <3>3
  <2>3. way = SubSeq(V, i + 1, a + 1) /\ rest = SubSeq(W, i + 1, a + 1)
    BY <1>3
  <2> HIDE DEF way, rest
  <2> QED BY <1>3, <2>2, <2>3
<1> HIDE DEF way, rest
<1> DEFINE r == a + 1 - i
<1>9. r \in Nat /\ r >= 1 /\ r - 1 \in Nat /\ i + r = a + 1
  BY <1>3, <1>5
<1>10. /\ Programs(way) \in Seq(Targets) /\ Len(Programs(way)) = r - 1
       /\ \A k \in 1 .. r - 1 : Programs(way)[k] = way[k]
  <2>1. Programs(way) = SubSeq(way, 1, r - 1)
    BY <1>8 DEF Programs
  <2>2. \A k \in 1 .. r - 1 : way[k] \in Targets
    <3>1. \A k \in 1 .. r - 1 : k \in 1 .. Len(way)
      BY <1>8, <1>9
    <3> QED BY <1>8, <3>1, ElementOfSeq
  <2> HIDE DEF r
  <2>3. /\ SubSeq(way, 1, r - 1) \in Seq(Targets)
        /\ Len(SubSeq(way, 1, r - 1)) = r - 1
        /\ \A k \in 1 .. r - 1 : SubSeq(way, 1, r - 1)[k] = way[k]
    <3>1. r - 1 - 1 + 1 = r - 1 /\ 1 \in Int /\ r - 1 \in Int
      BY <1>9
    <3>2. /\ SubSeq(way, 1, r - 1) \in Seq(Targets)
          /\ Len(SubSeq(way, 1, r - 1)) = IF 1 <= r - 1 THEN r - 1 - 1 + 1 ELSE 0
          /\ \A k \in 1 .. r - 1 - 1 + 1 : SubSeq(way, 1, r - 1)[k] = way[1 + k - 1]
      BY <2>2, <3>1, SubSeqProperties
    <3>3. \A k \in 1 .. r - 1 : 1 + k - 1 = k
      BY <1>9
    <3> QED BY <1>9, <3>1, <3>2, <3>3
  <2> QED BY <2>1, <2>3
<1>11. Programs(way) \o <<Stack>> = rest
  <2> DEFINE P == Programs(way) \o <<Stack>>
  <2> HIDE DEF r
  <2>1. /\ P \in Seq(Targets) /\ Len(P) = r
        /\ \A k \in 1 .. r - 1 : P[k] = way[k]
        /\ P[r] = Stack
    <3> DEFINE X == Programs(way)
    <3>1. X \in Seq(Targets) /\ Len(X) = r - 1 /\ \A k \in 1 .. r - 1 : X[k] = way[k]
      BY <1>10
    <3> HIDE DEF X
    <3>2. X \o <<Stack>> \in Seq(Targets) /\ Len(X \o <<Stack>>) = r
          /\ \A k \in 1 .. r - 1 : (X \o <<Stack>>)[k] = X[k]
          /\ (X \o <<Stack>>)[r] = Stack
      BY <1>2, <1>9, <3>1
    <3> QED BY <3>1, <3>2 DEF X
  <2>2. ASSUME NEW k \in 1 .. r PROVE P[k] = rest[k]
    <3>1. CASE k = r
      <4>1. rest[k] = W[i + k] /\ i + k = a + 1
        BY <1>8, <1>9, <3>1 DEF r
      <4> QED BY <1>3, <2>1, <3>1, <4>1
    <3>2. CASE k # r
      <4>1. k \in 1 .. r - 1 /\ i + k \in 1 .. a
        BY <1>3, <1>5, <1>9, <3>2
      <4>2. rest[k] = W[i + k] /\ way[k] = V[i + k]
        BY <1>8 DEF r
      <4>3. W[i + k] = V[i + k]
        BY <1>3, <4>1
      <4> QED BY <2>1, <4>1, <4>2, <4>3
    <3> QED BY <3>1, <3>2
  <2>3. Len(rest) = r /\ rest \in Seq(Targets)
    BY <1>8 DEF r
  <2> HIDE DEF P
  <2>4. P = rest
    BY <2>1, <2>2, <2>3, SeqEqual
  <2> QED BY <2>4 DEF P
<1>12. ASSUME Hop(t, hook) = Stack PROVE way = <<end>> /\ Programs(way) = <<>>
  <2>1. i + 1 = a + 1
    BY <1>2, <1>7, <1>12
  <2>2. r = 1
    BY <1>3, <1>5, <2>1
  <2>3. Len(way) = 1 /\ way[1] = end /\ way \in Seq(Targets)
    <3>1. 1 \in 1 .. r /\ r = a + 1 - i
      BY <2>2
    <3>2. way[1] = V[i + 1]
      BY <1>8, <3>1
    <3> QED BY <1>3, <1>8, <2>1, <2>2, <3>1, <3>2
  <2>4. way = <<end>>
    <3>1. <<end>> \in Seq(Targets) /\ Len(<<end>>) = 1 /\ <<end>>[1] = end
      OBVIOUS
    <3>2. \A k \in 1 .. Len(way) : way[k] = <<end>>[k]
      BY <2>3, <3>1
    <3> QED BY <2>3, <3>1, <3>2, SeqEqual
  <2>5. Programs(way) = <<>>
    <3>1. Len(Programs(way)) = 0 /\ Programs(way) \in Seq(Targets)
      BY <1>10, <2>2
    <3> QED BY <3>1, EmptySeq
  <2> QED BY <2>4, <2>5
<1> QED BY <1>1, <1>7, <1>11, <1>12 DEF V

\* The conditions under which ServicePath speaks of transparent cube c.
Serves(c, direction) ==
  /\ parent[c] # NoEnd
  /\ c \in (IF direction = "in" THEN WithIngress ELSE WithEgress)
  /\ parent[c] \in Ports /\ direction = "out" => net.link[parent[c]] # NoEnd

\* Where such a cube is.
LEMMA ServingCube ==
  ASSUME Inv, NEW c \in TCubes, NEW direction \in {"in", "out"}, Serves(c, direction)
  PROVE  /\ parent[c] \in Ends /\ c \in Of(net.cubes[parent[c]])
         /\ net.cubes[parent[c]] \in Seq(TCubes)
         /\ EndChained(hook, net, parent[c])
<1>1. parent[c] \in Ends
  BY DEF Serves, Inv, TypeOK
<1>2. c \in Of(net.cubes[parent[c]])
  BY <1>1 DEF Inv, Lists
<1>3. net.cubes[parent[c]] \in Seq(TCubes)
  BY <1>1, NetFields DEF Inv, TypeOK
<1> QED BY <1>1, <1>2, <1>3 DEF Inv, ChainedBut

\* What a cube of a port or the ingress side of an interface sends.
LEMMA CubeServed ==
  ASSUME Inv, NEW c \in TCubes, NEW direction \in {"in", "out"}, Serves(c, direction),
         parent[c] \in Ports \/ direction = "in" \/ hook = "xdp"
  PROVE  Leads(CubeOut(c, direction).next, hook,
               Behind(To(direction, c), Way(parent[c], direction)))
<1> DEFINE e == parent[c]
           way == Way(e, direction)
           t == To(direction, c)
<1>1. e \in Ends /\ c \in Of(net.cubes[e]) /\ net.cubes[e] \in Seq(TCubes)
  BY ServingCube
<1>2. IsProgram(t)
  BY Hops
<1> SUFFICES /\ \E start : Leads(start, hook, way)
             /\ way \in Seq(Targets) /\ Meets(way, t)
             /\ CubeOut(c, direction).next = Hop(t, hook)
  BY <1>2, LeadsBehind
<1> HIDE DEF e
<1>3. CASE direction = "in"
  <2>1. CubeOut(c, direction).next = Hop(t, hook)
    BY <1>3, Hops DEF CubeOut
  <2>2. c \in WithIngress
    BY <1>3 DEF Serves
  <2>3. CASE e \in Ports
    <3>1. way = IntoPort(e)
      BY <1>3, <2>3 DEF Way
    <3>2. <<To("parent_in", e)>> \in Seq(Targets)
      BY <2>3, EndTargets
    <3>3. Meets(way, t)
      BY <1>1, <1>3, <2>2, <3>1, <3>2, Met DEF IntoPort
    <3> QED BY <2>1, <2>3, <3>1, <3>3, WayIntoPort
  <2>4. CASE e \in Ifaces
    <3> DEFINE B == IF net.link[e] = NoEnd THEN <<Stack>> ELSE IntoPort(net.link[e])
    <3>1. way = InnerFirst(net.cubes[e], WithIngress, "in") \o B
      BY <1>3, <2>4, EndsAssumption DEF Way
    <3>2. B \in Seq(Targets)
      <4>1. CASE net.link[e] = NoEnd
        BY <4>1, EndTargets
      <4>2. CASE net.link[e] # NoEnd
        <5>1. net.link[e] \in Ports
          BY <1>1, <2>4, <4>2 DEF Inv, Linked
        <5> QED BY <4>2, <5>1, WayIntoPort
      <4> QED BY <4>1, <4>2
    <3> HIDE DEF B
    <3>3. Meets(way, t)
      BY <1>1, <1>3, <2>2, <3>1, <3>2, Met
    <3>4. way \in Seq(Targets) /\ Leads(ReceiveHop(e), hook, way)
      BY <2>4, <3>1, WayFromIface DEF B
    <3> QED BY <2>1, <3>3, <3>4
  <2> QED BY <1>1, <2>3, <2>4 DEF Ends
<1>4. CASE direction = "out" /\ e \in Ports
  <2>1. net.link[e] # NoEnd /\ c \in WithEgress
    BY <1>4 DEF Serves, e
  <2>2. way = InnerFirst(net.cubes[e], WithEgress, "out") \o Beyond(e)
    BY <1>4 DEF Way
  <2>3. way \in Seq(Targets) /\ Leads(ForwardHop(e), hook, way)
    BY <1>4, <2>1, <2>2, WayFromPort
  <2>4. Beyond(e) \in Seq(Targets)
    BY <1>4, <2>1, WayBeyond
  <2>5. Meets(way, t)
    BY <1>1, <1>4, <2>1, <2>2, <2>4, Met
  <2>6. net.next_out[c] # Stack
    <3>1. Downward(net.next_out, net.cubes[e], WithEgress, "out", Outside(net, e))
      BY <1>4, <2>1, ServingCube DEF EndChained, PortLeft, e
    <3>2. Outside(net, e) # Stack
      <4>1. CASE net.link[e] \in Ifaces
        BY <4>1, EndTargets DEF Outside, Resolve
      <4>2. CASE net.link[e] \in Ports
        BY <4>2, EndsAssumption, WayIntoPort DEF Outside
      <4> QED BY <1>1, <2>1, <4>1, <4>2, NetFields DEF Inv, TypeOK, Ends
    <3>3. PICK i \in Places(net.cubes[e], WithEgress) : net.cubes[e][i] = c
      BY <1>1, <2>1 DEF Of, Places
    <3>4. net.next_out[c] = AtLowest(net.cubes[e], {j \in Places(net.cubes[e], WithEgress) : j > i},
                                     "out", Outside(net, e))
      BY <3>1, <3>3 DEF Downward
    <3>5. \A x : To("out", x) # Stack
      BY DEF To, Stack
    <3> QED BY <3>2, <3>4, <3>5 DEF AtLowest
  <2>7. CubeOut(c, direction).next = Hop(t, hook)
    BY <1>4, <2>6, Hops DEF CubeOut
  <2> QED BY <2>3, <2>5, <2>7
<1>5. CASE direction = "out" /\ e \in Ifaces
  <2>1. hook = "xdp" /\ e \notin Ports
    BY <1>5, EndsAssumption DEF e
  <2> DEFINE B == <<To("netdev", e)>>
  <2>2. way = OuterFirst(net.cubes[e], WithEgress, "out") \o B
    BY <1>5, <2>1 DEF Way
  <2>3. B \in Seq(Targets)
    BY <1>5, EndTargets
  <2>4. c \in WithEgress
    BY <1>5 DEF Serves
  <2>5. OuterFirst(net.cubes[e], WithEgress, "out") \in Seq(Targets)
    BY <1>1, ProgramLists
  <2>6. Leads(TopEntry(net.cubes[e], WithEgress, "out", To("netdev", e)), hook, way)
    BY <1>5, <2>1, <2>2, WayOutOfIface
  <2> HIDE DEF B
  <2>7. Meets(way, t)
    BY <1>1, <1>5, <2>2, <2>3, <2>4, Met
  <2>8. CubeOut(c, direction).next = Hop(t, hook)
    BY <1>5, <2>1, Hops DEF CubeOut
  <2>9. way \in Seq(Targets)
    BY <2>2, <2>3, <2>5, ConcatProperties
  <2> QED BY <2>6, <2>7, <2>8, <2>9
<1> QED BY <1>1, <1>3, <1>4, <1>5 DEF Ends

\* What a cube of a TC interface sends out.
LEMMA IfaceCubeServed ==
  ASSUME Inv, NEW c \in TCubes, Serves(c, "out"), parent[c] \in Ifaces, hook = "tc"
  PROVE  LET way == Behind(To("out", c), Way(parent[c], "out"))
         IN Leads(CubeOut(c, "out").next, hook,
                  IF EndsElsewhere(c, "out") THEN Programs(way) \o <<Elsewhere(c)>> ELSE way)
<1> DEFINE e == parent[c]
           t == To("out", c)
           A == OuterFirst(net.cubes[e], WithEgress, "out")
           end == To("netdev", e)
           way == Behind(t, A \o <<end>>)
<1>1. /\ e \in Ends /\ c \in Of(net.cubes[e]) /\ net.cubes[e] \in Seq(TCubes)
      /\ e \notin Ports /\ c \in WithEgress
  BY ServingCube, EndsAssumption DEF Serves
<1>2. Way(e, "out") = A \o <<end>>
  BY <1>1 DEF Way
<1>3. A \in Seq(Targets)
  BY <1>1, ProgramLists
<1>4. end \in Targets /\ ~ IsProgram(end) /\ IsProgram(t)
  BY EndTargets, Hops
<1>5. Meets(A \o <<end>>, t)
  <2>1. <<end>> \in Seq(Targets)
    BY <1>4
  <2> QED BY <1>1, <2>1, Met
<1>6. Leads(TopEntry(net.cubes[e], WithEgress, "out", Stack), hook, A \o <<Stack>>)
  BY WayOutOfIface
<1>7. Hop(t, hook) = net.next_out[c]
  BY Hops
<1> HIDE DEF A, t, end
<1>8. /\ Hop(t, hook) # Stack => Leads(Hop(t, hook), hook, Programs(way) \o <<Stack>>)
      /\ Hop(t, hook) = Stack => way = <<end>> /\ Programs(way) = <<>>
  BY <1>3, <1>4, <1>5, <1>6, OtherEnd
<1> HIDE DEF way
<1>9. CASE net.next_out[c] # Stack
  <2>1. CubeOut(c, "out").next = Hop(t, hook)
    BY <1>7, <1>9 DEF CubeOut
  <2>2. EndsElsewhere(c, "out") /\ Elsewhere(c) = Stack
    BY <1>9 DEF EndsElsewhere, Elsewhere
  <2>3. Leads(CubeOut(c, "out").next, hook, Programs(way) \o <<Elsewhere(c)>>)
    BY <1>7, <1>8, <1>9, <2>1, <2>2
  <2> QED BY <1>2, <2>2, <2>3 DEF way, t
<1>10. CASE net.next_out[c] = Stack /\ net.link[e] = NoEnd
  <2>1. CubeOut(c, "out").next = end
    BY <1>10 DEF CubeOut, OutPort, end
  <2>2. ~ EndsElsewhere(c, "out")
    BY <1>10 DEF EndsElsewhere
  <2>3. Leads(CubeOut(c, "out").next, hook, way)
    BY <1>4, <1>7, <1>8, <1>10, <2>1, LeadsToEnd
  <2> QED BY <1>2, <2>2, <2>3 DEF way, t
<1>11. CASE net.next_out[c] = Stack /\ net.link[e] # NoEnd
  <2>1. EndsElsewhere(c, "out") /\ Elsewhere(c) = To("netdev", net.link[e])
    BY <1>11 DEF EndsElsewhere, Elsewhere
  <2>2. CubeOut(c, "out").next = Elsewhere(c)
    BY <1>11, <2>1 DEF CubeOut, OutPort
  <2>3. Elsewhere(c) \in Targets /\ ~ IsProgram(Elsewhere(c))
    <3>1. net.link[e] \in Ends
      BY <1>1, <1>11, NetFields DEF Inv, TypeOK
    <3> QED BY <2>1, <3>1 DEF To, Targets, Kinds, IsProgram
  <2>4. Programs(way) \o <<Elsewhere(c)>> = <<Elsewhere(c)>>
    <3>1. Programs(way) = <<>>
      BY <1>7, <1>8, <1>11
    <3>2. <<Elsewhere(c)>> \in Seq(Targets)
      BY <2>3
    <3> QED BY <3>1, <3>2, ConcatEmptySeq
  <2>5. Leads(CubeOut(c, "out").next, hook, Programs(way) \o <<Elsewhere(c)>>)
    BY <2>2, <2>3, <2>4, LeadsToEnd
  <2> QED BY <1>2, <2>1, <2>5 DEF way, t
<1> QED BY <1>9, <1>10, <1>11

\* ServicePath follows from the invariant.
LEMMA InvServes == Inv => ServicePath
<1> SUFFICES ASSUME Inv PROVE ServicePath
  OBVIOUS
<1>1. \A p \in Ports : net.link[p] # NoEnd =>
        Leads(PortOut(p).next, hook, Beyond(p)) /\ PortOut(p).port = net.fwd[p].port
  BY PortServed
<1>2. ASSUME NEW c \in TCubes, NEW direction \in {"in", "out"}, Serves(c, direction)
      PROVE  LET m == CubeOut(c, direction)
                 way == Behind(To(direction, c), Way(parent[c], direction))
             IN /\ Leads(m.next, hook, IF EndsElsewhere(c, direction)
                                       THEN Programs(way) \o <<Elsewhere(c)>> ELSE way)
                /\ net.link[parent[c]] # NoEnd => m.port = Carried(parent[c], direction)
  <2>1. parent[c] \in Ends
    BY <1>2, ServingCube
  <2>2. net.link[parent[c]] # NoEnd =>
          CubeOut(c, direction).port = Carried(parent[c], direction)
    BY <2>1, EndsAssumption DEF CubeOut, OutPort, Carried, Ends
  <2>3. CASE parent[c] \in Ports \/ direction = "in" \/ hook = "xdp"
    <3>1. ~ EndsElsewhere(c, direction)
      BY <2>3, EndsAssumption DEF EndsElsewhere
    <3>2. Leads(CubeOut(c, direction).next, hook,
                Behind(To(direction, c), Way(parent[c], direction)))
      BY <1>2, <2>3, CubeServed
    <3> QED BY <2>2, <3>1, <3>2
  <2>4. CASE ~(parent[c] \in Ports \/ direction = "in" \/ hook = "xdp")
    <3>1. direction = "out" /\ parent[c] \in Ifaces /\ hook = "tc"
      BY <2>1, <2>4, HooksAssumption DEF Inv, TypeOK, Ends
    <3>2. Serves(c, "out")
      BY <1>2, <3>1
    <3> QED BY <2>2, <3>1, <3>2, IfaceCubeServed
  <2> QED BY <2>3, <2>4
<1> QED BY <1>1, <1>2 DEF ServicePath, Serves

-----------------------------------------------------------------------------
(* The fields that the parts of a relinking change.                        *)

\* TransparentCube::set_next, INGRESS, of every cube.
LEMMA LinkInFields ==
  ASSUME NEW n \in Nets, NEW next \in [TCubes -> Targets], NEW m, m = LinkIn(n, next)
  PROVE  /\ m \in Nets /\ m.next_in = next
         /\ \A c \in TCubes : m.next_twin[c] = IF next[c] # n.next_in[c]
                                               THEN n.egress_next_tc[c] ELSE n.next_twin[c]
         /\ m.cubes = n.cubes /\ m.link = n.link /\ m.next_out = n.next_out
         /\ m.egress_next_tc = n.egress_next_tc /\ m.index = n.index /\ m.port_index = n.port_index
         /\ m.fwd = n.fwd /\ m.rx = n.rx /\ m.tx = n.tx
         /\ m.out_next = n.out_next /\ m.out_next_xdp = n.out_next_xdp
<1> DEFINE twin == [c \in TCubes |-> IF next[c] # n.next_in[c]
                                     THEN n.egress_next_tc[c] ELSE n.next_twin[c]]
<1>1. twin \in [TCubes -> Targets]
  BY NetFields
<1>2. m = [n EXCEPT !.next_in = next, !.next_twin = twin]
  BY DEF LinkIn
<1>3. \A c \in TCubes : twin[c] = IF next[c] # n.next_in[c]
                                  THEN n.egress_next_tc[c] ELSE n.next_twin[c]
  OBVIOUS
<1> HIDE DEF twin
<1>4. /\ m \in Nets /\ m.next_in = next /\ m.next_twin = twin
      /\ m.cubes = n.cubes /\ m.link = n.link /\ m.next_out = n.next_out
      /\ m.egress_next_tc = n.egress_next_tc /\ m.index = n.index /\ m.port_index = n.port_index
      /\ m.fwd = n.fwd /\ m.rx = n.rx /\ m.tx = n.tx
      /\ m.out_next = n.out_next /\ m.out_next_xdp = n.out_next_xdp
  BY <1>1, <1>2 DEF Nets
<1> QED BY <1>3, <1>4

\* TransparentCube::set_next, EGRESS, of every cube.
LEMMA LinkOutFields ==
  ASSUME NEW n \in Nets, NEW next \in [TCubes -> Targets], NEW twin \in [TCubes -> Targets],
         NEW last, NEW m, m = LinkOut(n, next, twin, last)
  PROVE  /\ m \in Nets /\ m.next_out = next /\ m.egress_next_tc = twin
         /\ \A c \in TCubes : m.next_twin[c] = IF next[c] # n.next_out[c] \/ c \in last
                                               THEN twin[c] ELSE n.next_twin[c]
         /\ m.cubes = n.cubes /\ m.link = n.link /\ m.next_in = n.next_in
         /\ m.index = n.index /\ m.port_index = n.port_index /\ m.fwd = n.fwd
         /\ m.rx = n.rx /\ m.tx = n.tx /\ m.out_next = n.out_next
         /\ m.out_next_xdp = n.out_next_xdp
<1> DEFINE compiled == [c \in TCubes |-> IF next[c] # n.next_out[c] \/ c \in last
                                         THEN twin[c] ELSE n.next_twin[c]]
<1>1. compiled \in [TCubes -> Targets]
  BY NetFields
<1>2. m = [n EXCEPT !.next_out = next, !.egress_next_tc = twin, !.next_twin = compiled]
  BY DEF LinkOut
<1>3. \A c \in TCubes : compiled[c] = IF next[c] # n.next_out[c] \/ c \in last
                                      THEN twin[c] ELSE n.next_twin[c]
  OBVIOUS
<1> HIDE DEF compiled
<1>4. /\ m \in Nets /\ m.next_out = next /\ m.egress_next_tc = twin /\ m.next_twin = compiled
      /\ m.cubes = n.cubes /\ m.link = n.link /\ m.next_in = n.next_in
      /\ m.index = n.index /\ m.port_index = n.port_index /\ m.fwd = n.fwd
      /\ m.rx = n.rx /\ m.tx = n.tx /\ m.out_next = n.out_next
      /\ m.out_next_xdp = n.out_next_xdp
  BY <1>1, <1>2 DEF Nets
<1> QED BY <1>3, <1>4

\* The forward table of the cube of a port.
LEMMA ForwardingFields ==
  ASSUME NEW n \in Nets, NEW p \in Ports, NEW target \in Targets,
         NEW m, m = SetForwarding(n, p, target)
  PROVE  /\ m \in Nets
         /\ m.fwd[p] = [next |-> target, port |-> IF n.link[p] \in Ports THEN n.link[p] ELSE p]
         /\ \A r \in Ports \ {p} : m.fwd[r] = n.fwd[r]
         /\ m.cubes = n.cubes /\ m.link = n.link /\ m.next_in = n.next_in
         /\ m.next_out = n.next_out /\ m.egress_next_tc = n.egress_next_tc /\ m.next_twin = n.next_twin
         /\ m.index = n.index /\ m.port_index = n.port_index /\ m.rx = n.rx
         /\ m.tx = n.tx /\ m.out_next = n.out_next /\ m.out_next_xdp = n.out_next_xdp
<1> DEFINE x == [next |-> target, port |-> IF n.link[p] \in Ports THEN n.link[p] ELSE p]
<1>1. x \in Entries
  BY DEF Entries, Ends
<1> DEFINE f == [n.fwd EXCEPT ![p] = x]
<1>2. m = [n EXCEPT !.fwd = f]
  BY DEF SetForwarding
<1> HIDE DEF x
<1>4. n.fwd \in [Ports -> Entries] /\ f \in [Ports -> Entries]
  BY <1>1 DEF Nets
<1> HIDE DEF f
<1>3. /\ m \in Nets /\ m.fwd = f
      /\ m.cubes = n.cubes /\ m.link = n.link /\ m.next_in = n.next_in
      /\ m.next_out = n.next_out /\ m.egress_next_tc = n.egress_next_tc /\ m.next_twin = n.next_twin
      /\ m.index = n.index /\ m.port_index = n.port_index /\ m.rx = n.rx
      /\ m.tx = n.tx /\ m.out_next = n.out_next /\ m.out_next_xdp = n.out_next_xdp
  BY <1>2, <1>4 DEF Nets
<1>5. m.fwd[p] = x /\ \A r \in Ports \ {p} : m.fwd[r] = n.fwd[r]
  BY <1>3, <1>4 DEF f
<1> QED BY <1>3, <1>5 DEF x

\* The receive and the transmit program of an interface.
LEMMA DeviceFields ==
  ASSUME NEW n \in Nets, NEW i \in Ifaces, NEW target \in Targets
  PROVE  LET m == SetRx(n, i, target)
             o == SetTx(n, i, target)
         IN /\ m \in Nets /\ o \in Nets
            /\ m.rx[i] = [next |-> target, port |-> n.link[i]]
            /\ \A j \in Ifaces \ {i} : m.rx[j] = n.rx[j]
            /\ m.cubes = n.cubes /\ m.link = n.link /\ m.next_in = n.next_in
            /\ m.next_out = n.next_out /\ m.egress_next_tc = n.egress_next_tc /\ m.next_twin = n.next_twin
            /\ m.index = n.index /\ m.port_index = n.port_index /\ m.fwd = n.fwd
            /\ m.tx = n.tx /\ m.out_next = n.out_next /\ m.out_next_xdp = n.out_next_xdp
            /\ o.tx[i] = [next |-> target, port |-> n.link[i]]
            /\ \A j \in Ifaces \ {i} : o.tx[j] = n.tx[j]
            /\ o.cubes = n.cubes /\ o.link = n.link /\ o.next_in = n.next_in
            /\ o.next_out = n.next_out /\ o.egress_next_tc = n.egress_next_tc /\ o.next_twin = n.next_twin
            /\ o.index = n.index /\ o.port_index = n.port_index /\ o.fwd = n.fwd
            /\ o.rx = n.rx /\ o.out_next = n.out_next /\ o.out_next_xdp = n.out_next_xdp
<1> DEFINE x == [next |-> target, port |-> n.link[i]]
           m == [n EXCEPT !.rx[i] = x]
           o == [n EXCEPT !.tx[i] = x]
<1>1. x \in Entries
  BY NetFields DEF Entries, Ends
<1>2. m = SetRx(n, i, target) /\ o = SetTx(n, i, target)
  BY DEF SetRx, SetTx
<1> HIDE DEF x
<1>3. /\ m \in Nets /\ m.rx = [n.rx EXCEPT ![i] = x]
      /\ m.cubes = n.cubes /\ m.link = n.link /\ m.next_in = n.next_in
      /\ m.next_out = n.next_out /\ m.egress_next_tc = n.egress_next_tc /\ m.next_twin = n.next_twin
      /\ m.index = n.index /\ m.port_index = n.port_index /\ m.fwd = n.fwd
      /\ m.tx = n.tx /\ m.out_next = n.out_next /\ m.out_next_xdp = n.out_next_xdp
  BY <1>1 DEF Nets
<1>4. /\ o \in Nets /\ o.tx = [n.tx EXCEPT ![i] = x]
      /\ o.cubes = n.cubes /\ o.link = n.link /\ o.next_in = n.next_in
      /\ o.next_out = n.next_out /\ o.egress_next_tc = n.egress_next_tc /\ o.next_twin = n.next_twin
      /\ o.index = n.index /\ o.port_index = n.port_index /\ o.fwd = n.fwd
      /\ o.rx = n.rx /\ o.out_next = n.out_next /\ o.out_next_xdp = n.out_next_xdp
  BY <1>1 DEF Nets
<1> HIDE DEF m, o
<1>5. n.rx \in [Ifaces -> Entries] /\ n.tx \in [Ifaces -> Entries]
  BY DEF Nets
<1>6. /\ m.rx[i] = x /\ \A j \in Ifaces \ {i} : m.rx[j] = n.rx[j]
      /\ o.tx[i] = x /\ \A j \in Ifaces \ {i} : o.tx[j] = n.tx[j]
  BY <1>3, <1>4, <1>5
<1> QED BY <1>2, <1>3, <1>4, <1>6 DEF x

-----------------------------------------------------------------------------
(* What linking a list makes of it.                                        *)

\* The entries of a list are targets.
LEMMA EntryTargets ==
  ASSUME NEW s \in Seq(TCubes), NEW S, NEW kind \in {"in", "out"}, NEW target \in Targets,
         NEW I \in SUBSET Places(s, S)
  PROVE  AtHighest(s, I, kind, target) \in Targets /\ AtLowest(s, I, kind, target) \in Targets
<1>1. I \in SUBSET (1 .. Len(s)) /\ Len(s) \in Nat /\ I \in SUBSET Nat
  BY LenProperties DEF Places
<1>2. \A i \in I : To(kind, s[i]) \in Targets
  BY ProgramLists
<1>3. I # {} => Highest(I) \in I /\ Lowest(I) \in I
  BY <1>1, HighestPlace, LowestPlace
<1> QED BY <1>2, <1>3 DEF AtHighest, AtLowest

\* The place of a cube.
LEMMA PlaceChosen ==
  ASSUME NEW s \in Seq(TCubes), Once(s),
         NEW S, NEW i \in Places(s, S)
  PROVE  (CHOOSE k \in Places(s, S) : s[k] = s[i]) = i
<1> DEFINE k0 == CHOOSE k \in Places(s, S) : s[k] = s[i]
<1>1. k0 \in Places(s, S) /\ s[k0] = s[i]
  OBVIOUS
<1> HIDE DEF k0
<1>2. k0 \in DOMAIN s /\ i \in DOMAIN s
  BY <1>1 DEF Places
<1>3. k0 = i
  BY <1>1, <1>2 DEF Once
<1> QED BY <1>3 DEF k0

\* A cube of S that is in the list.
Placed(s, S, c) == \E i \in Places(s, S) : s[i] = c

\* Pointers g are f but for the cubes of S in the list.
Kept(g, f, s, S) == \A c \in TCubes : ~ Placed(s, S, c) => g[c] = f[c]

\* Linking up chains the list upward and leaves other cubes alone.
LEMMA LinkUpChains ==
  ASSUME NEW s \in Seq(TCubes), Once(s),
         NEW f \in [TCubes -> Targets], NEW S, NEW kind \in {"in", "out"},
         NEW target \in Targets, NEW g, g = LinkUp(f, s, S, kind, target)
  PROVE  /\ g \in [TCubes -> Targets]
         /\ Upward(g, s, S, kind, target)
         /\ Kept(g, f, s, S)
<1> DEFINE at(c) == CHOOSE k \in Places(s, S) : s[k] = c
           next(i) == AtHighest(s, {j \in Places(s, S) : j < i}, kind, target)
<1>1. \A c \in TCubes : g[c] = IF \E i \in Places(s, S) : s[i] = c THEN next(at(c)) ELSE f[c]
  BY DEF LinkUp
<1>2. \A i \in Places(s, S) : next(i) \in Targets /\ s[i] \in TCubes
  BY EntryTargets, ProgramLists
<1>3. \A i \in Places(s, S) : at(s[i]) = i
  BY PlaceChosen
<1>4. \A c \in TCubes : (\E i \in Places(s, S) : s[i] = c) => at(c) \in Places(s, S)
  BY <1>3
<1>5. g = [c \in TCubes |-> g[c]]
  BY DEF LinkUp
<1> HIDE DEF at, next
<1>6. \A c \in TCubes : g[c] \in Targets
  BY <1>1, <1>2, <1>4
<1>7. \A i \in Places(s, S) : g[s[i]] = next(i)
  BY <1>1, <1>2, <1>3
<1> QED BY <1>1, <1>5, <1>6, <1>7 DEF Upward, next, Placed, Kept

\* Linking down chains the list downward and leaves other cubes alone.
LEMMA LinkDownChains ==
  ASSUME NEW s \in Seq(TCubes), Once(s),
         NEW f \in [TCubes -> Targets], NEW S, NEW kind \in {"in", "out"},
         NEW target \in Targets, NEW g, g = LinkDown(f, s, S, kind, target)
  PROVE  /\ g \in [TCubes -> Targets]
         /\ Downward(g, s, S, kind, target)
         /\ Kept(g, f, s, S)
<1> DEFINE at(c) == CHOOSE k \in Places(s, S) : s[k] = c
           next(i) == AtLowest(s, {j \in Places(s, S) : j > i}, kind, target)
<1>1. \A c \in TCubes : g[c] = IF \E i \in Places(s, S) : s[i] = c THEN next(at(c)) ELSE f[c]
  BY DEF LinkDown
<1>2. \A i \in Places(s, S) : next(i) \in Targets /\ s[i] \in TCubes
  BY EntryTargets, ProgramLists
<1>3. \A i \in Places(s, S) : at(s[i]) = i
  BY PlaceChosen
<1>4. \A c \in TCubes : (\E i \in Places(s, S) : s[i] = c) => at(c) \in Places(s, S)
  BY <1>3
<1>5. g = [c \in TCubes |-> g[c]]
  BY DEF LinkDown
<1> HIDE DEF at, next
<1>6. \A c \in TCubes : g[c] \in Targets
  BY <1>1, <1>2, <1>4
<1>7. \A i \in Places(s, S) : g[s[i]] = next(i)
  BY <1>1, <1>2, <1>3
<1> QED BY <1>1, <1>5, <1>6, <1>7 DEF Downward, next, Placed, Kept

\* Cubes that are not in a list are at no place of it.
LEMMA NotPlaced ==
  ASSUME NEW s, NEW S, NEW c, c \notin Of(s)
  PROVE  ~ Placed(s, S, c)
BY DEF Of, Places, Placed

-----------------------------------------------------------------------------
(* What a change elsewhere leaves alone.                                   *)

\* A chain is that of the pointers of its cubes.
LEMMA SameChain ==
  ASSUME NEW s, NEW S, NEW kind, NEW t, NEW f, NEW g,
         \A i \in Places(s, S) : g[s[i]] = f[s[i]]
  PROVE  /\ Upward(f, s, S, kind, t) => Upward(g, s, S, kind, t)
         /\ Downward(f, s, S, kind, t) => Downward(g, s, S, kind, t)
BY DEF Upward, Downward

\* Networks n and m are the same at end e.
Same(n, m, e) ==
  /\ m.cubes[e] = n.cubes[e] /\ m.link[e] = n.link[e]
  /\ \A c \in Of(n.cubes[e]) :
       /\ m.next_in[c] = n.next_in[c] /\ m.next_out[c] = n.next_out[c]
       /\ m.egress_next_tc[c] = n.egress_next_tc[c] /\ m.next_twin[c] = n.next_twin[c]
  /\ e \in Ports => m.port_index[e] = n.port_index[e] /\ m.fwd[e] = n.fwd[e]
  /\ e \in Ifaces =>
       /\ m.rx[e] = n.rx[e] /\ m.tx[e] = n.tx[e] /\ m.index[e] = n.index[e]
       /\ n.link[e] \in Ports => /\ m.out_next[n.link[e]] = n.out_next[n.link[e]]
                                 /\ m.out_next_xdp[n.link[e]] = n.out_next_xdp[n.link[e]]

\* The chains of an end that is the same are as they were.
LEMMA SameEnd ==
  ASSUME NEW n, NEW m, NEW e \in Ends, Same(n, m, e)
  PROVE  /\ e \in Ports => /\ PortEntered(n, e) => PortEntered(m, e)
                           /\ \A t : PortLeft(n, e, t) => PortLeft(m, e, t)
         /\ e \in Ifaces => /\ \A t : IfaceEntered(n, e, t) => IfaceEntered(m, e, t)
                            /\ \A h : IfaceLeft(h, n, e) => IfaceLeft(h, m, e)
<1>1. \A S : \A i \in Places(n.cubes[e], S) : n.cubes[e][i] \in Of(n.cubes[e])
  BY DEF Places, Of
<1>2. ASSUME NEW S, NEW kind, NEW t
      PROVE  /\ Upward(n.next_in, n.cubes[e], S, kind, t) => Upward(m.next_in, m.cubes[e], S, kind, t)
             /\ Upward(n.next_out, n.cubes[e], S, kind, t) => Upward(m.next_out, m.cubes[e], S, kind, t)
             /\ Upward(n.egress_next_tc, n.cubes[e], S, kind, t)
                  => Upward(m.egress_next_tc, m.cubes[e], S, kind, t)
             /\ Upward(n.next_twin, n.cubes[e], S, kind, t) => Upward(m.next_twin, m.cubes[e], S, kind, t)
             /\ Downward(n.next_in, n.cubes[e], S, kind, t) => Downward(m.next_in, m.cubes[e], S, kind, t)
             /\ Downward(n.next_out, n.cubes[e], S, kind, t) => Downward(m.next_out, m.cubes[e], S, kind, t)
  <2>1. ASSUME NEW f, NEW g, \A c \in Of(n.cubes[e]) : g[c] = f[c]
        PROVE  /\ Upward(f, n.cubes[e], S, kind, t) => Upward(g, n.cubes[e], S, kind, t)
               /\ Downward(f, n.cubes[e], S, kind, t) => Downward(g, n.cubes[e], S, kind, t)
    BY <1>1, <2>1, SameChain
  <2>2. /\ m.cubes[e] = n.cubes[e]
        /\ \A c \in Of(n.cubes[e]) : m.next_in[c] = n.next_in[c]
        /\ \A c \in Of(n.cubes[e]) : m.next_out[c] = n.next_out[c]
        /\ \A c \in Of(n.cubes[e]) : m.egress_next_tc[c] = n.egress_next_tc[c]
        /\ \A c \in Of(n.cubes[e]) : m.next_twin[c] = n.next_twin[c]
    BY DEF Same
  <2> QED BY <2>1, <2>2
<1>3. ASSUME e \in Ports
      PROVE  /\ PortEntered(n, e) => PortEntered(m, e)
             /\ \A t : PortLeft(n, e, t) => PortLeft(m, e, t)
  BY <1>2, <1>3 DEF PortEntered, PortLeft, Same
<1>4. ASSUME e \in Ifaces, NEW t PROVE IfaceEntered(n, e, t) => IfaceEntered(m, e, t)
  BY <1>2, <1>4 DEF IfaceEntered, Same
<1>5. ASSUME e \in Ifaces, NEW h, IfaceLeft(h, n, e) PROVE IfaceLeft(h, m, e)
  <2>1. OutEntry(m, e) = OutEntry(n, e)
    BY DEF Same, OutEntry
  <2>2. n.link[e] \in ParentEgress => n.link[e] \in Ports
    BY ProgramsAssumption
  <2>3. /\ m.cubes[e] = n.cubes[e] /\ m.link[e] = n.link[e]
        /\ m.tx[e] = n.tx[e] /\ m.index[e] = n.index[e]
        /\ n.link[e] \in ParentEgress => /\ m.out_next[n.link[e]] = n.out_next[n.link[e]]
                                         /\ m.out_next_xdp[n.link[e]] = n.out_next_xdp[n.link[e]]
    BY <1>5, <2>2 DEF Same
  <2> QED BY <1>2, <1>5, <2>1, <2>3 DEF IfaceLeft
<1> QED BY <1>3, <1>4, <1>5

\* Twins stay as their programs in LinkIn.
LEMMA LinkInTwins ==
  ASSUME NEW n \in Nets, Common(hook, n), NEW next \in [TCubes -> Targets]
  PROVE  Common(hook, LinkIn(n, next))
<1> DEFINE m == LinkIn(n, next)
<1>1. /\ m.next_out = n.next_out /\ m.egress_next_tc = n.egress_next_tc /\ m.index = n.index
      /\ \A c \in TCubes : m.next_twin[c] = n.egress_next_tc[c] \/ m.next_twin[c] = n.next_twin[c]
  BY LinkInFields
<1> HIDE DEF m
<1>2. Common(hook, m)
  BY <1>1 DEF Common, Twins
<1> QED BY <1>2 DEF m

\* And in LinkOut, when a cube that is followed by a cube is given it on both
\* hooks or is left alone.
LEMMA LinkOutTwins ==
  ASSUME NEW n \in Nets, Common(hook, n),
         NEW next \in [TCubes -> Targets], NEW twin \in [TCubes -> Targets], NEW last,
         \A c \in TCubes : \/ next[c] = n.next_out[c] /\ twin[c] = n.egress_next_tc[c]
                           \/ next[c].kind = "out" => twin[c] = next[c]
  PROVE  Common(hook, LinkOut(n, next, twin, last))
<1> DEFINE m == LinkOut(n, next, twin, last)
<1>1. /\ m.next_out = next /\ m.egress_next_tc = twin /\ m.index = n.index
      /\ \A c \in TCubes : m.next_twin[c] = IF next[c] # n.next_out[c] \/ c \in last
                                            THEN twin[c] ELSE n.next_twin[c]
  BY LinkOutFields
<1> HIDE DEF m
<1>2. ASSUME NEW c \in TCubes, m.next_out[c].kind = "out"
      PROVE  m.egress_next_tc[c] = m.next_out[c] /\ m.next_twin[c] = m.next_out[c]
  <2>1. n.next_out[c] = next[c] => n.egress_next_tc[c] = next[c] /\ n.next_twin[c] = next[c]
    BY <1>1, <1>2 DEF Common, Twins
  <2>2. twin[c] = next[c]
    BY <1>1, <1>2, <2>1
  <2> QED BY <1>1, <2>1, <2>2
<1>3. Common(hook, m)
  BY <1>1, <1>2 DEF Common, Twins
<1> QED BY <1>3 DEF m

-----------------------------------------------------------------------------
(* set_next_index.                                                         *)

\* TransparentCube::set_next of one cube.
LEMMA SetNextEffect ==
  ASSUME NEW n \in Nets, Common(hook, n), NEW c \in TCubes, NEW kind \in {"in", "out"},
         NEW target \in Targets, NEW m, m = SetNext(n, c, kind, target)
  PROVE  /\ m \in Nets /\ Common(hook, m)
         /\ m.cubes = n.cubes /\ m.link = n.link /\ m.index = n.index
         /\ m.port_index = n.port_index /\ m.fwd = n.fwd /\ m.rx = n.rx
         /\ m.tx = n.tx /\ m.out_next = n.out_next /\ m.out_next_xdp = n.out_next_xdp
         /\ \A d \in TCubes \ {c} :
              /\ m.next_in[d] = n.next_in[d] /\ m.next_out[d] = n.next_out[d]
              /\ m.egress_next_tc[d] = n.egress_next_tc[d] /\ m.next_twin[d] = n.next_twin[d]
         /\ kind = "in" => /\ m.next_in[c] = target
                           /\ m.next_out = n.next_out /\ m.egress_next_tc = n.egress_next_tc
                           /\ m.next_twin[c] \in {n.egress_next_tc[c], n.next_twin[c]}
         /\ kind = "out" => m.next_out[c] = target /\ m.next_in = n.next_in
<1>0. /\ n.next_in \in [TCubes -> Targets] /\ n.next_out \in [TCubes -> Targets]
      /\ n.egress_next_tc \in [TCubes -> Targets]
  BY DEF Nets
<1>1. CASE kind = "in"
  <2> DEFINE next == [n.next_in EXCEPT ![c] = target]
  <2>1. /\ next \in [TCubes -> Targets] /\ next[c] = target
        /\ \A d \in TCubes \ {c} : next[d] = n.next_in[d]
    BY <1>0
  <2>2. m = LinkIn(n, next)
    BY <1>1 DEF SetNext
  <2> HIDE DEF next
  <2>3. Common(hook, m)
    BY <2>1, <2>2, LinkInTwins
  <2>4. /\ m \in Nets /\ m.next_in = next
        /\ \A d \in TCubes : m.next_twin[d] = IF next[d] # n.next_in[d]
                                              THEN n.egress_next_tc[d] ELSE n.next_twin[d]
        /\ m.cubes = n.cubes /\ m.link = n.link /\ m.next_out = n.next_out
        /\ m.egress_next_tc = n.egress_next_tc /\ m.index = n.index /\ m.port_index = n.port_index
        /\ m.fwd = n.fwd /\ m.rx = n.rx /\ m.tx = n.tx
        /\ m.out_next = n.out_next /\ m.out_next_xdp = n.out_next_xdp
    BY <2>1, <2>2, LinkInFields
  <2>5. \A d \in TCubes \ {c} : m.next_in[d] = n.next_in[d] /\ m.next_twin[d] = n.next_twin[d]
    BY <2>1, <2>4
  <2>6. m.next_in[c] = target /\ m.next_twin[c] \in {n.egress_next_tc[c], n.next_twin[c]}
    BY <2>1, <2>4
  <2> QED BY <1>1, <2>3, <2>4, <2>5, <2>6
<1>2. CASE kind = "out"
  <2> DEFINE next == [n.next_out EXCEPT ![c] = target]
             twin == [n.egress_next_tc EXCEPT ![c] = target]
  <2>1. /\ next \in [TCubes -> Targets] /\ next[c] = target
        /\ \A d \in TCubes \ {c} : next[d] = n.next_out[d]
        /\ twin \in [TCubes -> Targets] /\ twin[c] = target
        /\ \A d \in TCubes \ {c} : twin[d] = n.egress_next_tc[d]
    BY <1>0
  <2>2. m = LinkOut(n, next, twin, {})
    BY <1>2 DEF SetNext
  <2> HIDE DEF next, twin
  <2>3. Common(hook, m)
    <3>1. \A d \in TCubes : \/ next[d] = n.next_out[d] /\ twin[d] = n.egress_next_tc[d]
                            \/ next[d].kind = "out" => twin[d] = next[d]
      BY <2>1
    <3> QED BY <2>1, <2>2, <3>1, LinkOutTwins
  <2>4. /\ m \in Nets /\ m.next_out = next /\ m.egress_next_tc = twin
        /\ \A d \in TCubes : m.next_twin[d] = IF next[d] # n.next_out[d] \/ d \in {}
                                              THEN twin[d] ELSE n.next_twin[d]
        /\ m.cubes = n.cubes /\ m.link = n.link /\ m.next_in = n.next_in
        /\ m.index = n.index /\ m.port_index = n.port_index /\ m.fwd = n.fwd
        /\ m.rx = n.rx /\ m.tx = n.tx /\ m.out_next = n.out_next
        /\ m.out_next_xdp = n.out_next_xdp
    BY <2>1, <2>2, LinkOutFields
  <2>5. \A d \in TCubes \ {c} : /\ m.next_out[d] = n.next_out[d]
                                /\ m.egress_next_tc[d] = n.egress_next_tc[d]
                                /\ m.next_twin[d] = n.next_twin[d]
    BY <2>1, <2>4
  <2>6. m.next_out[c] = target
    BY <2>1, <2>4
  <2> QED BY <1>2, <2>3, <2>4, <2>5, <2>6
<1> QED BY <1>1, <1>2

\* Changing the pointers of cubes of e leaves the other ends the same.
LEMMA SameOthers ==
  ASSUME NEW n \in Nets, Disjoint(n), NEW m, NEW e \in Ends, NEW f \in Ends \ {e},
         m.cubes = n.cubes, m.link = n.link,
         \A d \in TCubes : d \notin Of(n.cubes[e]) =>
           /\ m.next_in[d] = n.next_in[d] /\ m.next_out[d] = n.next_out[d]
           /\ m.egress_next_tc[d] = n.egress_next_tc[d] /\ m.next_twin[d] = n.next_twin[d],
         f \in Ports => m.port_index[f] = n.port_index[f] /\ m.fwd[f] = n.fwd[f],
         f \in Ifaces => /\ m.rx[f] = n.rx[f] /\ m.tx[f] = n.tx[f] /\ m.index[f] = n.index[f]
                         /\ n.link[f] \in Ports =>
                              /\ m.out_next[n.link[f]] = n.out_next[n.link[f]]
                              /\ m.out_next_xdp[n.link[f]] = n.out_next_xdp[n.link[f]]
  PROVE  Same(n, m, f)
<1>1. Of(n.cubes[f]) \subseteq TCubes
  <2>1. n.cubes[f] \in Seq(TCubes)
    BY NetFields
  <2> QED BY <2>1, ElementOfSeq, LenProperties DEF Of
<1>2. Of(n.cubes[f]) \cap Of(n.cubes[e]) = {}
  BY DEF Disjoint
<1> QED BY <1>1, <1>2 DEF Same

\* Port::set_next_index gives the chain out of the port another target.
LEMMA PortIndexEffect ==
  ASSUME NEW n \in Nets, Disjoint(n), Common(hook, n), NEW p \in Ports, NEW index \in Targets,
         NEW m, m = PortSetNextIndex(n, p, index)
  PROVE  /\ m \in Nets /\ Common(hook, m)
         /\ m.cubes = n.cubes /\ m.link = n.link /\ m.index = n.index
         /\ m.port_index = n.port_index
         /\ PortEntered(n, p) => PortEntered(m, p)
         /\ \A t : PortLeft(n, p, t) => PortLeft(m, p, Resolve(index, n.link[p]))
         /\ \A e \in Ends \ {p} : Same(n, m, e)
<1> DEFINE s == n.cubes[p]
           I == Places(s, WithEgress)
           target == Resolve(index, n.link[p])
<1>1. s \in Seq(TCubes) /\ p \in Ends /\ p \notin Ifaces /\ \A i, j \in DOMAIN s : s[i] = s[j] => i = j
  BY NetFields, EndsAssumption DEF Ends, Disjoint, Once
<1>2. target \in Targets
  <2>1. n.link[p] \in Ends \cup {NoEnd}
    BY <1>1, NetFields
  <2> QED BY <2>1 DEF Resolve, To, Targets, Kinds
<1>3. /\ I \in SUBSET (1 .. Len(s)) /\ Len(s) \in Nat
      /\ \A i \in I : s[i] \in TCubes /\ i \in DOMAIN s
      /\ \A i \in DOMAIN s : s[i] \in TCubes
  <2>1. DOMAIN s = 1 .. Len(s)
    BY <1>1, LenProperties
  <2>2. \A i \in DOMAIN s : s[i] \in TCubes
    BY <1>1, <2>1, ElementOfSeq
  <2> QED BY <1>1, <2>1, <2>2, ProgramLists DEF Places
<1>4. CASE I = {}
  <2>1. m = SetForwarding(n, p, target)
    BY <1>4 DEF PortSetNextIndex
  <2> HIDE DEF target, I
  <2>2. /\ m \in Nets
        /\ m.fwd[p] = [next |-> target, port |-> IF n.link[p] \in Ports THEN n.link[p] ELSE p]
        /\ \A r \in Ports \ {p} : m.fwd[r] = n.fwd[r]
        /\ m.cubes = n.cubes /\ m.link = n.link /\ m.next_in = n.next_in
        /\ m.next_out = n.next_out /\ m.egress_next_tc = n.egress_next_tc /\ m.next_twin = n.next_twin
        /\ m.index = n.index /\ m.port_index = n.port_index /\ m.rx = n.rx
        /\ m.tx = n.tx /\ m.out_next = n.out_next /\ m.out_next_xdp = n.out_next_xdp
    BY <1>2, <2>1, ForwardingFields
  <2>3. Common(hook, m)
    BY <2>2 DEF Common, Twins
  <2>4. PortEntered(n, p) => PortEntered(m, p)
    BY <2>2 DEF PortEntered
  <2>5. PortLeft(m, p, target)
    BY <1>4, <2>2 DEF PortLeft, Downward, BottomEntry, AtLowest, I, s
  <2>6. ASSUME NEW e \in Ends \ {p} PROVE Same(n, m, e)
    BY <2>2 DEF Same
  <2> QED BY <2>2, <2>3, <2>4, <2>5, <2>6 DEF target
<1>5. CASE I # {}
  <2> DEFINE top == Highest(I)
             c == s[top]
  <2>1. m = SetNext(n, c, "out", target)
    BY <1>5 DEF PortSetNextIndex
  <2>2. top \in I /\ \A j \in I : j <= top
    <3> HIDE DEF I
    <3> QED BY <1>3, <1>5, HighestPlace
  <2>3. c \in TCubes /\ c \in Of(s) /\ top \in DOMAIN s
    BY <1>3, <2>2 DEF Of
  <2> HIDE DEF target, I, top, c
  <2>4. /\ m \in Nets /\ Common(hook, m)
        /\ m.cubes = n.cubes /\ m.link = n.link /\ m.index = n.index
        /\ m.port_index = n.port_index /\ m.fwd = n.fwd /\ m.rx = n.rx
        /\ m.tx = n.tx /\ m.out_next = n.out_next /\ m.out_next_xdp = n.out_next_xdp
        /\ \A d \in TCubes \ {c} :
             /\ m.next_in[d] = n.next_in[d] /\ m.next_out[d] = n.next_out[d]
             /\ m.egress_next_tc[d] = n.egress_next_tc[d] /\ m.next_twin[d] = n.next_twin[d]
        /\ m.next_out[c] = target /\ m.next_in = n.next_in
    <3>1. PICK kind : kind = "out"
      OBVIOUS
    <3>2. kind \in {"in", "out"} /\ m = SetNext(n, c, kind, target) /\ kind # "in"
      BY <2>1, <3>1
    <3> QED BY <1>2, <2>3, <3>1, <3>2, SetNextEffect
  <2>5. PortEntered(n, p) => PortEntered(m, p)
    BY <2>4 DEF PortEntered
  <2>6. ASSUME NEW t, PortLeft(n, p, t) PROVE PortLeft(m, p, target)
    <3>1. Downward(n.next_out, s, WithEgress, "out", t)
      BY <2>6 DEF PortLeft
    <3>2. ASSUME NEW i \in I
          PROVE  m.next_out[s[i]] = AtLowest(s, {j \in I : j > i}, "out", target)
      <4>1. CASE i = top
        <5>1. \A j \in I : ~(j > i)
          BY <1>3, <2>2, <4>1
        <5>2. {j \in I : j > i} = {}
          BY <5>1
        <5>3. s[i] = c
          BY <4>1 DEF c
        <5> QED BY <2>4, <5>2, <5>3 DEF AtLowest
      <4>2. CASE i # top
        <5>1. s[i] # c /\ s[i] \in TCubes
          BY <1>1, <1>3, <2>3, <4>2 DEF c
        <5>2. top > i
          BY <1>3, <2>2, <4>2
        <5>3. {j \in I : j > i} # {}
          BY <2>2, <5>2
        <5>4. n.next_out[s[i]] = AtLowest(s, {j \in I : j > i}, "out", t)
          BY <3>1 DEF Downward, I
        <5> QED BY <2>4, <5>1, <5>3, <5>4 DEF AtLowest
      <4> QED BY <4>1, <4>2
    <3>3. Downward(m.next_out, s, WithEgress, "out", target)
      BY <3>2 DEF Downward, I
    <3>4. BottomEntry(s, WithEgress, "out", t) = BottomEntry(s, WithEgress, "out", target)
      BY <1>5 DEF BottomEntry, AtLowest, I
    <3>5. n.fwd[p] = [next |-> BottomEntry(s, WithEgress, "out", t),
                      port |-> IF n.link[p] \in Ports THEN n.link[p] ELSE p]
      BY <2>6 DEF PortLeft
    <3> QED BY <2>4, <3>3, <3>4, <3>5 DEF PortLeft, s
  <2>7. ASSUME NEW e \in Ends \ {p} PROVE Same(n, m, e)
    <3>1. \A d \in TCubes : d \notin Of(n.cubes[p]) => d # c
      BY <2>3 DEF s
    <3> HIDE DEF s
    <3> QED BY <1>1, <2>4, <3>1, SameOthers
  <2> QED BY <2>4, <2>5, <2>6, <2>7 DEF target
<1> QED BY <1>4, <1>5

\* ExtIface::set_next_index gives the chain into the interface another target
\* and keeps the chain out of it.
LEMMA IfaceIndexEffect ==
  ASSUME NEW n \in Nets, Disjoint(n), Common(hook, n), NEW i \in Ifaces, NEW target \in Targets,
         ~ LeavesVector(n, i),
         NEW m, m = IfaceSetNextIndex(n, i, target)
  PROVE  /\ m \in Nets /\ Common(hook, m)
         /\ m.cubes = n.cubes /\ m.link = n.link /\ m.index = n.index
         /\ m.port_index = n.port_index
         /\ \A t : IfaceEntered(n, i, t) => IfaceEntered(m, i, target)
         /\ IfaceLeft(hook, n, i) => IfaceLeft(hook, m, i)
         /\ \A e \in Ends \ {i} : Same(n, m, e)
<1> DEFINE s == n.cubes[i]
           I == Places(s, WithIngress)
           top == Len(s)
           c == s[top]
<1>1. s \in Seq(TCubes) /\ i \in Ends /\ i \notin Ports /\ \A k, j \in DOMAIN s : s[k] = s[j] => k = j
  BY NetFields, EndsAssumption DEF Ends, Disjoint, Once
<1>2. /\ DOMAIN s = 1 .. Len(s) /\ Len(s) \in Nat /\ I \in SUBSET (1 .. Len(s))
      /\ \A k \in DOMAIN s : s[k] \in TCubes
  <2>1. DOMAIN s = 1 .. Len(s) /\ Len(s) \in Nat
    BY <1>1, LenProperties
  <2>2. \A k \in DOMAIN s : s[k] \in TCubes
    BY <1>1, <2>1, ElementOfSeq
  <2> QED BY <1>1, <2>1, <2>2, ProgramLists
<1>3. CASE s = <<>>
  <2>1. m = SetRx(n, i, target)
    BY <1>3 DEF IfaceSetNextIndex
  <2>2. /\ m \in Nets
        /\ m.rx[i] = [next |-> target, port |-> n.link[i]]
        /\ \A j \in Ifaces \ {i} : m.rx[j] = n.rx[j]
        /\ m.cubes = n.cubes /\ m.link = n.link /\ m.next_in = n.next_in
        /\ m.next_out = n.next_out /\ m.egress_next_tc = n.egress_next_tc /\ m.next_twin = n.next_twin
        /\ m.index = n.index /\ m.port_index = n.port_index /\ m.fwd = n.fwd
        /\ m.tx = n.tx /\ m.out_next = n.out_next /\ m.out_next_xdp = n.out_next_xdp
    BY <2>1, DeviceFields
  <2>3. Common(hook, m)
    BY <2>2 DEF Common, Twins
  <2>4. IfaceLeft(hook, n, i) => IfaceLeft(hook, m, i)
    BY <2>2 DEF IfaceLeft, OutEntry
  <2>5. IfaceEntered(m, i, target)
    <3>1. I = {}
      BY <1>2, <1>3, EmptySeq DEF Places
    <3> QED BY <2>2, <3>1 DEF IfaceEntered, Downward, BottomEntry, AtLowest
  <2>6. ASSUME NEW e \in Ends \ {i} PROVE Same(n, m, e)
    BY <2>2 DEF Same
  <2> QED BY <2>2, <2>3, <2>4, <2>5, <2>6
<1>4. CASE s # <<>>
  <2>1. m = SetNext(n, c, "in", target)
    BY <1>4 DEF IfaceSetNextIndex
  <2>2. top \in DOMAIN s /\ c \in WithIngress /\ top \in I
    <3>1. top # 0
      BY <1>1, <1>4, EmptySeq
    <3>2. c \in WithIngress
      BY <1>4 DEF LeavesVector
    <3>3. top \in DOMAIN s
      BY <1>2, <3>1
    <3> QED BY <3>2, <3>3 DEF Places
  <2>3. c \in TCubes /\ c \in Of(s)
    BY <1>2, <2>2 DEF Of
  <2> HIDE DEF top, c
  <2>4. /\ m \in Nets /\ Common(hook, m)
        /\ m.cubes = n.cubes /\ m.link = n.link /\ m.index = n.index
        /\ m.port_index = n.port_index /\ m.fwd = n.fwd /\ m.rx = n.rx
        /\ m.tx = n.tx /\ m.out_next = n.out_next /\ m.out_next_xdp = n.out_next_xdp
        /\ \A d \in TCubes \ {c} :
             /\ m.next_in[d] = n.next_in[d] /\ m.next_out[d] = n.next_out[d]
             /\ m.egress_next_tc[d] = n.egress_next_tc[d] /\ m.next_twin[d] = n.next_twin[d]
        /\ m.next_in[c] = target
        /\ m.next_out = n.next_out /\ m.egress_next_tc = n.egress_next_tc
        /\ m.next_twin[c] \in {n.egress_next_tc[c], n.next_twin[c]}
    <3>1. PICK kind : kind = "in"
      OBVIOUS
    <3>2. kind \in {"in", "out"} /\ m = SetNext(n, c, kind, target) /\ kind # "out"
      BY <2>1, <3>1
    <3> QED BY <2>3, <3>1, <3>2, SetNextEffect
  <2>5. ASSUME NEW t, IfaceEntered(n, i, t) PROVE IfaceEntered(m, i, target)
    <3> HIDE DEF I
    <3>1. Downward(n.next_in, s, WithIngress, "in", t)
      BY <2>5 DEF IfaceEntered
    <3>2. ASSUME NEW k \in I
          PROVE  m.next_in[s[k]] = AtLowest(s, {j \in I : j > k}, "in", target)
      <4>0. k \in 1 .. Len(s) /\ top = Len(s)
        BY <1>2 DEF top
      <4>1. CASE k = top
        <5>1. \A j \in I : ~(j > k)
          BY <1>2, <4>0, <4>1
        <5>2. {j \in I : j > k} = {}
          BY <5>1
        <5>3. s[k] = c
          BY <4>1 DEF c
        <5> QED BY <2>4, <5>2, <5>3 DEF AtLowest
      <4>2. CASE k # top
        <5>1. s[k] # c /\ s[k] \in TCubes
          BY <1>1, <1>2, <2>2, <4>0, <4>2 DEF c
        <5>2. top > k
          BY <1>2, <4>0, <4>2
        <5>3. {j \in I : j > k} # {}
          BY <2>2, <5>2
        <5>4. n.next_in[s[k]] = AtLowest(s, {j \in I : j > k}, "in", t)
          BY <3>1 DEF Downward, I
        <5> QED BY <2>4, <5>1, <5>3, <5>4 DEF AtLowest
      <4> QED BY <4>1, <4>2
    <3>3. Downward(m.next_in, s, WithIngress, "in", target)
      BY <3>2 DEF Downward, I
    <3>4. BottomEntry(s, WithIngress, "in", t) = BottomEntry(s, WithIngress, "in", target)
      BY <2>2 DEF BottomEntry, AtLowest, I
    <3>5. n.rx[i] = [next |-> BottomEntry(s, WithIngress, "in", t), port |-> n.link[i]]
      BY <2>5 DEF IfaceEntered
    <3> QED BY <2>4, <3>3, <3>4, <3>5 DEF IfaceEntered, s
  <2>6. ASSUME IfaceLeft(hook, n, i) PROVE IfaceLeft(hook, m, i)
    <3>1. ASSUME hook = "xdp" PROVE Upward(m.next_twin, s, WithEgress, "out", Stack)
      <4>1. /\ Upward(n.egress_next_tc, s, WithEgress, "out", Stack)
            /\ Upward(n.next_twin, s, WithEgress, "out", Stack)
        BY <2>6, <3>1 DEF IfaceLeft
      <4>2. \A k \in Places(s, WithEgress) : s[k] \in TCubes
        BY <1>2 DEF Places
      <4>3. \A k \in Places(s, WithEgress) :
              m.next_twin[s[k]] \in {n.egress_next_tc[s[k]], n.next_twin[s[k]]}
        BY <2>4, <4>2
      <4> QED BY <4>1, <4>3 DEF Upward
    <3>2. OutEntry(m, i) = OutEntry(n, i)
      BY <2>4 DEF OutEntry
    <3> QED BY <2>4, <2>6, <3>1, <3>2 DEF IfaceLeft, s
  <2>7. ASSUME NEW e \in Ends \ {i} PROVE Same(n, m, e)
    <3>1. \A d \in TCubes : d \notin Of(n.cubes[i]) => d # c
      BY <2>3 DEF s
    <3> HIDE DEF s
    <3> QED BY <1>1, <2>4, <3>1, SameOthers
  <2> QED BY <2>4, <2>5, <2>6, <2>7
<1> QED BY <1>3, <1>4

-----------------------------------------------------------------------------
(* update_indexes of a port.                                               *)

\* The target of the chain out of port p, Nowhere without a peer.
PortTarget(n, p) ==
  LET q == n.link[p]
  IN IF q \in Ifaces THEN Resolve(n.index[q], q)
     ELSE IF q \in Ports THEN n.port_index[q] ELSE Nowhere

LEMMA PortTargetType ==
  ASSUME NEW n \in Nets, NEW p \in Ports
  PROVE  /\ PortTarget(n, p) \in Targets
         /\ n.link[p] # NoEnd => PortTarget(n, p) = Outside(n, p)
<1>1. n.link[p] \in Ends \cup {NoEnd}
  BY NetFields DEF Ends
<1>2. \A i \in Ifaces : Resolve(n.index[i], i) \in Targets
  BY NetFields, EndTargets DEF Resolve
<1>3. \A r \in Ports : n.port_index[r] \in Targets
  BY NetFields
<1> QED BY <1>1, <1>2, <1>3, EndTargets DEF PortTarget, Outside, Ends

\* Two pointers of the programs of a list that one walk links.
LinkedTogether(next, twin, f, g, s, S, target, other) ==
  /\ Kept(next, f, s, S) /\ Kept(twin, g, s, S)
  /\ \/ Downward(next, s, S, "out", target) /\ Downward(twin, s, S, "out", other)
     \/ Upward(next, s, S, "out", target) /\ Upward(twin, s, S, "out", other)
  /\ target = other \/ target.kind # "out"

\* Both pointers of a program are left alone, or the second one is as the first.
LEMMA LinkedAlike ==
  ASSUME NEW s, NEW S, NEW target, NEW other, NEW f, NEW g, NEW next, NEW twin,
         LinkedTogether(next, twin, f, g, s, S, target, other), NEW c \in TCubes
  PROVE  \/ next[c] = f[c] /\ twin[c] = g[c]
         \/ next[c].kind = "out" => twin[c] = next[c]
<1>0. /\ Kept(next, f, s, S) /\ Kept(twin, g, s, S)
      /\ \/ Downward(next, s, S, "out", target) /\ Downward(twin, s, S, "out", other)
         \/ Upward(next, s, S, "out", target) /\ Upward(twin, s, S, "out", other)
      /\ target = other \/ target.kind # "out"
  BY DEF LinkedTogether
<1>1. CASE Placed(s, S, c)
  <2>1. PICK i \in Places(s, S) : s[i] = c
    BY <1>1 DEF Placed
  <2>2. PICK I \in SUBSET Places(s, S) :
          \/ /\ next[c] = AtLowest(s, I, "out", target)
             /\ twin[c] = AtLowest(s, I, "out", other)
          \/ /\ next[c] = AtHighest(s, I, "out", target)
             /\ twin[c] = AtHighest(s, I, "out", other)
    <3>1. CASE Downward(next, s, S, "out", target) /\ Downward(twin, s, S, "out", other)
      BY <2>1, <3>1 DEF Downward
    <3>2. CASE Upward(next, s, S, "out", target) /\ Upward(twin, s, S, "out", other)
      BY <2>1, <3>2 DEF Upward
    <3> QED BY <1>0, <3>1, <3>2
  <2>3. CASE I = {}
    <3>1. next[c] = target /\ twin[c] = other
      BY <2>2, <2>3 DEF AtLowest, AtHighest
    <3> QED BY <1>0, <3>1
  <2>4. CASE I # {}
    BY <2>2, <2>4 DEF AtLowest, AtHighest
  <2> QED BY <2>3, <2>4
<1>2. CASE ~ Placed(s, S, c)
  BY <1>0, <1>2 DEF Kept
<1> QED BY <1>1, <1>2

\* The chains of a port are linked anew, whatever they were.
LEMMA PortChainsEffect ==
  ASSUME NEW n \in Nets, Disjoint(n), Common(hook, n), NEW p \in Ports,
         NEW m, m = PortChains(n, p)
  PROVE  /\ m \in Nets /\ Common(hook, m)
         /\ m.cubes = n.cubes /\ m.link = n.link /\ m.index = n.index
         /\ \A r \in Ports \ {p} : m.port_index[r] = n.port_index[r]
         /\ PortEntered(m, p)
         /\ PortLeft(m, p, PortTarget(n, p))
         /\ \A e \in Ends \ {p} : Same(n, m, e)
<1> DEFINE s == n.cubes[p]
           target == PortTarget(n, p)
           own == To("parent_in", p)
           next == LinkUp(n.next_in, s, WithIngress, "in", own)
           into == LinkIn(n, next)
           out == LinkDown(n.next_out, s, WithEgress, "out", target)
           twin == LinkDown(n.egress_next_tc, s, WithEgress, "out", target)
           linked == LinkOut(into, out, twin, {})
           top == TopEntry(s, WithIngress, "in", own)
           bottom == BottomEntry(s, WithEgress, "out", target)
           indexed == [linked EXCEPT !.port_index[p] = top]
<1>1. s \in Seq(TCubes) /\ p \in Ends /\ p \notin Ifaces /\ Once(s)
  BY NetFields, EndsAssumption DEF Ends, Disjoint
<1>2. /\ target \in Targets /\ own \in Targets
      /\ n.next_in \in [TCubes -> Targets] /\ n.next_out \in [TCubes -> Targets]
      /\ n.egress_next_tc \in [TCubes -> Targets]
  BY PortTargetType, EndTargets DEF Nets
<1>3. top \in Targets /\ bottom \in Targets
  <2> HIDE DEF s, target, own
  <2> QED BY <1>1, <1>2, EntryTargets DEF TopEntry, BottomEntry
<1>4. /\ next \in [TCubes -> Targets]
      /\ Upward(next, s, WithIngress, "in", own)
      /\ Kept(next, n.next_in, s, WithIngress)
  <2> HIDE DEF s, own
  <2> QED BY <1>1, <1>2, LinkUpChains
<1> HIDE DEF next
<1>5. /\ into \in Nets /\ Common(hook, into) /\ into.next_in = next
      /\ \A c \in TCubes : into.next_twin[c] = IF next[c] # n.next_in[c]
                                               THEN n.egress_next_tc[c] ELSE n.next_twin[c]
      /\ into.cubes = n.cubes /\ into.link = n.link /\ into.next_out = n.next_out
      /\ into.egress_next_tc = n.egress_next_tc /\ into.index = n.index /\ into.port_index = n.port_index
      /\ into.fwd = n.fwd /\ into.rx = n.rx /\ into.tx = n.tx
      /\ into.out_next = n.out_next /\ into.out_next_xdp = n.out_next_xdp
  BY <1>4, LinkInFields, LinkInTwins
<1> HIDE DEF into
<1>6. /\ out \in [TCubes -> Targets] /\ twin \in [TCubes -> Targets]
      /\ Downward(out, s, WithEgress, "out", target)
      /\ \A c \in TCubes : ~ Placed(s, WithEgress, c) =>
                             out[c] = n.next_out[c] /\ twin[c] = n.egress_next_tc[c]
      /\ \A c \in TCubes : \/ out[c] = n.next_out[c] /\ twin[c] = n.egress_next_tc[c]
                           \/ out[c].kind = "out" => twin[c] = out[c]
  <2> HIDE DEF s, target
  <2>2. /\ out \in [TCubes -> Targets]
        /\ Downward(out, s, WithEgress, "out", target)
        /\ Kept(out, n.next_out, s, WithEgress)
    BY <1>1, <1>2, LinkDownChains
  <2>3. /\ twin \in [TCubes -> Targets]
        /\ Downward(twin, s, WithEgress, "out", target)
        /\ Kept(twin, n.egress_next_tc, s, WithEgress)
    BY <1>1, <1>2, LinkDownChains
  <2> HIDE DEF out, twin
  <2>4. \A c \in TCubes : \/ out[c] = n.next_out[c] /\ twin[c] = n.egress_next_tc[c]
                          \/ out[c].kind = "out" => twin[c] = out[c]
    <3>1. LinkedTogether(out, twin, n.next_out, n.egress_next_tc, s, WithEgress, target, target)
      BY <2>2, <2>3 DEF LinkedTogether
    <3> QED BY <3>1, LinkedAlike
  <2> QED BY <2>2, <2>3, <2>4 DEF Kept
<1> HIDE DEF out, twin
<1>7. /\ linked \in Nets /\ Common(hook, linked)
      /\ linked.next_out = out /\ linked.egress_next_tc = twin
      /\ \A c \in TCubes : linked.next_twin[c] = IF out[c] # into.next_out[c] \/ c \in {}
                                                 THEN twin[c] ELSE into.next_twin[c]
      /\ linked.cubes = into.cubes /\ linked.link = into.link /\ linked.next_in = into.next_in
      /\ linked.index = into.index /\ linked.port_index = into.port_index /\ linked.fwd = into.fwd
      /\ linked.rx = into.rx /\ linked.tx = into.tx /\ linked.out_next = into.out_next
      /\ linked.out_next_xdp = into.out_next_xdp
  BY <1>5, <1>6, LinkOutFields, LinkOutTwins
<1> HIDE DEF linked
<1>8. /\ indexed \in Nets
      /\ indexed.port_index[p] = top
      /\ \A r \in Ports \ {p} : indexed.port_index[r] = linked.port_index[r]
      /\ indexed.cubes = linked.cubes /\ indexed.link = linked.link /\ indexed.next_in = linked.next_in
      /\ indexed.next_out = linked.next_out /\ indexed.egress_next_tc = linked.egress_next_tc /\ indexed.next_twin = linked.next_twin
      /\ indexed.index = linked.index /\ indexed.fwd = linked.fwd /\ indexed.rx = linked.rx
      /\ indexed.tx = linked.tx /\ indexed.out_next = linked.out_next /\ indexed.out_next_xdp = linked.out_next_xdp
  <2> DEFINE f == [linked.port_index EXCEPT ![p] = top]
  <2>1. indexed = [linked EXCEPT !.port_index = f]
    OBVIOUS
  <2> HIDE DEF top, indexed
  <2>2. linked.port_index \in [Ports -> Targets] /\ f \in [Ports -> Targets]
    BY <1>3, <1>7 DEF Nets
  <2>3. f[p] = top /\ \A r \in Ports \ {p} : f[r] = linked.port_index[r]
    BY <2>2
  <2> HIDE DEF f
  <2>4. /\ indexed \in Nets /\ indexed.port_index = f
        /\ indexed.cubes = linked.cubes /\ indexed.link = linked.link /\ indexed.next_in = linked.next_in
        /\ indexed.next_out = linked.next_out /\ indexed.egress_next_tc = linked.egress_next_tc /\ indexed.next_twin = linked.next_twin
        /\ indexed.index = linked.index /\ indexed.fwd = linked.fwd /\ indexed.rx = linked.rx
        /\ indexed.tx = linked.tx /\ indexed.out_next = linked.out_next /\ indexed.out_next_xdp = linked.out_next_xdp
    BY <1>7, <2>1, <2>2 DEF Nets
  <2> QED BY <2>3, <2>4
<1>9. m = SetForwarding(indexed, p, bottom)
  BY DEF PortChains, PortTarget, into, next, out, twin, linked
<1> HIDE DEF indexed
<1>10. /\ m \in Nets
       /\ m.fwd[p] = [next |-> bottom, port |-> IF indexed.link[p] \in Ports THEN indexed.link[p] ELSE p]
       /\ \A r \in Ports \ {p} : m.fwd[r] = indexed.fwd[r]
       /\ m.cubes = indexed.cubes /\ m.link = indexed.link /\ m.next_in = indexed.next_in
       /\ m.next_out = indexed.next_out /\ m.egress_next_tc = indexed.egress_next_tc /\ m.next_twin = indexed.next_twin
       /\ m.index = indexed.index /\ m.port_index = indexed.port_index /\ m.rx = indexed.rx
       /\ m.tx = indexed.tx /\ m.out_next = indexed.out_next /\ m.out_next_xdp = indexed.out_next_xdp
  <2> HIDE DEF bottom
  <2> QED BY <1>3, <1>8, <1>9, ForwardingFields
<1>11. Common(hook, m)
  BY <1>7, <1>8, <1>10 DEF Common, Twins
<1>12. /\ m.cubes = n.cubes /\ m.link = n.link /\ m.index = n.index
       /\ m.rx = n.rx /\ m.tx = n.tx /\ m.out_next = n.out_next /\ m.out_next_xdp = n.out_next_xdp
       /\ m.next_in = next /\ m.next_out = out /\ m.egress_next_tc = twin
       /\ m.next_twin = linked.next_twin
       /\ m.port_index[p] = top
       /\ \A r \in Ports \ {p} : m.port_index[r] = n.port_index[r] /\ m.fwd[r] = n.fwd[r]
       /\ m.fwd[p] = [next |-> bottom, port |-> IF n.link[p] \in Ports THEN n.link[p] ELSE p]
  BY <1>5, <1>7, <1>8, <1>10
<1>13. PortEntered(m, p)
  BY <1>4, <1>12 DEF PortEntered
<1>14. PortLeft(m, p, target)
  BY <1>6, <1>12 DEF PortLeft
<1>15. ASSUME NEW e \in Ends \ {p} PROVE Same(n, m, e)
  <2>1. ASSUME NEW d \in TCubes, d \notin Of(s)
        PROVE  /\ m.next_in[d] = n.next_in[d] /\ m.next_out[d] = n.next_out[d]
               /\ m.egress_next_tc[d] = n.egress_next_tc[d] /\ m.next_twin[d] = n.next_twin[d]
    <3>1. \A S : ~ Placed(s, S, d)
      BY <2>1, NotPlaced
    <3>2. next[d] = n.next_in[d] /\ out[d] = n.next_out[d] /\ twin[d] = n.egress_next_tc[d]
      BY <1>4, <1>6, <3>1 DEF Kept
    <3>3. into.next_twin[d] = n.next_twin[d] /\ into.next_out[d] = n.next_out[d]
      BY <1>5, <3>2
    <3>4. linked.next_twin[d] = n.next_twin[d]
      BY <1>7, <3>2, <3>3
    <3> QED BY <1>12, <3>2, <3>4
  <2>2. e \in Ports => e \in Ports \ {p}
    OBVIOUS
  <2> HIDE DEF bottom, top
  <2> QED BY <1>1, <1>12, <2>1, <2>2, SameOthers DEF s
<1> QED BY <1>10, <1>11, <1>12, <1>13, <1>14, <1>15

\* What the relinking of a port does to every end.
LEMMA UpdatePortEffect ==
  ASSUME NEW n \in Nets, Disjoint(n), Common(hook, n), NEW p \in Ports, n.link[p] # p,
         ~ UpdateCrashes(n, p), NEW m, m = UpdatePort(n, p)
  PROVE  /\ m \in Nets /\ Common(hook, m)
         /\ m.cubes = n.cubes /\ m.link = n.link /\ m.index = n.index
         /\ \A r \in Ports \ {p} : m.port_index[r] = n.port_index[r]
         /\ EndChained(hook, m, p)
         /\ \A e \in Ends \ {p, n.link[p]} : Same(n, m, e)
         /\ \A e \in Ends : e = n.link[p] /\ n.link[e] = p /\ EndChained(hook, n, e)
                              => EndChained(hook, m, e)
<1> DEFINE q == n.link[p]
           k == PortChains(n, p)
<1>1. /\ k \in Nets /\ Common(hook, k)
      /\ k.cubes = n.cubes /\ k.link = n.link /\ k.index = n.index
      /\ \A r \in Ports \ {p} : k.port_index[r] = n.port_index[r]
      /\ PortEntered(k, p)
      /\ PortLeft(k, p, PortTarget(n, p))
      /\ \A e \in Ends \ {p} : Same(n, k, e)
  BY PortChainsEffect
<1>2. q \in Ends \cup {NoEnd} /\ p \in Ends /\ p \notin Ifaces
  BY NetFields, EndsAssumption DEF Ends
<1>3. q # NoEnd => PortTarget(n, p) = Outside(n, p)
  BY PortTargetType
<1>4. Disjoint(k)
  BY <1>1 DEF Disjoint
<1>5. k.port_index[p] \in Targets
  BY <1>1, NetFields
<1>6. m = IF q \in Ifaces THEN IfaceSetNextIndex(k, q, k.port_index[p])
          ELSE IF q \in Ports THEN PortSetNextIndex(k, q, k.port_index[p])
          ELSE k
  BY DEF UpdatePort
<1> HIDE DEF k
<1>7. CASE q = NoEnd
  <2>1. m = k
    BY <1>6, <1>7, EndsAssumption DEF Ends
  <2>2. EndChained(hook, m, p)
    BY <1>1, <1>7, <2>1 DEF EndChained
  <2>3. \A e \in Ends : e # q
    BY <1>7, EndsAssumption
  <2> QED BY <1>1, <1>2, <2>1, <2>2, <2>3
<1>8. CASE q \in Ifaces
  <2>1. q \notin Ports /\ q \in Ends /\ q # NoEnd
    BY <1>8, EndsAssumption DEF Ends
  <2>2. ~ LeavesVector(k, q)
    BY <1>1, <1>2, <1>8 DEF UpdateCrashes, LeavesVector
  <2>3. /\ m \in Nets /\ Common(hook, m)
        /\ m.cubes = k.cubes /\ m.link = k.link /\ m.index = k.index
        /\ m.port_index = k.port_index
        /\ \A t : IfaceEntered(k, q, t) => IfaceEntered(m, q, k.port_index[p])
        /\ IfaceLeft(hook, k, q) => IfaceLeft(hook, m, q)
        /\ \A e \in Ends \ {q} : Same(k, m, e)
    <3>1. m = IfaceSetNextIndex(k, q, k.port_index[p])
      BY <1>6, <1>8
    <3> QED BY <1>1, <1>4, <1>5, <1>8, <2>2, <3>1, IfaceIndexEffect
  <2>4. EndChained(hook, m, p)
    <3>1. Same(k, m, p)
      BY <1>2, <1>8, <2>3
    <3>2. PortEntered(m, p) /\ PortLeft(m, p, Outside(n, p))
      BY <1>1, <1>2, <1>3, <2>1, <3>1, SameEnd
    <3>3. Outside(m, p) = Outside(n, p)
      BY <1>1, <1>8, <2>3 DEF Outside
    <3> QED BY <3>2, <3>3 DEF EndChained
  <2>5. ASSUME n.link[q] = p, EndChained(hook, n, q) PROVE EndChained(hook, m, q)
    <3>1. Same(n, k, q)
      BY <1>1, <2>1
    <3>2. IfaceEntered(n, q, Inside(n, q)) /\ IfaceLeft(hook, n, q)
      BY <2>1, <2>5 DEF EndChained
    <3>3. IfaceEntered(k, q, Inside(n, q)) /\ IfaceLeft(hook, k, q)
      BY <1>8, <2>1, <3>1, <3>2, SameEnd
    <3>4. IfaceEntered(m, q, k.port_index[p]) /\ IfaceLeft(hook, m, q)
      BY <2>3, <3>3
    <3>5. Inside(m, q) = k.port_index[p]
      BY <1>1, <1>2, <2>3, <2>5, EndsAssumption DEF Inside
    <3> QED BY <2>1, <3>4, <3>5 DEF EndChained
  <2>6. ASSUME NEW e \in Ends \ {p, q} PROVE Same(n, m, e)
    <3>1. Same(n, k, e) /\ Same(k, m, e)
      BY <1>1, <2>3
    <3> QED BY <3>1 DEF Same
  <2> QED BY <1>1, <2>3, <2>4, <2>5, <2>6
<1>9. CASE q \in Ports
  <2>1. q \notin Ifaces /\ q \in Ends /\ q # NoEnd
    BY <1>9, EndsAssumption DEF Ends
  <2>3. /\ m \in Nets /\ Common(hook, m)
        /\ m.cubes = k.cubes /\ m.link = k.link /\ m.index = k.index
        /\ m.port_index = k.port_index
        /\ PortEntered(k, q) => PortEntered(m, q)
        /\ \A t : PortLeft(k, q, t) => PortLeft(m, q, Resolve(k.port_index[p], k.link[q]))
        /\ \A e \in Ends \ {q} : Same(k, m, e)
    <3>1. m = PortSetNextIndex(k, q, k.port_index[p])
      BY <1>6, <1>9, <2>1
    <3> QED BY <1>1, <1>4, <1>5, <1>9, <3>1, PortIndexEffect
  <2>4. EndChained(hook, m, p)
    <3>1. Same(k, m, p)
      BY <1>2, <1>9, <2>3
    <3>2. PortEntered(m, p) /\ PortLeft(m, p, Outside(n, p))
      BY <1>1, <1>2, <1>3, <2>1, <3>1, SameEnd
    <3>3. Outside(m, p) = Outside(n, p)
      BY <1>1, <1>9, <2>1, <2>3 DEF Outside
    <3> QED BY <3>2, <3>3 DEF EndChained
  <2>5. ASSUME n.link[q] = p, EndChained(hook, n, q) PROVE EndChained(hook, m, q)
    <3>1. Same(n, k, q)
      BY <1>1, <2>1
    <3>2. PortEntered(n, q) /\ PortLeft(n, q, Outside(n, q))
      BY <1>2, <1>9, <2>5, EndsAssumption DEF EndChained
    <3>3. PortEntered(k, q) /\ PortLeft(k, q, Outside(n, q))
      BY <1>9, <2>1, <3>1, <3>2, SameEnd
    <3>4. PortEntered(m, q) /\ PortLeft(m, q, Resolve(k.port_index[p], k.link[q]))
      BY <2>3, <3>3
    <3>5. Resolve(k.port_index[p], k.link[q]) = k.port_index[p]
      BY <1>1 DEF PortEntered, TopEntry, AtHighest, To, Stack, Resolve
    <3>6. Outside(m, q) = k.port_index[p]
      BY <1>1, <1>2, <2>3, <2>5 DEF Outside
    <3> QED BY <1>9, <3>4, <3>5, <3>6 DEF EndChained
  <2>6. ASSUME NEW e \in Ends \ {p, q} PROVE Same(n, m, e)
    <3>1. Same(n, k, e) /\ Same(k, m, e)
      BY <1>1, <2>3
    <3> QED BY <3>1 DEF Same
  <2> QED BY <1>1, <2>3, <2>4, <2>5, <2>6
<1> QED BY <1>2, <1>7, <1>8, <1>9 DEF Ends

-----------------------------------------------------------------------------
(* update_indexes of an interface.                                         *)

\* The end that the chains of an interface lead to.
LEMMA InsideType ==
  ASSUME NEW n \in Nets, NEW i \in Ifaces, n.link[i] \in Ports \cup {NoEnd}
  PROVE  Inside(n, i) \in Targets
BY NetFields, EndTargets DEF Inside

\* The twin of the last cube of an XDP interface is always compiled, and that
\* of another cube is up to date where its program is.
LEMMA TwinsLinked ==
  ASSUME NEW s \in Seq(TCubes), NEW S, NEW c, NEW i \in Places(s, S), c = s[i],
         i # Lowest(Places(s, S)),
         NEW next, NEW twin, NEW target, NEW other,
         Upward(next, s, S, "out", target), Upward(twin, s, S, "out", other)
  PROVE  next[c] = twin[c] /\ next[c].kind = "out"
<1> DEFINE I == Places(s, S)
           J == {j \in I : j < i}
<1>1. I \in SUBSET (1 .. Len(s)) /\ Len(s) \in Nat /\ I \in SUBSET Nat
  BY LenProperties DEF Places
<1>2. Lowest(I) \in I /\ \A j \in I : Lowest(I) <= j
  <2> HIDE DEF I
  <2>1. i \in I
    BY DEF I
  <2> QED BY <1>1, <2>1, LowestPlace
<1>3. Lowest(I) < i
  <2>1. Lowest(I) <= i /\ Lowest(I) # i
    BY <1>2
  <2>2. Lowest(I) \in Nat /\ i \in Nat
    BY <1>1, <1>2
  <2> HIDE DEF I
  <2> QED BY <2>1, <2>2
<1>4. J # {}
  BY <1>2, <1>3
<1>5. next[c] = AtHighest(s, J, "out", target) /\ twin[c] = AtHighest(s, J, "out", other)
  BY DEF Upward
<1> HIDE DEF J
<1> QED BY <1>4, <1>5 DEF AtHighest, To

\* The chains of an interface are linked anew, whatever they were.
LEMMA IfaceChainsEffect ==
  ASSUME NEW n \in Nets, Disjoint(n), Common(hook, n), NEW i \in Ifaces,
         n.link[i] \in Ports \cup {NoEnd},
         NEW m, m = IfaceChains(n, i)
  PROVE  /\ m \in Nets /\ Common(hook, m)
         /\ m.cubes = n.cubes /\ m.link = n.link /\ m.index = n.index
         /\ m.port_index = n.port_index /\ m.fwd = n.fwd /\ m.tx = n.tx
         /\ m.out_next = n.out_next /\ m.out_next_xdp = n.out_next_xdp
         /\ IfaceEntered(m, i, Inside(n, i))
         /\ Upward(m.next_out, n.cubes[i], WithEgress, "out",
                   IF hook = "xdp" THEN To("netdev", i) ELSE Stack)
         /\ hook = "xdp" => /\ Upward(m.egress_next_tc, n.cubes[i], WithEgress, "out", Stack)
                            /\ Upward(m.next_twin, n.cubes[i], WithEgress, "out", Stack)
         /\ \A e \in Ends \ {i} : Same(n, m, e)
<1> DEFINE s == n.cubes[i]
           target == Inside(n, i)
           device == IF hook = "xdp" THEN To("netdev", i) ELSE Stack
           I == Places(s, WithEgress)
           last == IF hook = "xdp" /\ I # {} THEN {s[Lowest(I)]} ELSE {}
           next == LinkDown(n.next_in, s, WithIngress, "in", target)
           into == LinkIn(n, next)
           out == LinkUp(n.next_out, s, WithEgress, "out", device)
           twin == LinkUp(n.egress_next_tc, s, WithEgress, "out", Stack)
           linked == LinkOut(into, out, twin, last)
           bottom == BottomEntry(s, WithIngress, "in", target)
<1>1. s \in Seq(TCubes) /\ i \in Ends /\ i \notin Ports /\ Once(s)
  BY NetFields, EndsAssumption DEF Ends, Disjoint
<1>2. /\ target \in Targets /\ device \in Targets /\ Stack \in Targets
      /\ device.kind # "out" /\ Stack.kind # "out"
      /\ n.next_in \in [TCubes -> Targets] /\ n.next_out \in [TCubes -> Targets]
      /\ n.egress_next_tc \in [TCubes -> Targets]
  <2>1. target \in Targets
    BY InsideType
  <2>2. device \in Targets /\ Stack \in Targets
    BY EndTargets
  <2>3. device.kind # "out" /\ Stack.kind # "out"
    BY DEF Stack, To
  <2> QED BY <2>1, <2>2, <2>3 DEF Nets
<1>3. bottom \in Targets
  <2> HIDE DEF s, target
  <2> QED BY <1>1, <1>2, EntryTargets DEF BottomEntry
<1>9. m = SetRx(linked, i, bottom)
  BY DEF IfaceChains, Inside
<1> HIDE DEF target, device
<1>4. /\ next \in [TCubes -> Targets]
      /\ Downward(next, s, WithIngress, "in", target)
      /\ Kept(next, n.next_in, s, WithIngress)
  <2> HIDE DEF s
  <2> QED BY <1>1, <1>2, LinkDownChains
<1> HIDE DEF next
<1>5. /\ into \in Nets /\ Common(hook, into) /\ into.next_in = next
      /\ \A c \in TCubes : into.next_twin[c] = IF next[c] # n.next_in[c]
                                               THEN n.egress_next_tc[c] ELSE n.next_twin[c]
      /\ into.cubes = n.cubes /\ into.link = n.link /\ into.next_out = n.next_out
      /\ into.egress_next_tc = n.egress_next_tc /\ into.index = n.index /\ into.port_index = n.port_index
      /\ into.fwd = n.fwd /\ into.rx = n.rx /\ into.tx = n.tx
      /\ into.out_next = n.out_next /\ into.out_next_xdp = n.out_next_xdp
  BY <1>4, LinkInFields, LinkInTwins
<1> HIDE DEF into
<1>6. /\ out \in [TCubes -> Targets] /\ twin \in [TCubes -> Targets]
      /\ Upward(out, s, WithEgress, "out", device)
      /\ Upward(twin, s, WithEgress, "out", Stack)
      /\ \A c \in TCubes : ~ Placed(s, WithEgress, c) =>
                             out[c] = n.next_out[c] /\ twin[c] = n.egress_next_tc[c]
      /\ \A c \in TCubes : \/ out[c] = n.next_out[c] /\ twin[c] = n.egress_next_tc[c]
                           \/ out[c].kind = "out" => twin[c] = out[c]
  <2> HIDE DEF s
  <2>2. /\ out \in [TCubes -> Targets]
        /\ Upward(out, s, WithEgress, "out", device)
        /\ Kept(out, n.next_out, s, WithEgress)
    BY <1>1, <1>2, LinkUpChains
  <2>3. /\ twin \in [TCubes -> Targets]
        /\ Upward(twin, s, WithEgress, "out", Stack)
        /\ Kept(twin, n.egress_next_tc, s, WithEgress)
    BY <1>1, <1>2, LinkUpChains
  <2> HIDE DEF out, twin
  <2>4. \A c \in TCubes : \/ out[c] = n.next_out[c] /\ twin[c] = n.egress_next_tc[c]
                          \/ out[c].kind = "out" => twin[c] = out[c]
    <3>1. LinkedTogether(out, twin, n.next_out, n.egress_next_tc, s, WithEgress, device, Stack)
      BY <1>2, <2>2, <2>3 DEF LinkedTogether
    <3> QED BY <3>1, LinkedAlike
  <2> QED BY <2>2, <2>3, <2>4 DEF Kept
<1> HIDE DEF out, twin
<1> HIDE DEF last
<1>7. /\ linked \in Nets /\ Common(hook, linked)
      /\ linked.next_out = out /\ linked.egress_next_tc = twin
      /\ \A c \in TCubes : linked.next_twin[c] = IF out[c] # into.next_out[c] \/ c \in last
                                                 THEN twin[c] ELSE into.next_twin[c]
      /\ linked.cubes = into.cubes /\ linked.link = into.link /\ linked.next_in = into.next_in
      /\ linked.index = into.index /\ linked.port_index = into.port_index /\ linked.fwd = into.fwd
      /\ linked.rx = into.rx /\ linked.tx = into.tx /\ linked.out_next = into.out_next
      /\ linked.out_next_xdp = into.out_next_xdp
  BY <1>5, <1>6, LinkOutFields, LinkOutTwins
<1> HIDE DEF linked
<1>10. /\ m \in Nets
       /\ m.rx[i] = [next |-> bottom, port |-> linked.link[i]]
       /\ \A j \in Ifaces \ {i} : m.rx[j] = linked.rx[j]
       /\ m.cubes = linked.cubes /\ m.link = linked.link /\ m.next_in = linked.next_in
       /\ m.next_out = linked.next_out /\ m.egress_next_tc = linked.egress_next_tc /\ m.next_twin = linked.next_twin
       /\ m.index = linked.index /\ m.port_index = linked.port_index /\ m.fwd = linked.fwd
       /\ m.tx = linked.tx /\ m.out_next = linked.out_next /\ m.out_next_xdp = linked.out_next_xdp
  <2> HIDE DEF bottom
  <2> QED BY <1>3, <1>7, <1>9, DeviceFields
<1>11. Common(hook, m)
  BY <1>7, <1>10 DEF Common, Twins
<1>12. /\ m.cubes = n.cubes /\ m.link = n.link /\ m.index = n.index
       /\ m.port_index = n.port_index /\ m.fwd = n.fwd /\ m.tx = n.tx
       /\ m.out_next = n.out_next /\ m.out_next_xdp = n.out_next_xdp
       /\ m.next_in = next /\ m.next_out = out /\ m.egress_next_tc = twin
       /\ m.next_twin = linked.next_twin
       /\ \A r \in Ifaces \ {i} : m.rx[r] = n.rx[r]
       /\ m.rx[i] = [next |-> bottom, port |-> n.link[i]]
  BY <1>5, <1>7, <1>10
<1>13. IfaceEntered(m, i, target)
  BY <1>4, <1>12 DEF IfaceEntered
<1>14. ASSUME hook = "xdp" PROVE Upward(m.next_twin, s, WithEgress, "out", Stack)
  <2>1. ASSUME NEW k \in I PROVE m.next_twin[s[k]] = twin[s[k]]
    <3>1. s[k] \in TCubes
      BY <1>1, ProgramLists
    <3>2. CASE k = Lowest(I)
      <4>1. s[k] \in last
        BY <1>14, <3>2 DEF last
      <4> QED BY <1>7, <1>12, <3>1, <4>1
    <3>3. CASE k # Lowest(I)
      <4>1. out[s[k]] = twin[s[k]] /\ out[s[k]].kind = "out"
        <5> HIDE DEF s
        <5> QED BY <1>1, <1>6, <3>3, TwinsLinked DEF I
      <4>2. out[s[k]] = n.next_out[s[k]] => into.next_twin[s[k]] = out[s[k]]
        BY <1>5, <3>1, <4>1 DEF Common, Twins
      <4> QED BY <1>5, <1>7, <1>12, <3>1, <4>1, <4>2
    <3> QED BY <3>2, <3>3
  <2> QED BY <1>6, <2>1 DEF Upward
<1>15. ASSUME NEW e \in Ends \ {i} PROVE Same(n, m, e)
  <2>1. ASSUME NEW d \in TCubes, d \notin Of(s)
        PROVE  /\ m.next_in[d] = n.next_in[d] /\ m.next_out[d] = n.next_out[d]
               /\ m.egress_next_tc[d] = n.egress_next_tc[d] /\ m.next_twin[d] = n.next_twin[d]
    <3>1. \A S : ~ Placed(s, S, d)
      BY <2>1, NotPlaced
    <3>2. next[d] = n.next_in[d] /\ out[d] = n.next_out[d] /\ twin[d] = n.egress_next_tc[d]
      BY <1>4, <1>6, <3>1 DEF Kept
    <3>3. into.next_twin[d] = n.next_twin[d] /\ into.next_out[d] = n.next_out[d]
      BY <1>5, <3>2
    <3>5. d \notin last
      <4>1. I # {} => Lowest(I) \in DOMAIN s
        <5>1. I \in SUBSET Nat
          BY <1>1, LenProperties DEF Places
        <5>2. I # {} => Lowest(I) \in I
          <6> HIDE DEF I
          <6> QED BY <5>1, LowestPlace
        <5> QED BY <5>2 DEF Places
      <4> QED BY <2>1, <4>1 DEF last, Of
    <3>4. linked.next_twin[d] = n.next_twin[d]
      BY <1>7, <3>2, <3>3, <3>5
    <3> QED BY <1>12, <3>2, <3>4
  <2>2. e \in Ifaces => e \in Ifaces \ {i}
    OBVIOUS
  <2> HIDE DEF bottom
  <2> QED BY <1>1, <1>12, <2>1, <2>2, SameOthers DEF s
<1> QED BY <1>6, <1>10, <1>11, <1>12, <1>13, <1>14, <1>15 DEF device, target

\* The egress program of the cube of a port.
LEMMA ParentNextFields ==
  ASSUME NEW n \in Nets, NEW p \in Ports, n.link[p] \in Ends, NEW target \in Targets,
         NEW m, m = SetParentNext(n, p, target)
  PROVE  /\ m \in Nets
         /\ m.out_next[p] = target
         /\ hook = "xdp" => m.out_next_xdp[p] = Resolve(target, n.link[p])
         /\ \A r \in Ports \ {p} : m.out_next[r] = n.out_next[r] /\ m.out_next_xdp[r] = n.out_next_xdp[r]
         /\ m.cubes = n.cubes /\ m.link = n.link /\ m.next_in = n.next_in
         /\ m.next_out = n.next_out /\ m.egress_next_tc = n.egress_next_tc /\ m.next_twin = n.next_twin
         /\ m.index = n.index /\ m.port_index = n.port_index /\ m.fwd = n.fwd
         /\ m.rx = n.rx /\ m.tx = n.tx
<1> DEFINE x == IF hook = "xdp" THEN Resolve(target, n.link[p]) ELSE n.out_next_xdp[p]
           f == [n.out_next EXCEPT ![p] = target]
           g == [n.out_next_xdp EXCEPT ![p] = x]
<1>1. x \in Targets
  <2>1. n.out_next_xdp[p] \in Targets
    BY NetFields DEF Nets
  <2>2. To("netdev", n.link[p]) \in Targets
    BY DEF To, Targets, Kinds
  <2> QED BY <2>1, <2>2 DEF Resolve
<1>2. m = [n EXCEPT !.out_next = f, !.out_next_xdp = g]
  BY DEF SetParentNext
<1>3. n.out_next \in [Ports -> Targets] /\ n.out_next_xdp \in [Ports -> Targets]
  BY DEF Nets
<1>5. hook = "xdp" => x = Resolve(target, n.link[p])
  OBVIOUS
<1> HIDE DEF x
<1>4. /\ f \in [Ports -> Targets] /\ g \in [Ports -> Targets]
      /\ f[p] = target /\ g[p] = x
      /\ \A r \in Ports \ {p} : f[r] = n.out_next[r] /\ g[r] = n.out_next_xdp[r]
  BY <1>1, <1>3
<1> HIDE DEF f, g
<1>6. /\ m \in Nets /\ m.out_next = f /\ m.out_next_xdp = g
      /\ m.cubes = n.cubes /\ m.link = n.link /\ m.next_in = n.next_in
      /\ m.next_out = n.next_out /\ m.egress_next_tc = n.egress_next_tc /\ m.next_twin = n.next_twin
      /\ m.index = n.index /\ m.port_index = n.port_index /\ m.fwd = n.fwd
      /\ m.rx = n.rx /\ m.tx = n.tx
  BY <1>2, <1>4 DEF Nets
<1> QED BY <1>4, <1>5, <1>6

\* The chain out of an interface, as far as its own cubes and its transmit
\* program are concerned; index is the entry of the interface.
IfaceOut(h, n, i, index) ==
  /\ Upward(n.next_out, n.cubes[i], WithEgress, "out",
            IF h = "xdp" THEN To("netdev", i) ELSE Stack)
  /\ h = "xdp" => /\ Upward(n.egress_next_tc, n.cubes[i], WithEgress, "out", Stack)
                  /\ Upward(n.next_twin, n.cubes[i], WithEgress, "out", Stack)
  /\ n.tx[i] = [next |-> index, port |-> n.link[i]]
  /\ n.link[i] \in ParentEgress =>
       LET top == TopEntry(n.cubes[i], WithEgress, "out", Stack)
       IN /\ n.out_next[n.link[i]] = top
          /\ h = "xdp" => n.out_next_xdp[n.link[i]] = Resolve(top, i)

\* A change elsewhere leaves it alone.
LEMMA SameOut ==
  ASSUME NEW n, NEW m, NEW i \in Ifaces, Same(n, m, i), NEW h, NEW index, IfaceOut(h, n, i, index)
  PROVE  IfaceOut(h, m, i, index)
<1>1. \A S : \A j \in Places(n.cubes[i], S) : n.cubes[i][j] \in Of(n.cubes[i])
  BY DEF Places, Of
<1>2. ASSUME NEW S, NEW kind, NEW t
      PROVE  /\ Upward(n.next_out, n.cubes[i], S, kind, t) => Upward(m.next_out, m.cubes[i], S, kind, t)
             /\ Upward(n.egress_next_tc, n.cubes[i], S, kind, t)
                  => Upward(m.egress_next_tc, m.cubes[i], S, kind, t)
             /\ Upward(n.next_twin, n.cubes[i], S, kind, t) => Upward(m.next_twin, m.cubes[i], S, kind, t)
  <2>1. ASSUME NEW f, NEW g, \A c \in Of(n.cubes[i]) : g[c] = f[c]
        PROVE  Upward(f, n.cubes[i], S, kind, t) => Upward(g, n.cubes[i], S, kind, t)
    BY <1>1, <2>1, SameChain
  <2>2. /\ m.cubes[i] = n.cubes[i]
        /\ \A c \in Of(n.cubes[i]) : m.next_out[c] = n.next_out[c]
        /\ \A c \in Of(n.cubes[i]) : m.egress_next_tc[c] = n.egress_next_tc[c]
        /\ \A c \in Of(n.cubes[i]) : m.next_twin[c] = n.next_twin[c]
    BY DEF Same
  <2> QED BY <2>1, <2>2
<1>3. /\ m.cubes[i] = n.cubes[i] /\ m.link[i] = n.link[i] /\ m.tx[i] = n.tx[i]
      /\ n.link[i] \in ParentEgress => /\ m.out_next[n.link[i]] = n.out_next[n.link[i]]
                                       /\ m.out_next_xdp[n.link[i]] = n.out_next_xdp[n.link[i]]
  BY ProgramsAssumption DEF Same
<1> QED BY <1>2, <1>3 DEF IfaceOut

\* What the relinking of an interface does to every end.
LEMMA UpdateIfaceEffect ==
  ASSUME NEW n \in Nets, Disjoint(n), Common(hook, n), NEW i \in Ifaces,
         n.link[i] = NoEnd \/ (n.link[i] \in Ports /\ n.link[n.link[i]] = i),
         hook \in {"tc", "xdp"}, NEW m, m = UpdateIface(n, i)
  PROVE  /\ m \in Nets /\ Common(hook, m)
         /\ m.cubes = n.cubes /\ m.link = n.link /\ m.port_index = n.port_index
         /\ \A j \in Ifaces \ {i} : m.index[j] = n.index[j]
         /\ EndChained(hook, m, i)
         /\ \A e \in Ends \ {i, n.link[i]} :
              n.link[e] = NoEnd \/ n.link[e] # n.link[i] => Same(n, m, e)
         /\ n.link[i] # NoEnd /\ EndChained(hook, n, n.link[i]) => EndChained(hook, m, n.link[i])
<1> DEFINE p == n.link[i]
           s == n.cubes[i]
           top == TopEntry(s, WithEgress, "out", Stack)
           index == OutEntry(n, i)
           chains == IfaceChains(n, i)
           k == IF p \in ParentEgress THEN SetParentNext(chains, p, top) ELSE chains
           t == SetTx(k, i, index)
<1>1. i \in Ends /\ i \notin Ports /\ i # NoEnd /\ s \in Seq(TCubes) /\ p # i
      /\ NoEnd \notin Ports /\ p \notin Ifaces
  BY NetFields, EndsAssumption DEF Ends
<1>2. top \in Targets /\ index \in Targets
  <2>1. top \in Targets
    <3>1. Stack \in Targets
      BY EndTargets
    <3>2. PICK kind : kind = "out"
      OBVIOUS
    <3>3. AtHighest(s, Places(s, WithEgress), kind, Stack) \in Targets
      BY <1>1, <3>1, <3>2, EntryTargets
    <3> QED BY <3>2, <3>3 DEF TopEntry
  <2> QED BY <2>1, EndTargets, ProgramsAssumption DEF OutEntry
<1>3. /\ chains \in Nets /\ Common(hook, chains)
      /\ chains.cubes = n.cubes /\ chains.link = n.link /\ chains.index = n.index
      /\ chains.port_index = n.port_index /\ chains.fwd = n.fwd /\ chains.tx = n.tx
      /\ chains.out_next = n.out_next /\ chains.out_next_xdp = n.out_next_xdp
      /\ IfaceEntered(chains, i, Inside(n, i))
      /\ Upward(chains.next_out, n.cubes[i], WithEgress, "out",
                IF hook = "xdp" THEN To("netdev", i) ELSE Stack)
      /\ hook = "xdp" => /\ Upward(chains.egress_next_tc, n.cubes[i], WithEgress, "out", Stack)
                         /\ Upward(chains.next_twin, n.cubes[i], WithEgress, "out", Stack)
      /\ \A e \in Ends \ {i} : Same(n, chains, e)
  BY IfaceChainsEffect
<1>4. m = EnterAt(n, t, i, index)
  BY DEF UpdateIface
<1>0. top = TopEntry(n.cubes[i], WithEgress, "out", Stack) /\ index = OutEntry(n, i)
  OBVIOUS
<1> HIDE DEF chains, top, index
<1>5. /\ k \in Nets
      /\ p \in ParentEgress => /\ k.out_next[p] = top
                               /\ hook = "xdp" => k.out_next_xdp[p] = Resolve(top, i)
      /\ \A r \in Ports \ {p} : k.out_next[r] = n.out_next[r] /\ k.out_next_xdp[r] = n.out_next_xdp[r]
      /\ k.cubes = chains.cubes /\ k.link = chains.link /\ k.next_in = chains.next_in
      /\ k.next_out = chains.next_out /\ k.egress_next_tc = chains.egress_next_tc /\ k.next_twin = chains.next_twin
      /\ k.index = chains.index /\ k.port_index = chains.port_index /\ k.fwd = chains.fwd
      /\ k.rx = chains.rx /\ k.tx = chains.tx
  <2>1. CASE p \in ParentEgress
    <3>1. p \in Ports /\ chains.link[p] \in Ends /\ chains.link[p] = i
      BY <1>1, <1>3, <2>1, ProgramsAssumption
    <3>2. k = SetParentNext(chains, p, top)
      BY <2>1
    <3> HIDE DEF k
    <3> QED BY <1>2, <1>3, <3>1, <3>2, ParentNextFields
  <2>2. CASE p \notin ParentEgress
    BY <1>3, <2>2
  <2> QED BY <2>1, <2>2
<1> HIDE DEF k
<1>6. /\ t \in Nets
      /\ t.tx[i] = [next |-> index, port |-> k.link[i]]
      /\ \A j \in Ifaces \ {i} : t.tx[j] = k.tx[j]
      /\ t.cubes = k.cubes /\ t.link = k.link /\ t.next_in = k.next_in
      /\ t.next_out = k.next_out /\ t.egress_next_tc = k.egress_next_tc /\ t.next_twin = k.next_twin
      /\ t.index = k.index /\ t.port_index = k.port_index /\ t.fwd = k.fwd
      /\ t.rx = k.rx /\ t.out_next = k.out_next /\ t.out_next_xdp = k.out_next_xdp
  BY <1>2, <1>5, DeviceFields
<1> HIDE DEF t
<1>7. /\ t.cubes = n.cubes /\ t.link = n.link /\ t.index = n.index
      /\ t.port_index = n.port_index /\ t.fwd = n.fwd
      /\ t.rx = chains.rx /\ t.next_in = chains.next_in
      /\ t.next_out = chains.next_out /\ t.egress_next_tc = chains.egress_next_tc
      /\ t.next_twin = chains.next_twin
      /\ t.tx[i] = [next |-> index, port |-> n.link[i]]
      /\ \A j \in Ifaces \ {i} : t.tx[j] = n.tx[j]
      /\ p \in ParentEgress => /\ t.out_next[p] = top
                               /\ hook = "xdp" => t.out_next_xdp[p] = Resolve(top, i)
      /\ \A r \in Ports \ {p} : t.out_next[r] = n.out_next[r] /\ t.out_next_xdp[r] = n.out_next_xdp[r]
  BY <1>3, <1>5, <1>6
<1>8. Common(hook, t) /\ Disjoint(t)
  BY <1>3, <1>7 DEF Common, Twins, Disjoint
<1>9. IfaceEntered(t, i, Inside(n, i))
  BY <1>3, <1>7 DEF IfaceEntered
<1>10. IfaceOut(hook, t, i, index)
  BY <1>0, <1>3, <1>7 DEF IfaceOut
<1>11. ASSUME NEW e \in Ends \ {i}, e \in Ports \/ n.link[e] = NoEnd \/ n.link[e] # p
       PROVE  Same(n, t, e)
  <2>1. Same(n, chains, e)
    BY <1>3
  <2>2. e \in Ifaces => e \notin Ports /\ e \in Ifaces \ {i}
    BY EndsAssumption
  <2>3. e \in Ifaces /\ n.link[e] \in Ports => n.link[e] \in Ports \ {p}
    BY <1>1, <1>11, <2>2
  <2> QED BY <1>3, <1>7, <2>1, <2>2, <2>3 DEF Same
<1> DEFINE u == IF p # NoEnd /\ n.index[i] # index THEN PortSetNextIndex(t, p, index) ELSE t
<1>12. m = IF hook = "tc" THEN t ELSE [u EXCEPT !.index[i] = index]
  BY <1>4 DEF EnterAt
<1>13. OutEntry(n, i) = index
  BY <1>0
<1>14. CASE hook = "tc"
  <2>1. m = t
    BY <1>12, <1>14
  <2>2. EndChained(hook, m, i)
    <3>1. OutEntry(m, i) = index /\ Inside(m, i) = Inside(n, i)
      BY <1>7, <1>13, <2>1 DEF OutEntry, Inside
    <3>2. IfaceLeft(hook, m, i)
      BY <1>10, <1>14, <2>1, <3>1 DEF IfaceOut, IfaceLeft
    <3> QED BY <1>1, <1>9, <2>1, <3>1, <3>2 DEF EndChained
  <2>3. ASSUME p # NoEnd, EndChained(hook, n, p) PROVE EndChained(hook, m, p)
    <3>1. p \in Ports /\ p \in Ends \ {i}
      BY <1>1, <2>3 DEF Ends
    <3>2. Same(n, m, p)
      BY <1>11, <2>1, <3>1
    <3>3. PortEntered(n, p) /\ PortLeft(n, p, Outside(n, p)) /\ n.link[p] = i
      BY <1>1, <2>3, <3>1 DEF EndChained
    <3>4. Outside(m, p) = Outside(n, p)
      BY <1>7, <2>1 DEF Outside
    <3>5. PortEntered(m, p) /\ PortLeft(m, p, Outside(m, p))
      BY <3>1, <3>2, <3>3, <3>4, SameEnd
    <3> QED BY <3>1, <3>5 DEF EndChained
  <2> QED BY <1>6, <1>7, <1>8, <1>11, <2>1, <2>2, <2>3
<1>15. CASE hook = "xdp"
  <2>1. /\ u \in Nets /\ Common(hook, u)
        /\ u.cubes = n.cubes /\ u.link = n.link /\ u.index = n.index /\ u.port_index = n.port_index
        /\ \A e \in Ends \ {p} : Same(t, u, e)
        /\ p # NoEnd => (PortEntered(t, p) => PortEntered(u, p))
        /\ p # NoEnd => \A x : (x = Resolve(n.index[i], i) /\ PortLeft(t, p, x))
                                 => PortLeft(u, p, Resolve(index, i))
    <3>1. CASE p # NoEnd /\ n.index[i] # index
      <4>1. u = PortSetNextIndex(t, p, index) /\ p \in Ports /\ t.link[p] = i
        BY <1>7, <3>1
      <4> HIDE DEF u
      <4>2. /\ u \in Nets /\ Common(hook, u)
            /\ u.cubes = t.cubes /\ u.link = t.link /\ u.index = t.index
            /\ u.port_index = t.port_index
            /\ PortEntered(t, p) => PortEntered(u, p)
            /\ \A x : PortLeft(t, p, x) => PortLeft(u, p, Resolve(index, t.link[p]))
            /\ \A e \in Ends \ {p} : Same(t, u, e)
        BY <1>2, <1>6, <1>8, <4>1, PortIndexEffect
      <4> QED BY <1>7, <4>1, <4>2
    <3>2. CASE ~ (p # NoEnd /\ n.index[i] # index)
      <4>1. u = t
        BY <3>2
      <4> HIDE DEF u
      <4>2. \A e \in Ends \ {p} : Same(t, u, e)
        BY <4>1 DEF Same
      <4>3. p # NoEnd => n.index[i] = index
        BY <3>2
      <4> QED BY <1>6, <1>7, <1>8, <4>1, <4>2, <4>3
    <3> QED BY <3>1, <3>2
  <2> HIDE DEF u
  <2>2. /\ m \in Nets /\ m.index[i] = index /\ \A j \in Ifaces \ {i} : m.index[j] = n.index[j]
        /\ m.cubes = u.cubes /\ m.link = u.link /\ m.next_in = u.next_in
        /\ m.next_out = u.next_out /\ m.egress_next_tc = u.egress_next_tc /\ m.next_twin = u.next_twin
        /\ m.port_index = u.port_index /\ m.fwd = u.fwd /\ m.rx = u.rx
        /\ m.tx = u.tx /\ m.out_next = u.out_next /\ m.out_next_xdp = u.out_next_xdp
    <3> DEFINE f == [u.index EXCEPT ![i] = index]
    <3>1. m = [u EXCEPT !.index = f]
      BY <1>12, <1>15
    <3>2. u.index \in [Ifaces -> Targets] /\ f \in [Ifaces -> Targets]
      BY <1>2, <2>1 DEF Nets
    <3>3. f[i] = index /\ \A j \in Ifaces \ {i} : f[j] = n.index[j]
      BY <2>1, <3>2
    <3> HIDE DEF f
    <3>4. /\ m \in Nets /\ m.index = f
          /\ m.cubes = u.cubes /\ m.link = u.link /\ m.next_in = u.next_in
          /\ m.next_out = u.next_out /\ m.egress_next_tc = u.egress_next_tc /\ m.next_twin = u.next_twin
          /\ m.port_index = u.port_index /\ m.fwd = u.fwd /\ m.rx = u.rx
          /\ m.tx = u.tx /\ m.out_next = u.out_next /\ m.out_next_xdp = u.out_next_xdp
      BY <2>1, <3>1, <3>2 DEF Nets
    <3> QED BY <3>3, <3>4
  <2>3. Common(hook, m)
    BY <1>15, <2>1, <2>2 DEF Common, Twins
  <2>4. Same(t, u, i)
    BY <1>1, <2>1
  <2>5. EndChained(hook, m, i)
    <3>1. OutEntry(m, i) = index /\ Inside(m, i) = Inside(n, i)
      BY <1>13, <2>1, <2>2 DEF OutEntry, Inside
    <3>2. IfaceOut(hook, u, i, index)
      BY <1>10, <2>4, SameOut
    <3>3. IfaceLeft(hook, m, i)
      BY <2>2, <3>1, <3>2 DEF IfaceOut, IfaceLeft
    <3>4. IfaceEntered(u, i, Inside(n, i))
      BY <1>1, <1>9, <2>4, SameEnd
    <3>5. IfaceEntered(m, i, Inside(n, i))
      BY <2>2, <3>4 DEF IfaceEntered
    <3> QED BY <1>1, <3>1, <3>3, <3>5 DEF EndChained
  <2>6. ASSUME NEW e \in Ends \ {i, p}, n.link[e] = NoEnd \/ n.link[e] # p PROVE Same(n, m, e)
    <3>1. Same(n, t, e) /\ Same(t, u, e)
      BY <1>11, <2>1, <2>6
    <3>2. e \in Ifaces => m.index[e] = n.index[e]
      BY <2>2
    <3> QED BY <2>2, <3>1, <3>2 DEF Same
  <2>7. ASSUME p # NoEnd, EndChained(hook, n, p) PROVE EndChained(hook, m, p)
    <3>1. p \in Ports /\ p \in Ends \ {i}
      BY <1>1, <2>7 DEF Ends
    <3>2. Same(n, t, p)
      BY <1>11, <3>1
    <3>3. PortEntered(n, p) /\ PortLeft(n, p, Outside(n, p)) /\ n.link[p] = i
      BY <1>1, <2>7, <3>1 DEF EndChained
    <3>4. Outside(n, p) = Resolve(n.index[i], i) /\ Outside(m, p) = Resolve(index, i)
      BY <2>1, <2>2, <3>3 DEF Outside
    <3>5. PortEntered(t, p) /\ PortLeft(t, p, Resolve(n.index[i], i))
      BY <3>1, <3>2, <3>3, <3>4, SameEnd
    <3>6. PortEntered(u, p) /\ PortLeft(u, p, Resolve(index, i))
      BY <2>1, <2>7, <3>5
    <3>7. PortEntered(m, p) /\ PortLeft(m, p, Outside(m, p))
      BY <2>2, <3>4, <3>6 DEF PortEntered, PortLeft
    <3> QED BY <3>1, <3>7 DEF EndChained
  <2> QED BY <2>1, <2>2, <2>3, <2>5, <2>6, <2>7
<1> QED BY <1>14, <1>15

-----------------------------------------------------------------------------
(* update_indexes of any end.                                              *)

\* The links that an end needs for its chains to be kept by an update of e: it
\* is linked to e when e is linked to it, and otherwise to neither e nor the
\* peer of e.
Apart(n, e, f) ==
  \/ f = n.link[e] /\ n.link[f] = e
  \/ f # n.link[e] /\ (n.link[f] = NoEnd \/ n.link[f] \notin {e, n.link[e]})

\* The chains of an end that is the same, as is the entry of its peer.
LEMMA SameChained ==
  ASSUME NEW n, NEW m, NEW f \in Ends, n.link[f] \in Ends \cup {NoEnd}, Same(n, m, f),
         n.link[f] \in Ports => m.port_index[n.link[f]] = n.port_index[n.link[f]],
         n.link[f] \in Ifaces => m.index[n.link[f]] = n.index[n.link[f]],
         EndChained(hook, n, f), f \in Ifaces => n.link[f] \notin Ifaces
  PROVE  EndChained(hook, m, f)
<1>1. m.link[f] = n.link[f]
  BY DEF Same
<1>2. CASE f \in Ports
  <2>1. PortEntered(m, f)
    BY <1>2, SameEnd DEF EndChained
  <2>2. ASSUME m.link[f] # NoEnd PROVE PortLeft(m, f, Outside(m, f))
    <3>1. PortLeft(n, f, Outside(n, f))
      BY <1>1, <1>2, <2>2 DEF EndChained
    <3>2. Outside(m, f) = Outside(n, f)
      BY <1>1, <2>2 DEF Outside, Ends
    <3> QED BY <1>2, <3>1, <3>2, SameEnd
  <2> QED BY <1>2, <2>1, <2>2 DEF EndChained
<1>3. CASE f \notin Ports
  <2>1. f \in Ifaces
    BY <1>3 DEF Ends
  <2>2. IfaceEntered(n, f, Inside(n, f)) /\ IfaceLeft(hook, n, f)
    BY <1>3 DEF EndChained
  <2>3. Inside(m, f) = Inside(n, f)
    BY <1>1, <2>1 DEF Inside, Ends
  <2>4. IfaceEntered(m, f, Inside(m, f)) /\ IfaceLeft(hook, m, f)
    BY <2>1, <2>2, <2>3, SameEnd
  <2> QED BY <1>3, <2>4 DEF EndChained
<1> QED BY <1>2, <1>3

\* An update chains the end and keeps the chains of the others.
LEMMA UpdateEffect ==
  ASSUME NEW n \in Nets, Disjoint(n), Common(hook, n), NEW e \in Ends, hook \in {"tc", "xdp"},
         n.link[e] # e,
         e \in Ifaces => n.link[e] = NoEnd \/ (n.link[e] \in Ports /\ n.link[n.link[e]] = e),
         ~ UpdateCrashes(n, e), NEW m, m = Update(n, e)
  PROVE  /\ m \in Nets /\ Common(hook, m)
         /\ m.cubes = n.cubes /\ m.link = n.link
         /\ EndChained(hook, m, e)
         /\ \A f \in Ends \ {e} :
              /\ Apart(n, e, f) /\ EndChained(hook, n, f)
              /\ f \in Ifaces => n.link[f] \notin Ifaces
              => EndChained(hook, m, f)
<1> DEFINE q == n.link[e]
<1>1. q \in Ends \cup {NoEnd} /\ NoEnd \notin Ends
  BY NetFields, EndsAssumption
<1>2. CASE e \in Ports
  <2>1. m = UpdatePort(n, e)
    BY <1>2 DEF Update
  <2>2. /\ m \in Nets /\ Common(hook, m)
        /\ m.cubes = n.cubes /\ m.link = n.link /\ m.index = n.index
        /\ \A r \in Ports \ {e} : m.port_index[r] = n.port_index[r]
        /\ EndChained(hook, m, e)
        /\ \A f \in Ends \ {e, n.link[e]} : Same(n, m, f)
        /\ \A f \in Ends : f = n.link[e] /\ n.link[f] = e /\ EndChained(hook, n, f)
                              => EndChained(hook, m, f)
    BY <1>2, <2>1, UpdatePortEffect
  <2>3. ASSUME NEW f \in Ends \ {e}, Apart(n, e, f), EndChained(hook, n, f),
               f \in Ifaces => n.link[f] \notin Ifaces
        PROVE  EndChained(hook, m, f)
    <3>1. CASE f = q /\ n.link[f] = e
      BY <2>2, <2>3, <3>1
    <3>2. CASE f # q /\ (n.link[f] = NoEnd \/ n.link[f] \notin {e, q})
      <4>1. n.link[f] \in Ends \cup {NoEnd} /\ Same(n, m, f)
        BY <2>2, <3>2, NetFields
      <4>2. n.link[f] \in Ports => n.link[f] \in Ports \ {e}
        BY <1>1, <3>2 DEF Ends
      <4> QED BY <2>2, <2>3, <4>1, <4>2, SameChained
    <3> QED BY <2>3, <3>1, <3>2 DEF Apart
  <2> QED BY <2>2, <2>3
<1>3. CASE e \notin Ports
  <2>0. e \in Ifaces
    BY <1>3 DEF Ends
  <2>1. m = UpdateIface(n, e)
    BY <1>3 DEF Update
  <2>2. /\ m \in Nets /\ Common(hook, m)
        /\ m.cubes = n.cubes /\ m.link = n.link /\ m.port_index = n.port_index
        /\ \A j \in Ifaces \ {e} : m.index[j] = n.index[j]
        /\ EndChained(hook, m, e)
        /\ \A f \in Ends \ {e, n.link[e]} :
             n.link[f] = NoEnd \/ n.link[f] # n.link[e] => Same(n, m, f)
        /\ n.link[e] # NoEnd /\ EndChained(hook, n, n.link[e]) => EndChained(hook, m, n.link[e])
    BY <2>0, <2>1, UpdateIfaceEffect
  <2>3. ASSUME NEW f \in Ends \ {e}, Apart(n, e, f), EndChained(hook, n, f),
               f \in Ifaces => n.link[f] \notin Ifaces
        PROVE  EndChained(hook, m, f)
    <3>1. CASE f = q /\ n.link[f] = e
      BY <1>1, <2>2, <2>3, <3>1
    <3>2. CASE f # q /\ (n.link[f] = NoEnd \/ n.link[f] \notin {e, q})
      <4>1. n.link[f] \in Ends \cup {NoEnd} /\ Same(n, m, f)
        BY <2>2, <3>2, NetFields
      <4>2. n.link[f] \in Ifaces => n.link[f] \in Ifaces \ {e}
        BY <1>1, <3>2 DEF Ends
      <4> QED BY <2>2, <2>3, <4>1, <4>2, SameChained
    <3> QED BY <2>3, <3>1, <3>2 DEF Apart
  <2> QED BY <2>2, <2>3
<1> QED BY <1>2, <1>3

\* In a network with mutual links every other end is apart, and an update of
\* an end whose chains are not right makes all chains right.
LEMMA UpdateChains ==
  ASSUME NEW n \in Nets, Disjoint(n), Linked(n), NEW e \in Ends, hook \in {"tc", "xdp"},
         ChainedBut(hook, n, {e}), ~ UpdateCrashes(n, e), NEW m, m = Update(n, e)
  PROVE  /\ m \in Nets /\ m.cubes = n.cubes /\ m.link = n.link
         /\ ChainedBut(hook, m, {})
<1>1. Common(hook, n) /\ \A f \in Ends \ {e} : EndChained(hook, n, f)
  BY DEF ChainedBut
<1>2. \A f \in Ends : n.link[f] \in Ends \cup {NoEnd}
  BY NetFields
<1>3. /\ n.link[e] # e
      /\ e \in Ifaces => n.link[e] = NoEnd \/ (n.link[e] \in Ports /\ n.link[n.link[e]] = e)
      /\ \A f \in Ends : f \in Ifaces => n.link[f] \notin Ifaces
  BY EndsAssumption DEF Linked, Ends
<1>4. ASSUME NEW f \in Ends \ {e} PROVE Apart(n, e, f)
  <2>1. CASE f = n.link[e]
    BY <2>1, EndsAssumption DEF Apart, Linked
  <2>2. CASE f # n.link[e]
    <3>1. n.link[f] # e
      BY <2>2, EndsAssumption DEF Linked
    <3>2. n.link[f] = NoEnd \/ n.link[f] # n.link[e]
      BY <1>2 DEF Linked
    <3> QED BY <2>2, <3>1, <3>2 DEF Apart
  <2> QED BY <2>1, <2>2
<1>5. /\ m \in Nets /\ Common(hook, m)
      /\ m.cubes = n.cubes /\ m.link = n.link
      /\ EndChained(hook, m, e)
      /\ \A f \in Ends \ {e} :
           /\ Apart(n, e, f) /\ EndChained(hook, n, f)
           /\ f \in Ifaces => n.link[f] \notin Ifaces
           => EndChained(hook, m, f)
  BY <1>1, <1>3, UpdateEffect
<1>6. \A f \in Ends : EndChained(hook, m, f)
  BY <1>1, <1>3, <1>4, <1>5
<1> QED BY <1>5, <1>6 DEF ChainedBut

-----------------------------------------------------------------------------
(* Lists of cubes.                                                         *)

\* vector::insert of a new cube.
LEMMA InsertedCubes ==
  ASSUME NEW s \in Seq(TCubes), Once(s), NEW c \in TCubes, c \notin Of(s),
         NEW i \in Nat, i <= Len(s), NEW r, r = Inserted(s, i, c)
  PROVE  r \in Seq(TCubes) /\ Once(r) /\ Of(r) = Of(s) \cup {c}
<1> DEFINE N == Len(s)
           a == SubSeq(s, 1, i)
           b == SubSeq(s, i + 1, N)
           one == <<c>>
<1>1. N \in Nat /\ DOMAIN s = 1 .. N /\ \A k \in 1 .. N : s[k] \in TCubes
  BY LenProperties, ElementOfSeq
<1>2. a \in Seq(TCubes) /\ Len(a) = i /\ \A k \in 1 .. i : a[k] = s[k]
  <2>1. \A k \in 1 .. i : s[k] \in TCubes
    BY <1>1
  <2>2. /\ a \in Seq(TCubes) /\ Len(a) = IF 1 <= i THEN i - 1 + 1 ELSE 0
        /\ \A k \in 1 .. i - 1 + 1 : a[k] = s[1 + k - 1]
    BY <2>1, SubSeqProperties
  <2> HIDE DEF a
  <2> QED BY <2>2
<1>3. b \in Seq(TCubes) /\ Len(b) = N - i /\ \A k \in 1 .. N - i : b[k] = s[k + i]
  <2>1. \A k \in i + 1 .. N : s[k] \in TCubes
    BY <1>1
  <2>2. /\ b \in Seq(TCubes) /\ Len(b) = IF i + 1 <= N THEN N - (i + 1) + 1 ELSE 0
        /\ \A k \in 1 .. N - (i + 1) + 1 : b[k] = s[i + 1 + k - 1]
    <3> HIDE DEF N
    <3>1. i + 1 \in Int /\ N \in Int
      BY <1>1
    <3> QED BY <2>1, <3>1, SubSeqProperties
  <2> HIDE DEF b, N
  <2> QED BY <1>1, <2>2
<1>4. one \in Seq(TCubes) /\ Len(one) = 1 /\ one[1] = c
  OBVIOUS
<1>5. r = (a \o one) \o b
  BY DEF Inserted
<1> HIDE DEF a, b, one
<1>6. /\ a \o one \in Seq(TCubes) /\ Len(a \o one) = i + 1
      /\ \A k \in 1 .. i + 1 : (a \o one)[k] = IF k <= i THEN s[k] ELSE c
  <2>1. /\ a \o one \in Seq(TCubes) /\ Len(a \o one) = Len(a) + Len(one)
        /\ \A k \in 1 .. Len(a) + Len(one) :
             (a \o one)[k] = IF k <= Len(a) THEN a[k] ELSE one[k - Len(a)]
    BY <1>2, <1>4, ConcatProperties
  <2>2. ASSUME NEW k \in 1 .. i + 1 PROVE (a \o one)[k] = IF k <= i THEN s[k] ELSE c
    <3>1. CASE k <= i
      BY <1>2, <1>4, <2>1, <3>1
    <3>2. CASE ~(k <= i)
      <4>1. k = i + 1 /\ k - i = 1
        BY <3>2
      <4> QED BY <1>2, <1>4, <2>1, <4>1
    <3> QED BY <3>1, <3>2
  <2> QED BY <1>2, <1>4, <2>1, <2>2
<1>7. /\ r \in Seq(TCubes) /\ Len(r) = N + 1 /\ DOMAIN r = 1 .. N + 1
      /\ \A k \in 1 .. i : r[k] = s[k]
      /\ r[i + 1] = c
      /\ \A k \in i + 2 .. N + 1 : r[k] = s[k - 1]
  <2> DEFINE x == a \o one
  <2>1. x \in Seq(TCubes) /\ Len(x) = i + 1
    BY <1>6
  <2>2. \A k \in 1 .. i + 1 : x[k] = IF k <= i THEN s[k] ELSE c
    BY <1>6
  <2>3. r = x \o b
    BY <1>5
  <2> HIDE DEF x
  <2>4. /\ r \in Seq(TCubes) /\ Len(r) = Len(x) + Len(b)
        /\ \A k \in 1 .. Len(x) + Len(b) :
             r[k] = IF k <= Len(x) THEN x[k] ELSE b[k - Len(x)]
    <3>1. /\ x \o b \in Seq(TCubes) /\ Len(x \o b) = Len(x) + Len(b)
          /\ \A k \in 1 .. Len(x) + Len(b) :
               (x \o b)[k] = IF k <= Len(x) THEN x[k] ELSE b[k - Len(x)]
      BY <1>3, <2>1, ConcatProperties
    <3> QED BY <2>3, <3>1
  <2> HIDE DEF N
  <2>5. Len(x) + Len(b) = N + 1
    BY <1>1, <1>3, <2>1
  <2>6. \A k \in 1 .. i : r[k] = s[k]
    <3> TAKE k \in 1 .. i
    <3>1. k \in 1 .. N + 1 /\ k <= i + 1 /\ k \in 1 .. i + 1
      BY <1>1 DEF N
    <3> QED BY <2>1, <2>2, <2>4, <2>5, <3>1
  <2>7. r[i + 1] = c
    <3>1. i + 1 \in 1 .. N + 1 /\ ~(i + 1 <= i)
      BY <1>1 DEF N
    <3> QED BY <2>1, <2>2, <2>4, <2>5, <3>1
  <2>8. ASSUME NEW k \in i + 2 .. N + 1 PROVE r[k] = s[k - 1]
    <3>1. /\ k \in 1 .. N + 1 /\ ~(k <= i + 1) /\ k - (i + 1) \in 1 .. N - i
          /\ (k - (i + 1)) + i = k - 1
      BY <1>1
    <3>2. r[k] = b[k - (i + 1)]
      BY <2>1, <2>4, <2>5, <3>1
    <3> QED BY <1>3, <3>1, <3>2
  <2>9. DOMAIN r = 1 .. N + 1
    BY <2>4, <2>5, LenProperties
  <2> QED BY <2>4, <2>5, <2>6, <2>7, <2>8, <2>9
<1>8. \A k \in DOMAIN r : \/ k = i + 1 /\ r[k] = c
                          \/ k < i + 1 /\ k \in DOMAIN s /\ r[k] = s[k]
                          \/ k > i + 1 /\ k - 1 \in DOMAIN s /\ r[k] = s[k - 1]
  <2> SUFFICES ASSUME NEW k \in DOMAIN r
               PROVE  \/ k = i + 1 /\ r[k] = c
                      \/ k < i + 1 /\ k \in DOMAIN s /\ r[k] = s[k]
                      \/ k > i + 1 /\ k - 1 \in DOMAIN s /\ r[k] = s[k - 1]
    OBVIOUS
  <2> HIDE DEF N
  <2>1. k \in 1 .. N + 1 /\ i <= N
    BY <1>7 DEF N
  <2>2. CASE k = i + 1
    BY <1>7, <2>2
  <2>3. CASE k < i + 1
    <3>1. k \in 1 .. i /\ k \in 1 .. N
      BY <1>1, <2>1, <2>3
    <3> QED BY <1>1, <1>7, <2>3, <3>1
  <2>4. CASE k > i + 1
    <3>1. k \in i + 2 .. N + 1 /\ k - 1 \in 1 .. N
      BY <1>1, <2>1, <2>4
    <3> QED BY <1>1, <1>7, <2>4, <3>1
  <2> QED BY <1>1, <2>1, <2>2, <2>3, <2>4
<1>9. Once(r)
  <2> SUFFICES ASSUME NEW k \in DOMAIN r, NEW j \in DOMAIN r, r[k] = r[j] PROVE k = j
    BY DEF Once
  <2>1. \A x \in DOMAIN s : s[x] # c
    BY DEF Of
  <2>2. \A x, y \in DOMAIN s : s[x] = s[y] => x = y
    BY DEF Once
  <2>3. k \in Int /\ j \in Int
    BY <1>1, <1>7
  <2> HIDE DEF N
  <2>4. CASE k = i + 1 \/ j = i + 1
    BY <1>8, <2>1, <2>3, <2>4
  <2>5. CASE k < i + 1 /\ j < i + 1
    BY <1>8, <2>2, <2>3, <2>5
  <2>6. CASE k > i + 1 /\ j > i + 1
    <3>1. k - 1 \in DOMAIN s /\ j - 1 \in DOMAIN s /\ s[k - 1] = s[j - 1]
      BY <1>8, <2>3, <2>6
    <3>2. k - 1 = j - 1
      BY <2>2, <3>1
    <3> QED BY <2>3, <3>2
  <2>7. CASE k < i + 1 /\ j > i + 1
    <3>1. k \in DOMAIN s /\ j - 1 \in DOMAIN s /\ s[k] = s[j - 1]
      BY <1>8, <2>3, <2>7
    <3>2. k = j - 1
      BY <2>2, <3>1
    <3> QED BY <2>3, <2>7, <3>2
  <2>8. CASE k > i + 1 /\ j < i + 1
    <3>1. k - 1 \in DOMAIN s /\ j \in DOMAIN s /\ s[k - 1] = s[j]
      BY <1>8, <2>3, <2>8
    <3>2. k - 1 = j
      BY <2>2, <3>1
    <3> QED BY <2>3, <2>8, <3>2
  <2> QED BY <2>3, <2>4, <2>5, <2>6, <2>7, <2>8
<1>10. ASSUME NEW x \in Of(s) PROVE x \in Of(r)
  <2>1. PICK k \in DOMAIN s : s[k] = x
    BY DEF Of
  <2> HIDE DEF N
  <2>2. CASE k <= i
    <3>1. k \in 1 .. i /\ k \in DOMAIN r
      BY <1>1, <1>7, <2>1, <2>2
    <3> QED BY <1>7, <2>1, <3>1 DEF Of
  <2>3. CASE ~(k <= i)
    <3>1. k + 1 \in i + 2 .. N + 1 /\ k + 1 \in DOMAIN r /\ (k + 1) - 1 = k
      BY <1>1, <1>7, <2>1, <2>3
    <3>2. r[k + 1] = x
      BY <1>7, <2>1, <3>1
    <3> QED BY <3>1, <3>2 DEF Of
  <2> QED BY <2>2, <2>3
<1>11. c \in Of(r)
  <2>1. i + 1 \in DOMAIN r
    BY <1>1, <1>7
  <2> QED BY <1>7, <2>1 DEF Of
<1>12. Of(r) \subseteq Of(s) \cup {c}
  BY <1>8 DEF Of
<1> QED BY <1>7, <1>9, <1>10, <1>11, <1>12

\* vector::erase of a cube.
LEMMA WithoutCubes ==
  ASSUME NEW s \in Seq(TCubes), Once(s), NEW c \in Of(s), NEW r, r = Without(s, c)
  PROVE  r \in Seq(TCubes) /\ Once(r) /\ Of(r) = Of(s) \ {c}
<1> DEFINE N == Len(s)
           i == CHOOSE k \in DOMAIN s : s[k] = c
           a == SubSeq(s, 1, i - 1)
           b == SubSeq(s, i + 1, N)
<1>1. N \in Nat /\ DOMAIN s = 1 .. N /\ \A k \in 1 .. N : s[k] \in TCubes
  BY LenProperties, ElementOfSeq
<1>0. i \in 1 .. N /\ s[i] = c
  <2>1. \E k \in DOMAIN s : s[k] = c
    BY DEF Of
  <2> QED BY <1>1, <2>1
<1>4. r = a \o b
  BY DEF Without
<1> HIDE DEF i
<1>2. a \in Seq(TCubes) /\ Len(a) = i - 1 /\ \A k \in 1 .. i - 1 : a[k] = s[k]
  <2> HIDE DEF N
  <2>1. \A k \in 1 .. i - 1 : s[k] \in TCubes
    BY <1>0, <1>1
  <2>0. i - 1 \in Int /\ 1 \in Int /\ i \in Nat /\ i >= 1
    BY <1>0, <1>1
  <2>2. /\ a \in Seq(TCubes) /\ Len(a) = IF 1 <= i - 1 THEN (i - 1) - 1 + 1 ELSE 0
        /\ \A k \in 1 .. (i - 1) - 1 + 1 : a[k] = s[1 + k - 1]
    BY <2>0, <2>1, SubSeqProperties
  <2> HIDE DEF a
  <2> QED BY <2>0, <2>2
<1>3. b \in Seq(TCubes) /\ Len(b) = N - i /\ \A k \in 1 .. N - i : b[k] = s[k + i]
  <2>1. \A k \in i + 1 .. N : s[k] \in TCubes
    BY <1>0, <1>1
  <2>2. /\ b \in Seq(TCubes) /\ Len(b) = IF i + 1 <= N THEN N - (i + 1) + 1 ELSE 0
        /\ \A k \in 1 .. N - (i + 1) + 1 : b[k] = s[i + 1 + k - 1]
    <3> HIDE DEF N
    <3>1. i + 1 \in Int /\ N \in Int
      BY <1>0, <1>1
    <3> QED BY <2>1, <3>1, SubSeqProperties
  <2> HIDE DEF b, N
  <2> QED BY <1>0, <1>1, <2>2
<1> HIDE DEF a, b
<1>7. /\ r \in Seq(TCubes) /\ Len(r) = N - 1 /\ DOMAIN r = 1 .. N - 1
      /\ \A k \in 1 .. i - 1 : r[k] = s[k]
      /\ \A k \in i .. N - 1 : r[k] = s[k + 1]
  <2>4. /\ r \in Seq(TCubes) /\ Len(r) = Len(a) + Len(b)
        /\ \A k \in 1 .. Len(a) + Len(b) :
             r[k] = IF k <= Len(a) THEN a[k] ELSE b[k - Len(a)]
    <3>1. /\ a \o b \in Seq(TCubes) /\ Len(a \o b) = Len(a) + Len(b)
          /\ \A k \in 1 .. Len(a) + Len(b) :
               (a \o b)[k] = IF k <= Len(a) THEN a[k] ELSE b[k - Len(a)]
      BY <1>2, <1>3, ConcatProperties
    <3> QED BY <1>4, <3>1
  <2> HIDE DEF N
  <2>5. Len(a) + Len(b) = N - 1 /\ i \in Nat
    BY <1>0, <1>1, <1>2, <1>3
  <2>6. \A k \in 1 .. i - 1 : r[k] = s[k]
    <3> TAKE k \in 1 .. i - 1
    <3>1. k \in 1 .. N - 1 /\ k <= i - 1
      BY <1>0, <1>1
    <3> QED BY <1>2, <2>4, <2>5, <3>1
  <2>8. ASSUME NEW k \in i .. N - 1 PROVE r[k] = s[k + 1]
    <3>1. /\ k \in 1 .. N - 1 /\ ~(k <= i - 1) /\ k - (i - 1) \in 1 .. N - i
          /\ (k - (i - 1)) + i = k + 1
      BY <1>0, <1>1
    <3>2. r[k] = b[k - (i - 1)]
      BY <1>2, <2>4, <2>5, <3>1
    <3> QED BY <1>3, <3>1, <3>2
  <2>9. DOMAIN r = 1 .. N - 1
    BY <2>4, <2>5, LenProperties
  <2> QED BY <2>4, <2>5, <2>6, <2>8, <2>9
<1> HIDE DEF N
<1>8. \A k \in DOMAIN r : \/ k < i /\ k \in DOMAIN s /\ r[k] = s[k]
                          \/ k >= i /\ k + 1 \in DOMAIN s /\ r[k] = s[k + 1]
  <2> SUFFICES ASSUME NEW k \in DOMAIN r
               PROVE  \/ k < i /\ k \in DOMAIN s /\ r[k] = s[k]
                      \/ k >= i /\ k + 1 \in DOMAIN s /\ r[k] = s[k + 1]
    OBVIOUS
  <2>1. k \in 1 .. N - 1 /\ i \in 1 .. N
    BY <1>0, <1>7
  <2>3. CASE k < i
    <3>1. k \in 1 .. i - 1 /\ k \in 1 .. N
      BY <1>1, <2>1, <2>3
    <3> QED BY <1>1, <1>7, <2>3, <3>1
  <2>4. CASE ~(k < i)
    <3>1. k \in i .. N - 1 /\ k + 1 \in 1 .. N /\ k >= i
      BY <1>1, <2>1, <2>4
    <3> QED BY <1>1, <1>7, <3>1
  <2> QED BY <2>3, <2>4
<1>i. i \in Int /\ DOMAIN s \subseteq Int /\ DOMAIN r \subseteq Int
  BY <1>0, <1>1, <1>7
<1>9. Once(r)
  <2> SUFFICES ASSUME NEW k \in DOMAIN r, NEW j \in DOMAIN r, r[k] = r[j] PROVE k = j
    BY DEF Once
  <2>2. \A x, y \in DOMAIN s : s[x] = s[y] => x = y
    BY DEF Once
  <2>3. k \in Int /\ j \in Int
    BY <1>i
  <2>5. CASE k < i /\ j < i
    BY <1>8, <1>i, <2>2, <2>3, <2>5
  <2>6. CASE ~(k < i) /\ ~(j < i)
    <3>1. k + 1 \in DOMAIN s /\ j + 1 \in DOMAIN s /\ s[k + 1] = s[j + 1]
      BY <1>8, <1>i, <2>3, <2>6
    <3>2. k + 1 = j + 1
      BY <2>2, <3>1
    <3> QED BY <2>3, <3>2
  <2>7. CASE k < i /\ ~(j < i)
    <3>1. k \in DOMAIN s /\ j + 1 \in DOMAIN s /\ s[k] = s[j + 1]
      BY <1>8, <1>i, <2>3, <2>7
    <3>2. k = j + 1
      BY <2>2, <3>1
    <3> QED BY <1>i, <2>3, <2>7, <3>2
  <2>8. CASE ~(k < i) /\ j < i
    <3>1. k + 1 \in DOMAIN s /\ j \in DOMAIN s /\ s[k + 1] = s[j]
      BY <1>8, <1>i, <2>3, <2>8
    <3>2. k + 1 = j
      BY <2>2, <3>1
    <3> QED BY <1>i, <2>3, <2>8, <3>2
  <2> QED BY <2>5, <2>6, <2>7, <2>8
<1>10. ASSUME NEW x \in Of(s), x # c PROVE x \in Of(r)
  <2>1. PICK k \in DOMAIN s : s[k] = x
    BY DEF Of
  <2>0. k # i /\ k \in 1 .. N
    BY <1>0, <1>1, <1>10, <2>1
  <2>2. CASE k < i
    <3>1. k \in 1 .. i - 1 /\ k \in DOMAIN r
      BY <1>0, <1>1, <1>7, <2>0, <2>2
    <3> QED BY <1>7, <2>1, <3>1 DEF Of
  <2>3. CASE ~(k < i)
    <3>1. k - 1 \in i .. N - 1 /\ k - 1 \in DOMAIN r /\ (k - 1) + 1 = k
      BY <1>0, <1>1, <1>7, <2>0, <2>3
    <3>2. r[k - 1] = x
      BY <1>7, <2>1, <3>1
    <3> QED BY <3>1, <3>2 DEF Of
  <2> QED BY <2>2, <2>3
<1>11. c \notin Of(r)
  <2>1. ASSUME NEW k \in DOMAIN r PROVE r[k] # c
    <3>1. \A x \in DOMAIN s : s[x] = c => x = i
      BY <1>0, <1>1 DEF Once
    <3>2. k \in Int
      BY <1>i
    <3>3. CASE k < i
      BY <1>8, <1>i, <3>1, <3>2, <3>3
    <3>4. CASE ~(k < i)
      <4>1. k + 1 \in DOMAIN s /\ r[k] = s[k + 1] /\ k + 1 # i
        BY <1>8, <1>i, <3>2, <3>4
      <4> QED BY <3>1, <4>1
    <3> QED BY <3>3, <3>4
  <2> QED BY <2>1 DEF Of
<1>12. Of(r) \subseteq Of(s)
  BY <1>8 DEF Of
<1> QED BY <1>7, <1>9, <1>10, <1>11, <1>12

\* Every position is at or behind the start of the list.
LEMMA IndexesType ==
  ASSUME NEW s \in Seq(TCubes), NEW c, NEW position \in {"auto", "first", "last", "before", "after"},
         NEW other, NEW i \in Indexes(c, s, position, other)
  PROVE  i \in Nat
<1>1. Len(s) \in Nat /\ DOMAIN s = 1 .. Len(s)
  BY LenProperties
<1>2. OtherIndex(s, other) \in Nat
  <2>1. CASE \E k \in DOMAIN s : s[k] = other
    <3> DEFINE k0 == CHOOSE k \in DOMAIN s : s[k] = other
    <3>1. k0 \in 1 .. Len(s)
      BY <1>1, <2>1
    <3>2. OtherIndex(s, other) = k0 - 1
      BY <2>1 DEF OtherIndex
    <3> HIDE DEF k0
    <3> QED BY <1>1, <3>1, <3>2
  <2>2. CASE ~ \E k \in DOMAIN s : s[k] = other
    BY <1>1, <2>2 DEF OtherIndex
  <2> QED BY <2>1, <2>2
<1>3. CASE position = "auto"
  <2> DEFINE after == {k \in DOMAIN s : ComparePosition(c, s[k]) = "after"}
  <2>1. i = IF after = {} THEN 0 ELSE Highest(after)
    BY <1>3 DEF Indexes, AutoIndexes
  <2>2. after \in SUBSET (1 .. Len(s))
    BY <1>1
  <2> HIDE DEF after
  <2>3. after # {} => Highest(after) \in after
    BY <1>1, <2>2, HighestPlace
  <2>4. after # {} => Highest(after) \in Nat
    <3>1. after \subseteq Nat
      BY <2>2
    <3> QED BY <2>3, <3>1
  <2> QED BY <2>1, <2>4
<1>4. CASE position = "first"
  BY <1>4 DEF Indexes
<1>5. CASE position = "last"
  BY <1>1, <1>5 DEF Indexes
<1>6. CASE position = "before"
  <2>1. i = OtherIndex(s, other)
    BY <1>6 DEF Indexes
  <2> QED BY <1>2, <2>1
<1>7. CASE position = "after"
  <2>1. i = OtherIndex(s, other) + 1
    BY <1>7 DEF Indexes
  <2> QED BY <1>2, <2>1
<1> QED BY <1>3, <1>4, <1>5, <1>6, <1>7

-----------------------------------------------------------------------------
(* Every call keeps the network in order.                                  *)

\* A network whose lists are those of par and whose chains are right.
Settled(n, par) ==
  /\ n \in Nets
  /\ Disjoint(n) /\ Linked(n) /\ Lists(n, par)
  /\ ChainedBut(hook, n, {})

\* A list of cubes is replaced.
WithCubes(n, e, s) == [n EXCEPT !.cubes[e] = s]

\* The other lists and fields are kept.
LEMMA CubesFields ==
  ASSUME NEW n \in Nets, NEW e \in Ends, NEW s \in Seq(TCubes),
         NEW m, m = WithCubes(n, e, s)
  PROVE  /\ m \in Nets
         /\ m.cubes[e] = s /\ \A f \in Ends \ {e} : m.cubes[f] = n.cubes[f]
         /\ m.link = n.link /\ m.next_in = n.next_in
         /\ m.next_out = n.next_out /\ m.egress_next_tc = n.egress_next_tc /\ m.next_twin = n.next_twin
         /\ m.index = n.index /\ m.port_index = n.port_index /\ m.fwd = n.fwd /\ m.rx = n.rx
         /\ m.tx = n.tx /\ m.out_next = n.out_next /\ m.out_next_xdp = n.out_next_xdp
<1> DEFINE f == [n.cubes EXCEPT ![e] = s]
<1>1. m = [n EXCEPT !.cubes = f]
  BY DEF WithCubes
<1>2. n.cubes \in [Ends -> Seq(TCubes)] /\ f \in [Ends -> Seq(TCubes)]
  BY DEF Nets
<1>3. f[e] = s /\ \A x \in Ends \ {e} : f[x] = n.cubes[x]
  BY <1>2
<1> HIDE DEF f
<1>4. /\ m \in Nets /\ m.cubes = f
      /\ m.link = n.link /\ m.next_in = n.next_in
      /\ m.next_out = n.next_out /\ m.egress_next_tc = n.egress_next_tc /\ m.next_twin = n.next_twin
      /\ m.index = n.index /\ m.port_index = n.port_index /\ m.fwd = n.fwd /\ m.rx = n.rx
      /\ m.tx = n.tx /\ m.out_next = n.out_next /\ m.out_next_xdp = n.out_next_xdp
  BY <1>1, <1>2 DEF Nets
<1> QED BY <1>3, <1>4

\* A link is replaced.
LEMMA LinkFields ==
  ASSUME NEW n \in Nets, NEW e \in Ends, NEW f \in Ends \cup {NoEnd},
         NEW m, m = [n EXCEPT !.link[e] = f]
  PROVE  /\ m \in Nets
         /\ m.link[e] = f /\ \A g \in Ends \ {e} : m.link[g] = n.link[g]
         /\ m.cubes = n.cubes /\ m.next_in = n.next_in
         /\ m.next_out = n.next_out /\ m.egress_next_tc = n.egress_next_tc /\ m.next_twin = n.next_twin
         /\ m.index = n.index /\ m.port_index = n.port_index /\ m.fwd = n.fwd /\ m.rx = n.rx
         /\ m.tx = n.tx /\ m.out_next = n.out_next /\ m.out_next_xdp = n.out_next_xdp
<1> DEFINE l == [n.link EXCEPT ![e] = f]
<1>1. m = [n EXCEPT !.link = l]
  OBVIOUS
<1>2. n.link \in [Ends -> Ends \cup {NoEnd}] /\ l \in [Ends -> Ends \cup {NoEnd}]
  BY DEF Nets
<1>3. l[e] = f /\ \A g \in Ends \ {e} : l[g] = n.link[g]
  BY <1>2
<1> HIDE DEF l
<1>4. /\ m \in Nets /\ m.link = l
      /\ m.cubes = n.cubes /\ m.next_in = n.next_in
      /\ m.next_out = n.next_out /\ m.egress_next_tc = n.egress_next_tc /\ m.next_twin = n.next_twin
      /\ m.index = n.index /\ m.port_index = n.port_index /\ m.fwd = n.fwd /\ m.rx = n.rx
      /\ m.tx = n.tx /\ m.out_next = n.out_next /\ m.out_next_xdp = n.out_next_xdp
  BY <1>1, <1>2 DEF Nets
<1> QED BY <1>3, <1>4

\* Interfaces are linked to ports only.
LEMMA PortOfIface ==
  ASSUME NEW n \in Nets, Linked(n), NEW e \in Ends
  PROVE  /\ n.link[e] \in Ends \cup {NoEnd} /\ n.link[e] # e
         /\ e \in Ifaces => n.link[e] \notin Ifaces
BY NetFields, EndsAssumption DEF Linked, Ends

\* The lists stay disjoint as long as they are those of the parents.
LEMMA ListsDisjoint ==
  ASSUME NEW n \in Nets, NEW par, Lists(n, par), \A e \in Ends : Once(n.cubes[e])
  PROVE  Disjoint(n)
<1>1. \A e \in Ends : Of(n.cubes[e]) \subseteq TCubes
  <2> TAKE e \in Ends
  <2>1. n.cubes[e] \in Seq(TCubes)
    BY NetFields
  <2> QED BY <2>1, ElementOfSeq, LenProperties DEF Of
<1>2. ASSUME NEW e \in Ends, NEW f \in Ends, e # f, NEW c \in Of(n.cubes[e]), c \in Of(n.cubes[f])
      PROVE  FALSE
  BY <1>1, <1>2 DEF Lists
<1> QED BY <1>2 DEF Disjoint

\* A changed list of cubes with the relinking that follows.
LEMMA CubesChange ==
  ASSUME hook \in {"tc", "xdp"}, NEW old, NEW parents, Settled(net, old), NEW e \in Ends,
         NEW s \in Seq(TCubes), Once(s),
         \A c \in TCubes : c \in Of(s) <=> parents[c] = e,
         \A c \in TCubes, f \in Ends \ {e} : parents[c] = f <=> old[c] = f,
         ~ UpdateCrashes([net EXCEPT !.cubes[e] = s], e)
  PROVE  Settled(Update([net EXCEPT !.cubes[e] = s], e), parents)
<1> DEFINE n == [net EXCEPT !.cubes[e] = s]
           m == Update(n, e)
<1>1. /\ net \in Nets /\ Disjoint(net) /\ Linked(net) /\ Lists(net, old)
      /\ ChainedBut(hook, net, {})
  BY DEF Settled
<1>2. /\ n \in Nets
      /\ n.cubes[e] = s /\ \A f \in Ends \ {e} : n.cubes[f] = net.cubes[f]
      /\ n.link = net.link /\ n.next_in = net.next_in
      /\ n.next_out = net.next_out /\ n.egress_next_tc = net.egress_next_tc /\ n.next_twin = net.next_twin
      /\ n.index = net.index /\ n.port_index = net.port_index /\ n.fwd = net.fwd /\ n.rx = net.rx
      /\ n.tx = net.tx /\ n.out_next = net.out_next /\ n.out_next_xdp = net.out_next_xdp
  <2>1. n = WithCubes(net, e, s)
    BY DEF WithCubes
  <2> HIDE DEF n
  <2> QED BY <1>1, <2>1, CubesFields
<1>c. ~ UpdateCrashes(n, e)
  OBVIOUS
<1> HIDE DEF n
<1>3. Lists(n, parents)
  <2>1. ASSUME NEW c \in TCubes, NEW f \in Ends PROVE c \in Of(n.cubes[f]) <=> parents[c] = f
    <3>1. CASE f = e
      BY <1>2, <3>1
    <3>2. CASE f # e
      BY <1>1, <1>2, <3>2 DEF Lists
    <3> QED BY <3>1, <3>2
  <2> QED BY <2>1 DEF Lists
<1>4. Disjoint(n)
  <2>1. \A f \in Ends : Once(n.cubes[f])
    BY <1>1, <1>2 DEF Disjoint
  <2> QED BY <1>2, <1>3, <2>1, ListsDisjoint
<1>5. Linked(n)
  BY <1>1, <1>2 DEF Linked
<1>6. ChainedBut(hook, n, {e})
  <2>1. Common(hook, n)
    BY <1>1, <1>2 DEF ChainedBut, Common, Twins
  <2>2. ASSUME NEW f \in Ends \ {e} PROVE EndChained(hook, n, f)
    <3>1. EndChained(hook, net, f)
      BY <1>1 DEF ChainedBut
    <3>2. Same(net, n, f)
      BY <1>2 DEF Same
    <3>3. net.link[f] \in Ends \cup {NoEnd} /\ (f \in Ifaces => net.link[f] \notin Ifaces)
      BY <1>1, PortOfIface
    <3> QED BY <1>2, <3>1, <3>2, <3>3, SameChained
  <2> QED BY <2>1, <2>2 DEF ChainedBut
<1>7. m \in Nets /\ m.cubes = n.cubes /\ m.link = n.link /\ ChainedBut(hook, m, {})
  BY <1>2, <1>4, <1>5, <1>6, <1>c, UpdateChains
<1> HIDE DEF m
<1>8. Disjoint(m) /\ Linked(m) /\ Lists(m, parents)
  BY <1>3, <1>4, <1>5, <1>7 DEF Disjoint, Linked, Lists
<1> QED BY <1>7, <1>8 DEF Settled, m, n

\* The two calls of set_peer_iface of a connect: a link between two ends
\* that have none.
LEMMA LinkMade ==
  ASSUME hook \in {"tc", "xdp"}, Settled(net, parent), NEW p \in Ports, NEW e \in Ends, p # e,
         net.link[p] = NoEnd, net.link[e] = NoEnd, ~ SetPeerCrashes(net, p, e)
  PROVE  Settled(SetPeerIface(SetPeerIface(net, p, e), e, p), parent)
<1> DEFINE n1 == [net EXCEPT !.link[p] = e]
           m1 == Update(n1, p)
           n2 == [m1 EXCEPT !.link[e] = p]
           m2 == Update(n2, e)
<1>1. /\ net \in Nets /\ Disjoint(net) /\ Linked(net) /\ Lists(net, parent)
      /\ ChainedBut(hook, net, {})
      /\ p \in Ends /\ p \notin Ifaces /\ NoEnd \notin Ends
  BY EndsAssumption DEF Settled, Ends
<1>2. /\ n1 \in Nets
      /\ n1.link[p] = e /\ \A g \in Ends \ {p} : n1.link[g] = net.link[g]
      /\ n1.cubes = net.cubes /\ n1.next_in = net.next_in
      /\ n1.next_out = net.next_out /\ n1.egress_next_tc = net.egress_next_tc /\ n1.next_twin = net.next_twin
      /\ n1.index = net.index /\ n1.port_index = net.port_index /\ n1.fwd = net.fwd /\ n1.rx = net.rx
      /\ n1.tx = net.tx /\ n1.out_next = net.out_next /\ n1.out_next_xdp = net.out_next_xdp
  BY <1>1, LinkFields
<1>3. ~ UpdateCrashes(n1, p)
  BY DEF SetPeerCrashes
<1>4. m2 = SetPeerIface(SetPeerIface(net, p, e), e, p)
  BY DEF SetPeerIface
<1> HIDE DEF n1
<1>5. ASSUME NEW f \in Ends \ {p, e}
      PROVE  /\ EndChained(hook, n1, f) /\ n1.link[f] = net.link[f]
             /\ net.link[f] \notin {p, e} /\ net.link[f] \in Ends \cup {NoEnd}
             /\ f \in Ifaces => n1.link[f] \notin Ifaces
  <2>1. EndChained(hook, net, f) /\ n1.link[f] = net.link[f]
    BY <1>1, <1>2 DEF ChainedBut
  <2>2. net.link[f] \notin {p, e}
    BY <1>1 DEF Linked
  <2>3. Same(net, n1, f)
    BY <1>2 DEF Same
  <2>4. net.link[f] \in Ends \cup {NoEnd} /\ (f \in Ifaces => net.link[f] \notin Ifaces)
    BY <1>1, PortOfIface
  <2>5. EndChained(hook, n1, f)
    BY <1>2, <2>1, <2>3, <2>4, SameChained
  <2> QED BY <2>1, <2>2, <2>4, <2>5
<1>6. Disjoint(n1) /\ Common(hook, n1)
  BY <1>1, <1>2 DEF Disjoint, Common, Twins, ChainedBut
<1>7. /\ m1 \in Nets /\ Common(hook, m1)
      /\ m1.cubes = n1.cubes /\ m1.link = n1.link
      /\ EndChained(hook, m1, p)
      /\ \A f \in Ends \ {p} :
           /\ Apart(n1, p, f) /\ EndChained(hook, n1, f)
           /\ f \in Ifaces => n1.link[f] \notin Ifaces
           => EndChained(hook, m1, f)
  BY <1>1, <1>2, <1>3, <1>6, UpdateEffect
<1> HIDE DEF m1
<1>8. ASSUME NEW f \in Ends \ {p, e} PROVE EndChained(hook, m1, f)
  <2>1. Apart(n1, p, f)
    BY <1>2, <1>5 DEF Apart
  <2> QED BY <1>5, <1>7, <2>1
<1>9. /\ n2 \in Nets
      /\ n2.link[e] = p /\ \A g \in Ends \ {e} : n2.link[g] = m1.link[g]
      /\ n2.cubes = m1.cubes /\ n2.next_in = m1.next_in
      /\ n2.next_out = m1.next_out /\ n2.egress_next_tc = m1.egress_next_tc /\ n2.next_twin = m1.next_twin
      /\ n2.index = m1.index /\ n2.port_index = m1.port_index /\ n2.fwd = m1.fwd /\ n2.rx = m1.rx
      /\ n2.tx = m1.tx /\ n2.out_next = m1.out_next /\ n2.out_next_xdp = m1.out_next_xdp
  BY <1>1, <1>7, LinkFields
<1> HIDE DEF n2
<1>10. n2.link[p] = e /\ n2.link[e] = p /\ \A g \in Ends \ {p, e} : n2.link[g] = net.link[g]
  BY <1>1, <1>2, <1>7, <1>9
<1>11. Linked(n2)
  <2> SUFFICES ASSUME NEW f \in Ends, n2.link[f] # NoEnd
               PROVE  /\ n2.link[f] # f
                      /\ n2.link[n2.link[f]] = f
                      /\ f \in Ifaces => n2.link[f] \in Ports
    BY DEF Linked
  <2>1. CASE f = p
    BY <1>1, <1>10, <2>1
  <2>2. CASE f = e
    BY <1>1, <1>10, <2>2
  <2>3. CASE f \notin {p, e}
    <3>1. net.link[f] \in Ends \ {p, e} /\ n2.link[f] = net.link[f]
      BY <1>5, <1>10, <2>3
    <3> QED BY <1>1, <1>10, <2>3, <3>1 DEF Linked
  <2> QED BY <2>1, <2>2, <2>3
<1>12. Disjoint(n2) /\ Lists(n2, parent)
  BY <1>1, <1>2, <1>7, <1>9 DEF Disjoint, Lists
<1>13. ChainedBut(hook, n2, {e})
  <2>1. Common(hook, n2)
    BY <1>7, <1>9 DEF Common, Twins
  <2>2. ASSUME NEW f \in Ends \ {e} PROVE EndChained(hook, n2, f)
    <3>1. EndChained(hook, m1, f)
      BY <1>7, <1>8
    <3>2. Same(m1, n2, f)
      BY <1>9 DEF Same
    <3>3. m1.link[f] \in Ends \cup {NoEnd} /\ (f \in Ifaces => m1.link[f] \notin Ifaces)
      BY <1>1, <1>5, <1>7, NetFields
    <3> QED BY <1>9, <3>1, <3>2, <3>3, SameChained
  <2> QED BY <2>1, <2>2 DEF ChainedBut
<1>14. ~ UpdateCrashes(n2, e)
  BY <1>1, <1>10 DEF UpdateCrashes
<1>15. m2 \in Nets /\ m2.cubes = n2.cubes /\ m2.link = n2.link /\ ChainedBut(hook, m2, {})
  BY <1>9, <1>11, <1>12, <1>13, <1>14, UpdateChains
<1> HIDE DEF m2
<1>16. Disjoint(m2) /\ Linked(m2) /\ Lists(m2, parent)
  BY <1>11, <1>12, <1>15 DEF Disjoint, Linked, Lists
<1> QED BY <1>4, <1>15, <1>16 DEF Settled

\* The two calls of set_peer_iface of an unconnect.
LEMMA LinkCut ==
  ASSUME hook \in {"tc", "xdp"}, Settled(net, parent), NEW p \in Ports, NEW e, e = net.link[p],
         e # NoEnd
  PROVE  Settled(SetPeerIface(SetPeerIface(net, p, NoEnd), e, NoEnd), parent)
<1> DEFINE n1 == [net EXCEPT !.link[p] = NoEnd]
           m1 == Update(n1, p)
           n2 == [m1 EXCEPT !.link[e] = NoEnd]
           m2 == Update(n2, e)
<1>1. /\ net \in Nets /\ Disjoint(net) /\ Linked(net) /\ Lists(net, parent)
      /\ ChainedBut(hook, net, {})
      /\ p \in Ends /\ p \notin Ifaces /\ NoEnd \notin Ends
      /\ NoEnd \in Ends \cup {NoEnd} /\ NoEnd \notin Ifaces
  BY EndsAssumption DEF Settled, Ends
<1>e. e \in Ends \ {p} /\ net.link[e] = p
  <2>1. net.link[p] \in Ends \cup {NoEnd}
    BY <1>1, NetFields
  <2> QED BY <1>1, <2>1 DEF Linked
<1>2. /\ n1 \in Nets
      /\ n1.link[p] = NoEnd /\ \A g \in Ends \ {p} : n1.link[g] = net.link[g]
      /\ n1.cubes = net.cubes /\ n1.next_in = net.next_in
      /\ n1.next_out = net.next_out /\ n1.egress_next_tc = net.egress_next_tc /\ n1.next_twin = net.next_twin
      /\ n1.index = net.index /\ n1.port_index = net.port_index /\ n1.fwd = net.fwd /\ n1.rx = net.rx
      /\ n1.tx = net.tx /\ n1.out_next = net.out_next /\ n1.out_next_xdp = net.out_next_xdp
  BY <1>1, LinkFields
<1>4. m2 = SetPeerIface(SetPeerIface(net, p, NoEnd), e, NoEnd)
  BY DEF SetPeerIface
<1> HIDE DEF n1
<1>3. ~ UpdateCrashes(n1, p)
  BY <1>1, <1>2 DEF UpdateCrashes
<1>5. ASSUME NEW f \in Ends \ {p, e}
      PROVE  /\ EndChained(hook, n1, f) /\ n1.link[f] = net.link[f]
             /\ net.link[f] \notin {p, e} /\ net.link[f] \in Ends \cup {NoEnd}
             /\ f \in Ifaces => n1.link[f] \notin Ifaces
  <2>1. EndChained(hook, net, f) /\ n1.link[f] = net.link[f]
    BY <1>1, <1>2 DEF ChainedBut
  <2>2. net.link[f] \notin {p, e}
    BY <1>1, <1>e DEF Linked
  <2>3. Same(net, n1, f)
    BY <1>2 DEF Same
  <2>4. net.link[f] \in Ends \cup {NoEnd} /\ (f \in Ifaces => net.link[f] \notin Ifaces)
    BY <1>1, PortOfIface
  <2>5. EndChained(hook, n1, f)
    BY <1>2, <2>1, <2>3, <2>4, SameChained
  <2> QED BY <2>1, <2>2, <2>4, <2>5
<1>6. Disjoint(n1) /\ Common(hook, n1)
  BY <1>1, <1>2 DEF Disjoint, Common, Twins, ChainedBut
<1>7. /\ m1 \in Nets /\ Common(hook, m1)
      /\ m1.cubes = n1.cubes /\ m1.link = n1.link
      /\ EndChained(hook, m1, p)
      /\ \A f \in Ends \ {p} :
           /\ Apart(n1, p, f) /\ EndChained(hook, n1, f)
           /\ f \in Ifaces => n1.link[f] \notin Ifaces
           => EndChained(hook, m1, f)
  BY <1>1, <1>2, <1>3, <1>6, UpdateEffect
<1> HIDE DEF m1
<1>8. ASSUME NEW f \in Ends \ {p, e} PROVE EndChained(hook, m1, f)
  <2>1. Apart(n1, p, f)
    BY <1>1, <1>2, <1>5 DEF Apart
  <2> QED BY <1>5, <1>7, <2>1
<1>9. /\ n2 \in Nets
      /\ n2.link[e] = NoEnd /\ \A g \in Ends \ {e} : n2.link[g] = m1.link[g]
      /\ n2.cubes = m1.cubes /\ n2.next_in = m1.next_in
      /\ n2.next_out = m1.next_out /\ n2.egress_next_tc = m1.egress_next_tc /\ n2.next_twin = m1.next_twin
      /\ n2.index = m1.index /\ n2.port_index = m1.port_index /\ n2.fwd = m1.fwd /\ n2.rx = m1.rx
      /\ n2.tx = m1.tx /\ n2.out_next = m1.out_next /\ n2.out_next_xdp = m1.out_next_xdp
  BY <1>1, <1>e, <1>7, LinkFields
<1> HIDE DEF n2
<1>10. n2.link[p] = NoEnd /\ n2.link[e] = NoEnd /\ \A g \in Ends \ {p, e} : n2.link[g] = net.link[g]
  BY <1>1, <1>e, <1>2, <1>7, <1>9
<1>11. Linked(n2)
  <2> SUFFICES ASSUME NEW f \in Ends, n2.link[f] # NoEnd
               PROVE  /\ n2.link[f] # f
                      /\ n2.link[n2.link[f]] = f
                      /\ f \in Ifaces => n2.link[f] \in Ports
    BY DEF Linked
  <2>1. f \notin {p, e}
    BY <1>10
  <2>2. net.link[f] \in Ends \ {p, e} /\ n2.link[f] = net.link[f]
    BY <1>5, <1>10, <2>1
  <2> QED BY <1>1, <1>10, <2>2 DEF Linked
<1>12. Disjoint(n2) /\ Lists(n2, parent)
  BY <1>1, <1>2, <1>7, <1>9 DEF Disjoint, Lists
<1>13. ChainedBut(hook, n2, {e})
  <2>1. Common(hook, n2)
    BY <1>7, <1>9 DEF Common, Twins
  <2>2. ASSUME NEW f \in Ends \ {e} PROVE EndChained(hook, n2, f)
    <3>1. EndChained(hook, m1, f)
      BY <1>7, <1>8
    <3>2. Same(m1, n2, f)
      BY <1>9 DEF Same
    <3>3. m1.link[f] \in Ends \cup {NoEnd} /\ (f \in Ifaces => m1.link[f] \notin Ifaces)
      BY <1>1, <1>5, <1>7, NetFields
    <3> QED BY <1>9, <3>1, <3>2, <3>3, SameChained
  <2> QED BY <2>1, <2>2 DEF ChainedBut
<1>14. ~ UpdateCrashes(n2, e)
  BY <1>1, <1>10 DEF UpdateCrashes
<1>15. m2 \in Nets /\ m2.cubes = n2.cubes /\ m2.link = n2.link /\ ChainedBut(hook, m2, {})
  BY <1>e, <1>9, <1>11, <1>12, <1>13, <1>14, UpdateChains
<1> HIDE DEF m2
<1>16. Disjoint(m2) /\ Linked(m2) /\ Lists(m2, parent)
  BY <1>11, <1>12, <1>15 DEF Disjoint, Linked, Lists
<1> QED BY <1>4, <1>15, <1>16 DEF Settled

\* An end that goes: its cubes are let go, and a new one is entered as one
\* that nothing is attached to.
LEMMA EndGone ==
  ASSUME Inv, NEW e \in Ends, Goes(e)
  PROVE  Settled(net', parent')
<1> DEFINE n == [net EXCEPT !.cubes[e] = <<>>]
           fresh == [next |-> Stack, port |-> NoEnd]
           f == [n.port_index EXCEPT ![e] = To("parent_in", e)]
           g == [n.fwd EXCEPT ![e] = [next |-> Nowhere, port |-> e]]
           rx == [n.rx EXCEPT ![e] = fresh]
           tx == [n.tx EXCEPT ![e] = fresh]
           index == [n.index EXCEPT ![e] = Stack]
<1>1. /\ net \in Nets /\ Disjoint(net) /\ Linked(net) /\ Lists(net, parent)
      /\ Common(hook, net) /\ net.link[e] = NoEnd
      /\ \A x \in Ends : EndChained(hook, net, x)
      /\ NoEnd \notin Ends /\ hook' = hook
  BY EndsAssumption DEF Inv, TypeOK, ChainedBut, Goes
<1>0. <<>> \in Seq(TCubes)
  BY EmptySeq
<1>2. /\ n \in Nets
      /\ n.cubes[e] = <<>> /\ \A x \in Ends \ {e} : n.cubes[x] = net.cubes[x]
      /\ n.link = net.link /\ n.next_in = net.next_in
      /\ n.next_out = net.next_out /\ n.egress_next_tc = net.egress_next_tc /\ n.next_twin = net.next_twin
      /\ n.index = net.index /\ n.port_index = net.port_index /\ n.fwd = net.fwd /\ n.rx = net.rx
      /\ n.tx = net.tx /\ n.out_next = net.out_next /\ n.out_next_xdp = net.out_next_xdp
  <2>0. PICK s : s = <<>>
    OBVIOUS
  <2>1. n = WithCubes(net, e, s) /\ s \in Seq(TCubes)
    BY <1>0, <2>0 DEF WithCubes
  <2> HIDE DEF n
  <2>2. /\ n \in Nets
        /\ n.cubes[e] = s /\ \A x \in Ends \ {e} : n.cubes[x] = net.cubes[x]
        /\ n.link = net.link /\ n.next_in = net.next_in
        /\ n.next_out = net.next_out /\ n.egress_next_tc = net.egress_next_tc /\ n.next_twin = net.next_twin
        /\ n.index = net.index /\ n.port_index = net.port_index /\ n.fwd = net.fwd /\ n.rx = net.rx
        /\ n.tx = net.tx /\ n.out_next = net.out_next /\ n.out_next_xdp = net.out_next_xdp
    BY <1>1, <2>1, CubesFields
  <2> QED BY <2>0, <2>2
<1>3. net' = IF e \in Ports THEN [n EXCEPT !.port_index = f, !.fwd = g]
             ELSE [n EXCEPT !.rx = rx, !.tx = tx, !.index = index]
  BY DEF Goes
<1> HIDE DEF n
<1>4. /\ net' \in Nets
      /\ net'.cubes = n.cubes /\ net'.link = n.link /\ net'.next_in = n.next_in
      /\ net'.next_out = n.next_out /\ net'.egress_next_tc = n.egress_next_tc /\ net'.next_twin = n.next_twin
      /\ net'.out_next = n.out_next /\ net'.out_next_xdp = n.out_next_xdp
      /\ \A x \in Ports \ {e} : net'.port_index[x] = n.port_index[x] /\ net'.fwd[x] = n.fwd[x]
      /\ \A x \in Ifaces \ {e} : /\ net'.rx[x] = n.rx[x] /\ net'.tx[x] = n.tx[x]
                                 /\ net'.index[x] = n.index[x]
      /\ e \in Ports => net'.port_index[e] = To("parent_in", e)
      /\ e \in Ifaces => net'.rx[e] = fresh /\ net'.tx[e] = fresh /\ net'.index[e] = Stack
  <2>0. /\ n.port_index \in [Ports -> Targets] /\ n.fwd \in [Ports -> Entries]
        /\ n.rx \in [Ifaces -> Entries] /\ n.tx \in [Ifaces -> Entries]
        /\ n.index \in [Ifaces -> Targets]
    BY <1>2 DEF Nets
  <2>1. CASE e \in Ports
    <3>1. To("parent_in", e) \in Targets /\ [next |-> Nowhere, port |-> e] \in Entries
      BY <2>1, EndTargets DEF Entries, Ends
    <3>2. /\ f \in [Ports -> Targets] /\ g \in [Ports -> Entries]
          /\ f[e] = To("parent_in", e) /\ \A x \in Ports \ {e} : f[x] = n.port_index[x] /\ g[x] = n.fwd[x]
      BY <2>0, <2>1, <3>1
    <3>3. net' = [n EXCEPT !.port_index = f, !.fwd = g]
      BY <1>3, <2>1
    <3> HIDE DEF f, g
    <3>4. /\ net' \in Nets
          /\ net'.cubes = n.cubes /\ net'.link = n.link /\ net'.next_in = n.next_in
          /\ net'.next_out = n.next_out /\ net'.egress_next_tc = n.egress_next_tc /\ net'.next_twin = n.next_twin
          /\ net'.out_next = n.out_next /\ net'.out_next_xdp = n.out_next_xdp
          /\ net'.port_index = f /\ net'.fwd = g
          /\ net'.rx = n.rx /\ net'.tx = n.tx /\ net'.index = n.index
      BY <1>2, <3>2, <3>3 DEF Nets
    <3>5. e \notin Ifaces
      BY <2>1, EndsAssumption
    <3> QED BY <3>2, <3>4, <3>5
  <2>2. CASE e \notin Ports
    <3>0. e \in Ifaces
      BY <2>2 DEF Ends
    <3>1. Stack \in Targets /\ fresh \in Entries
      BY EndTargets DEF Entries
    <3> HIDE DEF fresh
    <3>2. /\ rx \in [Ifaces -> Entries] /\ tx \in [Ifaces -> Entries] /\ index \in [Ifaces -> Targets]
          /\ rx[e] = fresh /\ tx[e] = fresh /\ index[e] = Stack
          /\ \A x \in Ifaces \ {e} : rx[x] = n.rx[x] /\ tx[x] = n.tx[x] /\ index[x] = n.index[x]
      BY <2>0, <3>0, <3>1
    <3>3. net' = [n EXCEPT !.rx = rx, !.tx = tx, !.index = index]
      BY <1>3, <2>2
    <3> HIDE DEF rx, tx, index
    <3>4. /\ net' \in Nets
          /\ net'.cubes = n.cubes /\ net'.link = n.link /\ net'.next_in = n.next_in
          /\ net'.next_out = n.next_out /\ net'.egress_next_tc = n.egress_next_tc /\ net'.next_twin = n.next_twin
          /\ net'.out_next = n.out_next /\ net'.out_next_xdp = n.out_next_xdp
          /\ net'.port_index = n.port_index /\ net'.fwd = n.fwd
          /\ net'.rx = rx /\ net'.tx = tx /\ net'.index = index
      BY <1>2, <3>2, <3>3 DEF Nets
    <3> QED BY <2>2, <3>0, <3>2, <3>4
  <2> QED BY <2>1, <2>2
<1> HIDE DEF fresh
<1>5. Linked(net')
  BY <1>1, <1>2, <1>4 DEF Linked
<1>6. Lists(net', parent') /\ Disjoint(net')
  <2>1. ASSUME NEW c \in TCubes, NEW x \in Ends PROVE c \in Of(net'.cubes[x]) <=> parent'[c] = x
    <3>1. parent'[c] = IF parent[c] = e THEN NoEnd ELSE parent[c]
      BY DEF Goes
    <3>2. CASE x = e
      <4>1. c \notin Of(net'.cubes[x])
        <5>1. DOMAIN <<>> = {}
          OBVIOUS
        <5> QED BY <1>2, <1>4, <3>2, <5>1 DEF Of
      <4> QED BY <1>1, <3>1, <3>2, <4>1
    <3>3. CASE x # e
      <4>1. c \in Of(net'.cubes[x]) <=> parent[c] = x
        BY <1>1, <1>2, <1>4, <3>3 DEF Lists
      <4> QED BY <1>1, <3>1, <3>3, <4>1
    <3> QED BY <3>2, <3>3
  <2>2. \A x \in Ends : Once(net'.cubes[x])
    <3>1. Once(<<>>)
      BY DEF Once
    <3> QED BY <1>1, <1>2, <1>4, <3>1 DEF Disjoint
  <2>3. Lists(net', parent')
    BY <2>1 DEF Lists
  <2> QED BY <1>4, <2>2, <2>3, ListsDisjoint
<1>7. Common(hook, net')
  <2>1. hook = "tc" => \A i \in Ifaces : net'.index[i] = Stack
    BY <1>1, <1>2, <1>4 DEF Common
  <2> QED BY <1>1, <1>2, <1>4, <2>1 DEF Common, Twins
<1>8. ASSUME NEW x \in Ends \ {e} PROVE EndChained(hook, net', x)
  <2>1. net.link[x] \in Ends \cup {NoEnd} /\ (x \in Ifaces => net.link[x] \notin Ifaces)
    BY <1>1, PortOfIface
  <2>2. net.link[x] # e
    BY <1>1 DEF Linked
  <2>3. Same(net, net', x)
    BY <1>2, <1>4 DEF Same
  <2>4. /\ net.link[x] \in Ports => net'.port_index[net.link[x]] = net.port_index[net.link[x]]
        /\ net.link[x] \in Ifaces => net'.index[net.link[x]] = net.index[net.link[x]]
    BY <1>2, <1>4, <2>2
  <2> QED BY <1>1, <2>1, <2>3, <2>4, SameChained
<1>9. EndChained(hook, net', e)
  <2>1. net'.cubes[e] = <<>> /\ net'.link[e] = NoEnd
    BY <1>1, <1>2, <1>4
  <2>2. \A S : Places(net'.cubes[e], S) = {}
    <3>1. DOMAIN <<>> = {}
      OBVIOUS
    <3> QED BY <2>1, <3>1 DEF Places
  <2>3. CASE e \in Ports
    <3>1. PortEntered(net', e)
      BY <1>4, <2>2, <2>3 DEF PortEntered, Upward, TopEntry, AtHighest
    <3> QED BY <2>1, <2>3, <3>1 DEF EndChained
  <2>4. CASE e \notin Ports
    <3>0. e \in Ifaces /\ NoEnd \notin ParentEgress
      BY <1>1, <2>4, ProgramsAssumption DEF Ends
    <3>1. IfaceEntered(net', e, Stack)
      BY <1>4, <2>1, <2>2, <3>0 DEF IfaceEntered, Downward, BottomEntry, AtLowest, fresh
    <3>2. OutEntry(net', e) = Stack
      BY <2>1, <2>2, <3>0 DEF OutEntry, TopEntry, AtHighest
    <3>3. IfaceLeft(hook, net', e)
      BY <1>4, <2>1, <2>2, <3>0, <3>2 DEF IfaceLeft, Upward, fresh
    <3>4. Inside(net', e) = Stack
      BY <2>1 DEF Inside
    <3> QED BY <2>4, <3>1, <3>3, <3>4 DEF EndChained
  <2> QED BY <2>3, <2>4
<1>10. \A x \in Ends \ {} : EndChained(hook, net', x)
  BY <1>8, <1>9
<1>11. ChainedBut(hook, net', {})
  BY <1>7, <1>10 DEF ChainedBut
<1> QED BY <1>1, <1>4, <1>5, <1>6, <1>11 DEF Settled

-----------------------------------------------------------------------------
(* The invariant and the theorems.                                         *)

\* The invariant is that the network is settled.
LEMMA InvSettled ==
  /\ Inv => Settled(net, parent) /\ hook \in {"tc", "xdp"}
  /\ TypeOK /\ Settled(net, parent) => Inv
BY HooksAssumption DEF Inv, TypeOK, Settled

\* In the initial network every chain is empty.
LEMMA InitInv == Init => Inv
<1> SUFFICES ASSUME Init PROVE Inv
  OBVIOUS
<1>1. /\ net.cubes = [e \in Ends |-> <<>>] /\ net.link = [e \in Ends |-> NoEnd]
      /\ net.next_out = [c \in TCubes |-> Nowhere]
      /\ net.index = [i \in Ifaces |-> Stack]
      /\ net.port_index = [p \in Ports |-> To("parent_in", p)]
      /\ net.rx = [i \in Ifaces |-> [next |-> Stack, port |-> NoEnd]]
      /\ net.tx = [i \in Ifaces |-> [next |-> Stack, port |-> NoEnd]]
      /\ hook \in Hooks /\ parent = [c \in TCubes |-> NoEnd] /\ crashed = FALSE
      /\ NoEnd \notin Ends
  BY EndsAssumption DEF Init
<1>2. net \in Nets
  <2>1. /\ Stack \in Targets /\ Nowhere \in Targets
        /\ \A p \in Ports : To("parent_in", p) \in Targets
    BY EndTargets
  <2>2. <<>> \in Seq(TCubes)
    BY EmptySeq
  <2>3. /\ [next |-> Stack, port |-> NoEnd] \in Entries
        /\ \A p \in Ports : [next |-> Nowhere, port |-> p] \in Entries
    BY <2>1 DEF Entries, Ends
  <2>4. /\ [e \in Ends |-> <<>>] \in [Ends -> Seq(TCubes)]
        /\ [e \in Ends |-> NoEnd] \in [Ends -> Ends \cup {NoEnd}]
        /\ [c \in TCubes |-> Nowhere] \in [TCubes -> Targets]
        /\ [i \in Ifaces |-> Stack] \in [Ifaces -> Targets]
        /\ [p \in Ports |-> To("parent_in", p)] \in [Ports -> Targets]
        /\ [p \in Ports |-> Nowhere] \in [Ports -> Targets]
        /\ [p \in Ports |-> [next |-> Nowhere, port |-> p]] \in [Ports -> Entries]
        /\ [i \in Ifaces |-> [next |-> Stack, port |-> NoEnd]] \in [Ifaces -> Entries]
    BY <2>1, <2>2, <2>3
  <2> QED BY <2>4, Zenon DEF Init, Nets
<1>3. TypeOK
  BY <1>1, <1>2 DEF TypeOK
<1>4. \A e \in Ends : Of(net.cubes[e]) = {} /\ Once(net.cubes[e])
                      /\ \A S : Places(net.cubes[e], S) = {}
  <2>1. DOMAIN <<>> = {}
    OBVIOUS
  <2> QED BY <1>1, <2>1 DEF Of, Once, Places
<1>5. Disjoint(net) /\ Linked(net) /\ Lists(net, parent)
  BY <1>1, <1>4 DEF Disjoint, Linked, Lists
<1>6. Common(hook, net)
  <2>1. Nowhere.kind # "out"
    BY DEF Nowhere, To
  <2> QED BY <1>1, <2>1 DEF Common, Twins
<1>7. ASSUME NEW e \in Ends PROVE EndChained(hook, net, e)
  <2>1. CASE e \in Ports
    <3>1. PortEntered(net, e)
      BY <1>1, <1>4, <2>1 DEF PortEntered, Upward, TopEntry, AtHighest
    <3> QED BY <1>1, <2>1, <3>1 DEF EndChained
  <2>4. CASE e \notin Ports
    <3>0. e \in Ifaces /\ NoEnd \notin ParentEgress /\ net.link[e] = NoEnd
      BY <1>1, <2>4, ProgramsAssumption DEF Ends
    <3>1. IfaceEntered(net, e, Stack)
      BY <1>1, <1>4, <3>0 DEF IfaceEntered, Downward, BottomEntry, AtLowest
    <3>2. OutEntry(net, e) = Stack
      BY <1>4, <3>0 DEF OutEntry, TopEntry, AtHighest
    <3>3. IfaceLeft(hook, net, e)
      BY <1>1, <1>4, <3>0, <3>2 DEF IfaceLeft, Upward
    <3>4. Inside(net, e) = Stack
      BY <3>0 DEF Inside
    <3> QED BY <2>4, <3>1, <3>3, <3>4 DEF EndChained
  <2> QED BY <2>1, <2>4
<1> QED BY <1>3, <1>5, <1>6, <1>7 DEF Inv, ChainedBut

\* Connecting and unconnecting.
LEMMA ConnectStep ==
  ASSUME Inv, NEW p \in Ports, NEW e \in Ends, Connect(p, e)
  PROVE  Inv'
<1>1. CASE SetPeerCrashes(net, p, e)
  BY <1>1 DEF Connect, Inv, TypeOK
<1>2. CASE ~ SetPeerCrashes(net, p, e)
  <2>1. /\ net' = SetPeerIface(SetPeerIface(net, p, e), e, p)
        /\ hook' = hook /\ parent' = parent /\ crashed' = crashed
        /\ p # e /\ net.link[p] = NoEnd /\ net.link[e] = NoEnd
    BY <1>2 DEF Connect
  <2>2. Settled(net', parent)
    BY <1>2, <2>1, InvSettled, LinkMade
  <2> QED BY <2>1, <2>2 DEF Inv, TypeOK, Settled
<1> QED BY <1>1, <1>2

LEMMA UnconnectStep ==
  ASSUME Inv, NEW p \in Ports, Unconnect(p)
  PROVE  Inv'
<1>1. /\ net' = SetPeerIface(SetPeerIface(net, p, NoEnd), net.link[p], NoEnd)
      /\ hook' = hook /\ parent' = parent /\ crashed' = crashed
      /\ net.link[p] # NoEnd
  BY DEF Unconnect
<1>2. Settled(net', parent)
  <2>1. PICK e : e = net.link[p]
    OBVIOUS
  <2>2. net' = SetPeerIface(SetPeerIface(net, p, NoEnd), e, NoEnd) /\ e # NoEnd
    BY <1>1, <2>1
  <2>3. Settled(net, parent) /\ hook \in {"tc", "xdp"}
    BY InvSettled
  <2>4. Settled(SetPeerIface(SetPeerIface(net, p, NoEnd), e, NoEnd), parent)
    BY <2>1, <2>2, <2>3, LinkCut
  <2> QED BY <2>2, <2>4
<1> QED BY <1>1, <1>2 DEF Inv, TypeOK, Settled

\* Attaching and detaching a cube.
LEMMA AttachStep ==
  ASSUME Inv, NEW c \in TCubes, NEW e \in Ends,
         NEW position \in {"auto", "first", "last", "before", "after"}, NEW other,
         Attach(c, e, position, other)
  PROVE  Inv'
<1>1. /\ parent[c] = NoEnd
      /\ \E i \in Indexes(c, net.cubes[e], position, other) :
           LET n == [net EXCEPT !.cubes[e] = Inserted(@, i, c)]
           IN IF i > Len(net.cubes[e]) \/ UpdateCrashes(n, e)
              THEN crashed' = TRUE /\ UNCHANGED <<hook, net, parent>>
              ELSE /\ net' = Update(n, e)
                   /\ parent' = [parent EXCEPT ![c] = e]
                   /\ UNCHANGED <<hook, crashed>>
  BY DEF Attach
<1>2. PICK i \in Indexes(c, net.cubes[e], position, other) :
        LET n == [net EXCEPT !.cubes[e] = Inserted(@, i, c)]
        IN IF i > Len(net.cubes[e]) \/ UpdateCrashes(n, e)
           THEN crashed' = TRUE /\ UNCHANGED <<hook, net, parent>>
           ELSE /\ net' = Update(n, e)
                /\ parent' = [parent EXCEPT ![c] = e]
                /\ UNCHANGED <<hook, crashed>>
  BY <1>1
<1> DEFINE s == Inserted(net.cubes[e], i, c)
           n == [net EXCEPT !.cubes[e] = s]
<1>3. IF i > Len(net.cubes[e]) \/ UpdateCrashes(n, e)
      THEN crashed' = TRUE /\ UNCHANGED <<hook, net, parent>>
      ELSE /\ net' = Update(n, e)
           /\ parent' = [parent EXCEPT ![c] = e]
           /\ UNCHANGED <<hook, crashed>>
  BY <1>2
<1> HIDE DEF s
<1>4. CASE i > Len(net.cubes[e]) \/ UpdateCrashes(n, e)
  BY <1>3, <1>4 DEF Inv, TypeOK
<1>5. CASE ~(i > Len(net.cubes[e])) /\ ~ UpdateCrashes(n, e)
  <2>1. /\ Settled(net, parent) /\ hook \in {"tc", "xdp"}
        /\ parent \in [TCubes -> Ends \cup {NoEnd}] /\ e # NoEnd
    BY InvSettled, EndsAssumption DEF Inv, TypeOK
  <2>2. net.cubes[e] \in Seq(TCubes) /\ Once(net.cubes[e])
    BY <2>1, NetFields DEF Settled, Disjoint
  <2>3. c \notin Of(net.cubes[e]) /\ \A d \in TCubes : d \in Of(net.cubes[e]) <=> parent[d] = e
    BY <1>1, <2>1 DEF Settled, Lists
  <2>4. i \in Nat /\ i <= Len(net.cubes[e])
    <3>1. i \in Nat
      BY <2>2, IndexesType
    <3>2. Len(net.cubes[e]) \in Nat
      BY <2>2, LenProperties
    <3> QED BY <1>5, <3>1, <3>2
  <2>5. s \in Seq(TCubes) /\ Once(s) /\ Of(s) = Of(net.cubes[e]) \cup {c}
    BY <2>2, <2>3, <2>4, InsertedCubes DEF s
  <2>6. /\ net' = Update(n, e) /\ parent' = [parent EXCEPT ![c] = e]
        /\ hook' = hook /\ crashed' = crashed
    BY <1>3, <1>5
  <2>7. /\ \A d \in TCubes : d \in Of(s) <=> parent'[d] = e
        /\ \A d \in TCubes, f \in Ends \ {e} : parent'[d] = f <=> parent[d] = f
        /\ parent' \in [TCubes -> Ends \cup {NoEnd}]
    <3>1. \A d \in TCubes : parent'[d] = IF d = c THEN e ELSE parent[d]
      BY <2>1, <2>6
    <3>2. \A f \in Ends : parent[c] # f
      BY <1>1, EndsAssumption
    <3>3. parent' \in [TCubes -> Ends \cup {NoEnd}]
      BY <2>1, <2>6
    <3> QED BY <2>3, <2>5, <3>1, <3>2, <3>3
  <2>8. Settled(net', parent')
    <3>1. PICK parents : parents = parent'
      OBVIOUS
    <3>2. /\ \A d \in TCubes : d \in Of(s) <=> parents[d] = e
          /\ \A d \in TCubes, f \in Ends \ {e} : parents[d] = f <=> parent[d] = f
      BY <2>7, <3>1
    <3>3. Settled(Update(n, e), parents)
      BY <1>5, <2>1, <2>5, <3>2, CubesChange
    <3> QED BY <2>6, <3>1, <3>3
  <2> HIDE DEF n
  <2> QED BY <2>6, <2>7, <2>8 DEF Inv, TypeOK, Settled
<1> QED BY <1>4, <1>5

LEMMA DetachStep ==
  ASSUME Inv, NEW c \in TCubes, Detach(c)
  PROVE  Inv'
<1> DEFINE e == parent[c]
           s == Without(net.cubes[e], c)
           n == [net EXCEPT !.cubes[e] = s]
<1>1. /\ e # NoEnd
      /\ IF UpdateCrashes(n, e)
         THEN crashed' = TRUE /\ UNCHANGED <<hook, net, parent>>
         ELSE /\ net' = Update(n, e)
              /\ parent' = [parent EXCEPT ![c] = NoEnd]
              /\ UNCHANGED <<hook, crashed>>
  BY DEF Detach, RemoveCube
<1>2. CASE UpdateCrashes(n, e)
  <2> HIDE DEF n, e
  <2> QED BY <1>1, <1>2 DEF Inv, TypeOK
<1>3. CASE ~ UpdateCrashes(n, e)
  <2>1. /\ Settled(net, parent) /\ hook \in {"tc", "xdp"}
        /\ parent \in [TCubes -> Ends \cup {NoEnd}] /\ e \in Ends /\ NoEnd \notin Ends
    BY <1>1, InvSettled, EndsAssumption DEF Inv, TypeOK
  <2>0. parent[c] = e
    OBVIOUS
  <2>00. s = Without(net.cubes[e], c)
    OBVIOUS
  <2>6. /\ ~ UpdateCrashes(n, e)
        /\ net' = Update(n, e) /\ parent' = [parent EXCEPT ![c] = NoEnd]
        /\ hook' = hook /\ crashed' = crashed
    BY <1>1, <1>3
  <2> HIDE DEF e, s
  <2>2. net.cubes[e] \in Seq(TCubes) /\ Once(net.cubes[e])
    BY <2>1, NetFields DEF Settled, Disjoint
  <2>3. c \in Of(net.cubes[e]) /\ \A d \in TCubes : d \in Of(net.cubes[e]) <=> parent[d] = e
    BY <2>0, <2>1 DEF Settled, Lists
  <2>5. s \in Seq(TCubes) /\ Once(s) /\ Of(s) = Of(net.cubes[e]) \ {c}
    BY <2>00, <2>2, <2>3, WithoutCubes
  <2>7. /\ \A d \in TCubes : d \in Of(s) <=> parent'[d] = e
        /\ \A d \in TCubes, f \in Ends \ {e} : parent'[d] = f <=> parent[d] = f
        /\ parent' \in [TCubes -> Ends \cup {NoEnd}]
    <3>1. \A d \in TCubes : parent'[d] = IF d = c THEN NoEnd ELSE parent[d]
      BY <2>1, <2>6
    <3>3. parent' \in [TCubes -> Ends \cup {NoEnd}]
      BY <2>1, <2>6
    <3> QED BY <2>0, <2>1, <2>3, <2>5, <3>1, <3>3
  <2>8. Settled(net', parent')
    <3>1. PICK parents : parents = parent'
      OBVIOUS
    <3>2. /\ \A d \in TCubes : d \in Of(s) <=> parents[d] = e
          /\ \A d \in TCubes, f \in Ends \ {e} : parents[d] = f <=> parent[d] = f
      BY <2>7, <3>1
    <3>3. Settled(Update(n, e), parents)
      BY <2>1, <2>5, <2>6, <3>2, CubesChange
    <3> QED BY <2>6, <3>1, <3>3
  <2> HIDE DEF n
  <2> QED BY <2>6, <2>7, <2>8 DEF Inv, TypeOK, Settled
<1> QED BY <1>2, <1>3

\* An end that goes.
LEMMA GoesStep ==
  ASSUME Inv, NEW e \in Ends, Goes(e)
  PROVE  Inv'
<1>1. Settled(net', parent')
  BY EndGone
<1>2. /\ parent' = [c \in TCubes |-> IF parent[c] = e THEN NoEnd ELSE parent[c]]
      /\ hook' = hook /\ crashed' = crashed
  BY DEF Goes
<1>3. TypeOK'
  BY <1>1, <1>2 DEF Inv, TypeOK, Settled
<1> QED BY <1>1, <1>2, <1>3 DEF Inv, Settled

\* Every step keeps the invariant.
LEMMA NextInv == Inv /\ [Next]_vars => Inv'
<1> SUFFICES ASSUME Inv, [Next]_vars PROVE Inv'
  OBVIOUS
<1>1. ASSUME NEW p \in Ports, Unconnect(p) PROVE Inv'
  BY <1>1, UnconnectStep
<1>2. ASSUME NEW p \in Ports, NEW e \in Ends, Connect(p, e) PROVE Inv'
  BY <1>2, ConnectStep
<1>3. ASSUME NEW c \in TCubes, NEW e \in Ends, NEW position \in {"auto", "first", "last"},
             Attach(c, e, position, NoEnd)
      PROVE  Inv'
  <2>1. PICK other : other = NoEnd
    OBVIOUS
  <2> QED BY <1>3, <2>1, AttachStep
<1>4. ASSUME NEW c \in TCubes, NEW e \in Ends, NEW position \in {"before", "after"},
             NEW other \in TCubes \ {c}, Attach(c, e, position, other)
      PROVE  Inv'
  BY <1>4, AttachStep
<1>5. ASSUME NEW c \in TCubes, Detach(c) PROVE Inv'
  BY <1>5, DetachStep
<1>6. ASSUME NEW e \in Ends, Goes(e) PROVE Inv'
  BY <1>6, GoesStep
<1>7. CASE UNCHANGED vars
  BY <1>7 DEF Inv, TypeOK, vars
<1> QED BY <1>1, <1>2, <1>3, <1>4, <1>5, <1>6, <1>7 DEF Next

\* The lists, links and pointers of the chains are in order in every state, at
\* any number of ends and cubes and after any sequence of calls.
THEOREM ChainsInvariant == Spec => []Inv
<1>1. Init => Inv
  BY InitInv
<1>2. Inv /\ [Next]_vars => Inv'
  BY NextInv
<1> QED BY <1>1, <1>2, PTL DEF Spec

\* A packet from an interface goes through the ingress programs of the
\* interface, of the linked port and into the cube, with the id of that port,
\* after every relinking of update_indexes and set_next_index.
THEOREM PacketsReceived == Spec => []ReceivePath
<1>1. Inv => ReceivePath
  BY InvReceives
<1> QED BY <1>1, ChainsInvariant, PTL

\* A packet that a cube sends out of a port goes through the egress programs of
\* the port and on to the device or to the other port.
THEOREM PacketsSent == Spec => []SendPath
<1>1. Inv => SendPath
  BY InvSends
<1> QED BY <1>1, ChainsInvariant, PTL

\* A packet of the stack of the host goes through the egress program of the
\* linked cube and the egress programs of the interface.
THEOREM PacketsTransmitted == Spec => []TransmitPath
<1>1. Inv => TransmitPath
  BY InvTransmits
<1> QED BY <1>1, ChainsInvariant, PTL

\* Port::send_packet_out and TransparentCube::send_packet_out enter the chain
\* behind the sender.
THEOREM PacketsServed == Spec => []ServicePath
<1>1. Inv => ServicePath
  BY InvServes
<1> QED BY <1>1, ChainsInvariant, PTL
=============================================================================
