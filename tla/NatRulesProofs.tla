--------------------------- MODULE NatRulesProofs ---------------------------
(***************************************************************************)
(* Theorems about NatRules, with their proofs: for any hosts, packets and  *)
(* rules, any size of the tables and any length of the lists.              *)
(***************************************************************************)
EXTENDS NatRules, TLAPS, SequenceTheorems

\* The keys that rules of a kind may have.
KeysOf(kind) == {KeyOf(kind, r) : r \in RulesOf(kind)}

\* The keys that only the rules of a kind write: masquerade writes the key that
\* a SNAT rule for all the hosts has.
OwnKeys(kind) == IF kind = "snat" THEN KeysOf(kind) \ {Everyone} ELSE KeysOf(kind)

Entry(kind) == [id : Nat, rule : RulesOf(kind)]

KeysIn(kind, L) == {Key(kind, L[i]) : i \in DOMAIN L}

-----------------------------------------------------------------------------
(* The inductive invariant.                                                *)

\* Ids of a list: a rule has the id of a place that is not behind its own, and
\* the rule at that place has the same id.  So the first rule with an id is at
\* the place of the id.
InPlace(L) == \A i \in DOMAIN L : L[i].id \in 0 .. i - 1 /\ L[L[i].id + 1].id = L[i].id

\* No two rules of a list have the same key.
Apart(kind, L) == \A i, j \in DOMAIN L : Key(kind, L[i]) = Key(kind, L[j]) => i = j

\* The rules of a list are in a table.
Served(kind, L, t) ==
  \A i \in DOMAIN L : Key(kind, L[i]) \in DOMAIN t /\ t[Key(kind, L[i])] = L[i].rule.to

\* The keys of a kind that are in a table are those of its list.
Covered(kind, L, t) ==
  \A k \in DOMAIN t \cap OwnKeys(kind) : \E i \in DOMAIN L : Key(kind, L[i]) = k

\* A list that has not parted from its table.
Sound(kind, L, t) == InPlace(L) /\ Apart(kind, L) /\ Served(kind, L, t)

\* The keys that a table may have.
Admitted(m) == IF m = "sm_rules" THEN KeysOf("snat") \cup {Everyone}
               ELSE KeysOf("dnat") \cup KeysOf("pf")

Types ==
  /\ DOMAIN rules_ = Kinds /\ tables = [m \in Maps |-> tables[m]]
  /\ \A kind \in Kinds : rules_[kind] \in Seq(Entry(kind))
  /\ \A m \in Maps : DOMAIN tables[m] \subseteq Admitted(m)
  /\ enabled \in BOOLEAN
  /\ client \in [op : {"idle", "inject", "on", "off"}, ip : Addresses \cup {NoAddress},
                 set : BOOLEAN]
  /\ callback \in [Callers -> [place : {"idle", "test", "read", "inject"},
                               ip : Addresses \cup {NoAddress}]]
  /\ external_ip_ \in Addresses \cup {NoAddress}

Lists ==
  /\ "listed" \notin gaps =>
       \A kind \in Kinds : Sound(kind, rules_[kind], tables[MapOf(kind)])
  /\ gaps \cap {"listed", "dropped"} = {} =>
       \A kind \in Kinds : Covered(kind, rules_[kind], tables[MapOf(kind)])

\* The masquerade rule is in the table with the address of the interface, or a
\* SNAT rule for all the hosts is listed in its place.
Masqueraded == \/ Everyone \in KeysIn("snat", rules_["snat"])
               \/ /\ Everyone \in DOMAIN tables["sm_rules"]
                  /\ tables["sm_rules"][Everyone] = external_ip_

AllReturned == \A c \in Callers : callback[c].place = "idle"

\* A request that turns masquerade on has read the address that still is that
\* of the interface, and what was turned on is in the table, or the one callback
\* that runs is about to write it.
Switch ==
  gaps = {} =>
    /\ client.op = "inject" => client.ip = external_ip_ /\ external_ip_ # NoAddress
    /\ client.op = "on" /\ external_ip_ # NoAddress => Masqueraded
    /\ enabled /\ external_ip_ # NoAddress /\ AllReturned /\ client.op # "off" => Masqueraded
    /\ \A c, d \in Callers : callback[c].place # "idle" /\ callback[d].place # "idle" => c = d
    /\ \A c \in Callers : callback[c].place = "inject" => callback[c].ip = external_ip_

NatInv == Types /\ Lists /\ Switch
-----------------------------------------------------------------------------
(* The operators of the lists and of the tables.                           *)

\* Two tables that differ in keys of one kind at most.
Agree(kind, t, u) ==
  /\ DOMAIN u \ KeysOf(kind) = DOMAIN t \ KeysOf(kind)
  /\ \A k \in DOMAIN t \ KeysOf(kind) : u[k] = t[k]

\* The kinds that share a table have different keys.
LEMMA KeysApart ==
  \A kind, other \in Kinds :
    kind # other /\ MapOf(kind) = MapOf(other) => KeysOf(kind) \cap KeysOf(other) = {}
<1>2. \A r \in RulesOf("dnat"), f \in RulesOf("pf") : KeyOf("dnat", r) # KeyOf("pf", f)
  BY KeysAssumption DEF RulesOf
<1>3. KeysOf("dnat") \cap KeysOf("pf") = {}
  BY <1>2 DEF KeysOf
<1>4. ASSUME NEW kind \in Kinds, NEW other \in Kinds, kind # other, MapOf(kind) = MapOf(other)
      PROVE  KeysOf(kind) \cap KeysOf(other) = {}
  <2>1. {kind, other} = {"dnat", "pf"}
    BY <1>4 DEF Kinds, MapOf
  <2> QED BY <1>3, <2>1
<1> QED BY <1>4

\* A rule in a list has a key of its kind.
LEMMA EntryKey ==
  ASSUME NEW kind, NEW L \in Seq(Entry(kind)), NEW i \in DOMAIN L
  PROVE  /\ L[i] \in Entry(kind) /\ L[i].id \in Nat /\ L[i].rule \in RulesOf(kind)
         /\ Key(kind, L[i]) = KeyOf(kind, L[i].rule) /\ Key(kind, L[i]) \in KeysOf(kind)
<1>1. L[i] \in Entry(kind)
  <2> i \in 1 .. Len(L)
    BY LenProperties
  <2> QED BY ElementOfSeq
<1>2. L[i].id \in Nat /\ L[i].rule \in RulesOf(kind)
  BY <1>1 DEF Entry
<1> QED BY <1>1, <1>2 DEF Key, KeysOf

\* At finds nothing or the rule at the place of the id.
LEMMA AtPlace ==
  ASSUME NEW kind, NEW L \in Seq(Entry(kind)), InPlace(L), NEW id \in Nat
  PROVE  \A i \in At(L, id) : i \in DOMAIN L /\ L[i].id = id /\ i = id + 1 /\ i = Place(L, id)
<1> DEFINE found == {i \in DOMAIN L : L[i].id = id}
<1>1. CASE found = {}
  BY <1>1 DEF At
<1>2. CASE found # {}
  <2>1. PICK i \in DOMAIN L : L[i].id = id
    BY <1>2
  <2>2. id + 1 \in found /\ id < Len(L)
    BY <2>1 DEF InPlace
  <2>3. \A j \in found : j \in Nat /\ id + 1 <= j
    BY DEF InPlace
  <2>4. Min(found) \in found /\ \A j \in found : Min(found) <= j
    <3>1. \E x \in found : \A j \in found : x <= j
      BY <2>2, <2>3
    <3> HIDE DEF found
    <3> QED BY <3>1 DEF Min
  <2>5. Min(found) = id + 1
    <3> HIDE DEF found
    <3>1. Min(found) \in Nat /\ id + 1 <= Min(found) /\ Min(found) <= id + 1
      BY <2>2, <2>3, <2>4
    <3> QED BY <3>1
  <2>6. At(L, id) = {Min(found)}
    BY <1>2 DEF At
  <2> QED BY <2>2, <2>5, <2>6 DEF Place
<1> QED BY <1>1, <1>2

\* Intervals that are equal end at the same place.
LEMMA SameInterval == \A a, b \in Nat : 1 .. a = 1 .. b => a = b
<1> SUFFICES ASSUME NEW a \in Nat, NEW b \in Nat, 1 .. a = 1 .. b PROVE a = b
  OBVIOUS
<1>1. a # 0 => a \in 1 .. b
  OBVIOUS
<1>2. b # 0 => b \in 1 .. a
  OBVIOUS
<1> QED BY <1>1, <1>2

\* Where the rules of Without come from.
Origin(id, i) == IF i <= id THEN i ELSE i + 1

\* Without keeps every rule but the one at the place, in order, and numbers anew.
LEMMA WithoutList ==
  ASSUME NEW kind, NEW L \in Seq(Entry(kind)), L # <<>>, NEW id \in Nat
  PROVE  /\ Without(L, id) \in Seq(Entry(kind))
         /\ Len(Without(L, id)) = Len(L) - 1 /\ DOMAIN Without(L, id) = 1 .. Len(L) - 1
         /\ \A i \in DOMAIN Without(L, id) :
              /\ Origin(id, i) \in DOMAIN L /\ Origin(id, i) # Place(L, id)
              /\ Without(L, id)[i].rule = L[Origin(id, i)].rule
              /\ Without(L, id)[i].id = IF i <= id THEN L[i].id ELSE i - 1
         /\ \A j \in DOMAIN L : j # Place(L, id) =>
              \E i \in DOMAIN Without(L, id) : Origin(id, i) = j
<1> DEFINE W == Without(L, id)
           n == Len(L) - 1
<1>1. n \in Nat /\ Len(L) = n + 1 /\ DOMAIN L = 1 .. n + 1
  BY EmptySeq, LenProperties
<1>2. DOMAIN W = 1 .. n
  BY DEF Without
<1>3. ASSUME NEW i \in 1 .. n
      PROVE  /\ Origin(id, i) \in DOMAIN L /\ Origin(id, i) # Place(L, id)
             /\ W[i].rule = L[Origin(id, i)].rule
             /\ W[i].id = IF i <= id THEN L[i].id ELSE i - 1
             /\ W[i] \in Entry(kind)
  <2>1. Origin(id, i) \in DOMAIN L /\ Origin(id, i) # Place(L, id)
    BY <1>1 DEF Origin, Place
  <2>2. W[i] = IF i <= id THEN L[i] ELSE [id |-> i - 1, rule |-> L[i + 1].rule]
    BY DEF Without
  <2>3. W[i].rule = L[Origin(id, i)].rule /\ W[i].id = IF i <= id THEN L[i].id ELSE i - 1
    BY <2>2 DEF Origin
  <2>4. L[Origin(id, i)] \in Entry(kind) /\ L[Origin(id, i)].rule \in RulesOf(kind)
    BY <2>1, EntryKey
  <2>5. W[i] \in Entry(kind)
    <3>1. CASE i <= id
      BY <2>2, <2>4, <3>1 DEF Origin
    <3>2. CASE ~(i <= id)
      BY <2>2, <2>4, <3>2, <1>1 DEF Origin, Entry
    <3> QED BY <3>1, <3>2
  <2> QED BY <2>1, <2>3, <2>5
<1>4. W \in Seq(Entry(kind)) /\ Len(W) = n
  <2>1. W = [i \in 1 .. n |-> W[i]]
    BY DEF Without
  <2>2. W \in [1 .. n -> Entry(kind)]
    BY <1>3, <2>1
  <2> HIDE DEF W, n
  <2>3. W \in Seq(Entry(kind))
    BY <2>2, <1>1, SeqDef
  <2>4. Len(W) \in Nat /\ DOMAIN W = 1 .. Len(W)
    BY <2>3, LenProperties
  <2>5. n \in Nat /\ 1 .. Len(W) = 1 .. n
    BY <2>4, <1>1, <1>2
  <2>6. Len(W) = n
    BY <2>4, <2>5, SameInterval
  <2> QED BY <2>3, <2>6
<1>5. ASSUME NEW j \in DOMAIN L, j # Place(L, id)
      PROVE  \E i \in 1 .. n : Origin(id, i) = j
  <2>1. CASE j <= id
    BY <1>1, <1>5, <2>1 DEF Origin, Place
  <2>2. CASE ~(j <= id)
    <3>1. j - 1 \in 1 .. n /\ ~(j - 1 <= id)
      BY <1>1, <1>5, <2>2 DEF Place
    <3> QED BY <3>1, <1>1 DEF Origin
  <2> QED BY <2>1, <2>2
<1> QED BY <1>2, <1>3, <1>4, <1>5

\* What delEntry leaves is sound: the rule it removes from the table is the one
\* that it removes from the list.
LEMMA RemoveSound ==
  ASSUME NEW kind, NEW L \in Seq(Entry(kind)), L # <<>>, NEW id \in Nat, NEW t,
         Sound(kind, L, t)
  PROVE  Sound(kind, Without(L, id), Removed(t, {Key(kind, L[i]) : i \in At(L, id)}))
<1> DEFINE W == Without(L, id)
           gone == {Key(kind, L[i]) : i \in At(L, id)}
<1>1. /\ DOMAIN W = 1 .. Len(L) - 1 /\ Len(L) \in Nat
      /\ \A i \in DOMAIN W :
           /\ Origin(id, i) \in DOMAIN L /\ Origin(id, i) # Place(L, id)
           /\ W[i].rule = L[Origin(id, i)].rule
           /\ W[i].id = IF i <= id THEN L[i].id ELSE i - 1
  BY WithoutList, LenProperties
<1>2. \A i \in At(L, id) : i \in DOMAIN L /\ i = Place(L, id)
  BY AtPlace DEF Sound
<1>3. \A i \in DOMAIN W : Key(kind, W[i]) = Key(kind, L[Origin(id, i)])
  BY <1>1 DEF Key
<1>4. InPlace(W)
  <2> SUFFICES ASSUME NEW i \in DOMAIN W
               PROVE  W[i].id \in 0 .. i - 1 /\ W[W[i].id + 1].id = W[i].id
    BY DEF InPlace
  <2> HIDE DEF W
  <2>1. CASE i <= id
    <3>1. i \in DOMAIN L /\ W[i].id = L[i].id
      BY <1>1, <2>1 DEF Origin
    <3>2. L[i].id \in 0 .. i - 1 /\ L[L[i].id + 1].id = L[i].id
      BY <3>1 DEF Sound, InPlace
    <3>3. L[i].id + 1 \in DOMAIN W /\ L[i].id + 1 <= id
      BY <1>1, <2>1, <3>2
    <3>4. W[L[i].id + 1].id = L[L[i].id + 1].id
      BY <1>1, <3>3
    <3> QED BY <3>1, <3>2, <3>4
  <2>2. CASE ~(i <= id)
    <3>1. W[i].id = i - 1 /\ i \in Nat /\ i > 0
      BY <1>1, <2>2
    <3> QED BY <3>1
  <2> QED BY <2>1, <2>2
<1>5. Apart(kind, W)
  <2> SUFFICES ASSUME NEW i \in DOMAIN W, NEW j \in DOMAIN W,
                      Key(kind, W[i]) = Key(kind, W[j])
               PROVE  i = j
    BY DEF Apart
  <2> HIDE DEF W
  <2>1. Origin(id, i) = Origin(id, j)
    BY <1>1, <1>3 DEF Sound, Apart
  <2> QED BY <2>1, <1>1 DEF Origin
<1>6. Served(kind, W, Removed(t, gone))
  <2> SUFFICES ASSUME NEW i \in DOMAIN W
               PROVE  /\ Key(kind, W[i]) \in DOMAIN Removed(t, gone)
                      /\ Removed(t, gone)[Key(kind, W[i])] = W[i].rule.to
    BY DEF Served
  <2> HIDE DEF W
  <2>1. /\ Key(kind, L[Origin(id, i)]) \in DOMAIN t
        /\ t[Key(kind, L[Origin(id, i)])] = L[Origin(id, i)].rule.to
    BY <1>1 DEF Sound, Served
  <2>2. Key(kind, L[Origin(id, i)]) \notin gone
    BY <1>1, <1>2 DEF Sound, Apart
  <2> HIDE DEF gone
  <2> QED BY <1>1, <1>3, <2>1, <2>2 DEF Removed
<1> QED BY <1>4, <1>5, <1>6 DEF Sound

\* The keys that stay after delEntry are listed, if a rule with the id was found.
LEMMA RemoveCovered ==
  ASSUME NEW kind, NEW L \in Seq(Entry(kind)), L # <<>>, NEW id \in Nat, NEW t,
         Covered(kind, L, t), At(L, id) = {Place(L, id)}
  PROVE  Covered(kind, Without(L, id), Removed(t, {Key(kind, L[i]) : i \in At(L, id)}))
<1> DEFINE W == Without(L, id)
           gone == {Key(kind, L[i]) : i \in At(L, id)}
<1> SUFFICES ASSUME NEW k \in DOMAIN Removed(t, gone) \cap OwnKeys(kind)
             PROVE  \E i \in DOMAIN W : Key(kind, W[i]) = k
  BY DEF Covered
<1>1. k \in DOMAIN t \cap OwnKeys(kind) /\ k \notin gone
  <2> HIDE DEF gone
  <2> QED BY DEF Removed
<1>2. PICK j \in DOMAIN L : Key(kind, L[j]) = k
  BY <1>1 DEF Covered
<1>3. j # Place(L, id)
  BY <1>1, <1>2
<1>4. PICK i \in DOMAIN W : Origin(id, i) = j
  BY <1>3, WithoutList
<1>5. W[i].rule = L[j].rule
  BY <1>4, WithoutList
<1> QED BY <1>2, <1>4, <1>5 DEF Key

\* A rule that is entered in the list and in the table.  The id is that of a
\* new place or one that the rule at its place has.
LEMMA AddSound ==
  ASSUME NEW kind, NEW L \in Seq(Entry(kind)), NEW t, Sound(kind, L, t),
         NEW r \in RulesOf(kind), ~Duplicate(kind, L, r),
         NEW id \in 0 .. Len(L), id = Len(L) \/ L[id + 1].id = id
  PROVE  Sound(kind, Append(L, [id |-> id, rule |-> r]), Set(t, KeyOf(kind, r), r.to))
<1> DEFINE A == Append(L, [id |-> id, rule |-> r])
           u == Set(t, KeyOf(kind, r), r.to)
           n == Len(L)
<1>1. /\ n \in Nat /\ DOMAIN L = 1 .. n /\ DOMAIN A = 1 .. n + 1
      /\ \A i \in 1 .. n : A[i] = L[i]
      /\ A[n + 1] = [id |-> id, rule |-> r]
  BY AppendProperties, LenProperties
<1>2. A[n + 1].id = id /\ A[n + 1].rule = r /\ Key(kind, A[n + 1]) = KeyOf(kind, r)
  BY <1>1 DEF Key
<1>3. \A i \in 1 .. n : Key(kind, A[i]) = Key(kind, L[i]) /\ Key(kind, L[i]) # KeyOf(kind, r)
  BY <1>1 DEF Duplicate, Range
<1> HIDE DEF A
<1>4. InPlace(A)
  <2> SUFFICES ASSUME NEW i \in DOMAIN A
               PROVE  A[i].id \in 0 .. i - 1 /\ A[A[i].id + 1].id = A[i].id
    BY DEF InPlace
  <2>1. CASE i \in 1 .. n
    <3>1. L[i].id \in 0 .. i - 1 /\ L[L[i].id + 1].id = L[i].id
      BY <1>1, <2>1 DEF Sound, InPlace
    <3>2. L[i].id + 1 \in 1 .. n
      BY <1>1, <2>1, <3>1
    <3> QED BY <1>1, <2>1, <3>1, <3>2
  <2>2. CASE i = n + 1
    <3>1. CASE id = n
      BY <1>1, <1>2, <2>2, <3>1
    <3>2. CASE id # n
      <4>1. id + 1 \in 1 .. n /\ L[id + 1].id = id
        BY <1>1, <3>2
      <4> QED BY <1>1, <1>2, <2>2, <4>1
    <3> QED BY <3>1, <3>2
  <2> QED BY <1>1, <2>1, <2>2
<1>5. Apart(kind, A)
  <2> SUFFICES ASSUME NEW i \in DOMAIN A, NEW j \in DOMAIN A,
                      Key(kind, A[i]) = Key(kind, A[j])
               PROVE  i = j
    BY DEF Apart
  <2>1. CASE i \in 1 .. n /\ j \in 1 .. n
    BY <1>1, <1>3, <2>1 DEF Sound, Apart
  <2>2. CASE i = n + 1 \/ j = n + 1
    BY <1>1, <1>2, <1>3, <2>2
  <2> QED BY <1>1, <2>1, <2>2
<1>6. Served(kind, A, u)
  <2> SUFFICES ASSUME NEW i \in DOMAIN A
               PROVE  Key(kind, A[i]) \in DOMAIN u /\ u[Key(kind, A[i])] = A[i].rule.to
    BY DEF Served
  <2>1. CASE i \in 1 .. n
    <3>1. Key(kind, L[i]) \in DOMAIN t /\ t[Key(kind, L[i])] = L[i].rule.to
      BY <1>1, <2>1 DEF Sound, Served
    <3> QED BY <1>1, <1>3, <2>1, <3>1 DEF Set
  <2>2. CASE i = n + 1
    BY <1>2, <2>2 DEF Set
  <2> QED BY <1>1, <2>1, <2>2
<1> QED BY <1>4, <1>5, <1>6 DEF Sound, A

\* The key of the new rule is listed.
LEMMA AddCovered ==
  ASSUME NEW kind, NEW L \in Seq(Entry(kind)), NEW t, Covered(kind, L, t),
         NEW r \in RulesOf(kind), NEW id \in Nat
  PROVE  Covered(kind, Append(L, [id |-> id, rule |-> r]), Set(t, KeyOf(kind, r), r.to))
<1> DEFINE A == Append(L, [id |-> id, rule |-> r])
<1>1. /\ Len(L) \in Nat /\ DOMAIN L = 1 .. Len(L) /\ DOMAIN A = 1 .. Len(L) + 1
      /\ \A i \in 1 .. Len(L) : A[i] = L[i]
      /\ A[Len(L) + 1] = [id |-> id, rule |-> r]
  BY AppendProperties, LenProperties
<1>2. Key(kind, A[Len(L) + 1]) = KeyOf(kind, r)
  BY <1>1 DEF Key
<1> SUFFICES ASSUME NEW k \in DOMAIN Set(t, KeyOf(kind, r), r.to) \cap OwnKeys(kind)
             PROVE  \E i \in DOMAIN A : Key(kind, A[i]) = k
  BY DEF Covered
<1> HIDE DEF A
<1>3. CASE k = KeyOf(kind, r)
  BY <1>1, <1>2, <1>3
<1>4. CASE k # KeyOf(kind, r)
  <2>1. PICK i \in DOMAIN L : Key(kind, L[i]) = k
    BY <1>4 DEF Set, Covered
  <2> QED BY <1>1, <2>1
<1> QED BY <1>3, <1>4

\* Changes of a table that keep to the keys of one kind.
LEMMA AgreeKept ==
  ASSUME NEW kind
  PROVE  /\ \A t : Agree(kind, t, t)
         /\ \A t, u, v : Agree(kind, t, u) /\ Agree(kind, u, v) => Agree(kind, t, v)
         /\ \A t, to : \A k \in KeysOf(kind) : Agree(kind, t, Set(t, k, to))
         /\ \A t : \A keys \in SUBSET KeysOf(kind) : Agree(kind, t, Removed(t, keys))
<1>1. \A t : Agree(kind, t, t)
  BY DEF Agree
<1>2. \A t, u, v : Agree(kind, t, u) /\ Agree(kind, u, v) => Agree(kind, t, v)
  BY DEF Agree
<1>3. \A t, to : \A k \in KeysOf(kind) : Agree(kind, t, Set(t, k, to))
  BY DEF Agree, Set
<1>4. \A t : \A keys \in SUBSET KeysOf(kind) : Agree(kind, t, Removed(t, keys))
  BY DEF Agree, Removed
<1> QED BY <1>1, <1>2, <1>3, <1>4

\* The lists of another kind do not see such a change.
LEMMA OtherKind ==
  ASSUME NEW kind \in Kinds, NEW other \in Kinds, other # kind, MapOf(other) = MapOf(kind),
         NEW L \in Seq(Entry(other)), NEW t, NEW u, Agree(kind, t, u)
  PROVE  /\ Sound(other, L, t) => Sound(other, L, u)
         /\ Covered(other, L, t) => Covered(other, L, u)
<1>1. KeysOf(other) \cap KeysOf(kind) = {}
  BY KeysApart
<1>2. \A k \in KeysOf(other) : (k \in DOMAIN t <=> k \in DOMAIN u)
                               /\ (k \in DOMAIN t => u[k] = t[k])
  BY <1>1 DEF Agree
<1>3. \A i \in DOMAIN L : Key(other, L[i]) \in KeysOf(other)
  BY EntryKey
<1>4. Served(other, L, t) => Served(other, L, u)
  BY <1>2, <1>3 DEF Served
<1>5. Covered(other, L, t) => Covered(other, L, u)
  BY <1>2 DEF Covered, OwnKeys
<1> QED BY <1>4, <1>5 DEF Sound

\* What an edit of the SNAT rules does to the key of masquerade: a rule has it,
\* or its entry stays and no rule that had it has gone.
Spared(L, M, t, u) ==
  \/ Everyone \in KeysIn("snat", M)
  \/ /\ Everyone \notin KeysIn("snat", L)
     /\ Everyone \in DOMAIN t => Everyone \in DOMAIN u /\ u[Everyone] = t[Everyone]

\* Two edits in a row.
LEMMA SparedTwice ==
  ASSUME NEW L, NEW M, NEW N, NEW t, NEW u, NEW v,
         Spared(L, M, t, u), Spared(M, N, u, v)
  PROVE  Spared(L, N, t, v)
BY DEF Spared

\* A rule that is entered.
LEMMA AddSpared ==
  ASSUME NEW L \in Seq(Entry("snat")), NEW t, NEW r \in RulesOf("snat"), NEW id \in Nat
  PROVE  Spared(L, Append(L, [id |-> id, rule |-> r]), t, Set(t, KeyOf("snat", r), r.to))
<1> DEFINE A == Append(L, [id |-> id, rule |-> r])
           u == Set(t, KeyOf("snat", r), r.to)
<1>1. /\ Len(L) \in Nat /\ DOMAIN L = 1 .. Len(L) /\ DOMAIN A = 1 .. Len(L) + 1
      /\ \A i \in 1 .. Len(L) : A[i] = L[i]
      /\ A[Len(L) + 1] = [id |-> id, rule |-> r]
  BY AppendProperties, LenProperties
<1>2. Key("snat", A[Len(L) + 1]) = KeyOf("snat", r)
  BY <1>1 DEF Key
<1>3. KeysIn("snat", L) \cup {KeyOf("snat", r)} \subseteq KeysIn("snat", A)
  <2> HIDE DEF A
  <2> QED BY <1>1, <1>2 DEF KeysIn
<1>4. /\ DOMAIN u = DOMAIN t \cup {KeyOf("snat", r)}
      /\ \A k \in DOMAIN t : k # KeyOf("snat", r) => u[k] = t[k]
  BY DEF Set
<1> HIDE DEF A, u
<1>5. Spared(L, A, t, u)
  BY <1>3, <1>4 DEF Spared
<1> QED BY <1>5 DEF A, u

\* A rule that is removed and does not have the key of masquerade.
LEMMA RemoveSpared ==
  ASSUME NEW L \in Seq(Entry("snat")), L # <<>>, NEW id \in Nat, NEW t,
         At(L, id) = {Place(L, id)},
         Everyone \notin {Key("snat", L[i]) : i \in At(L, id)}
  PROVE  Spared(L, Without(L, id), t, Removed(t, {Key("snat", L[i]) : i \in At(L, id)}))
<1> DEFINE W == Without(L, id)
           gone == {Key("snat", L[i]) : i \in At(L, id)}
<1>1. Everyone \in KeysIn("snat", L) => Everyone \in KeysIn("snat", W)
  <2> SUFFICES ASSUME NEW j \in DOMAIN L, Key("snat", L[j]) = Everyone
               PROVE  \E i \in DOMAIN W : Key("snat", W[i]) = Everyone
    BY DEF KeysIn
  <2>1. j # Place(L, id)
    OBVIOUS
  <2>2. PICK i \in DOMAIN W : Origin(id, i) = j
    BY <2>1, WithoutList
  <2>3. W[i].rule = L[j].rule
    BY <2>2, WithoutList
  <2> QED BY <2>2, <2>3 DEF Key
<1>2. Everyone \in DOMAIN t =>
        Everyone \in DOMAIN Removed(t, gone) /\ Removed(t, gone)[Everyone] = t[Everyone]
  <2> HIDE DEF gone
  <2>1. Everyone \notin gone
    BY DEF gone
  <2> QED BY <2>1 DEF Removed
<1> HIDE DEF W, gone
<1>3. Spared(L, W, t, Removed(t, gone))
  BY <1>1, <1>2 DEF Spared
<1> QED BY <1>3 DEF W, gone

-----------------------------------------------------------------------------
(* The requests that edit a list.                                          *)

\* What they all do: one list and its table change together.
Edited(kind, L, u) ==
  /\ rules_' = [rules_ EXCEPT ![kind] = L]
  /\ tables' = [tables EXCEPT ![MapOf(kind)] = u]
  /\ L \in Seq(Entry(kind)) /\ Agree(kind, tables[MapOf(kind)], u)
  /\ "listed" \notin gaps' => Sound(kind, L, u)
  /\ gaps' \cap {"listed", "dropped"} = {} => Covered(kind, L, u)
  /\ kind = "snat" /\ enabled /\ gaps' = {} => Spared(rules_["snat"], L, tables["sm_rules"], u)
  /\ gaps \subseteq gaps' /\ client.op = "idle"
  /\ UNCHANGED switch

\* A kind has a table, and its keys may be there.
LEMMA MapOfKind ==
  \A kind \in Kinds : MapOf(kind) \in Maps /\ KeysOf(kind) \subseteq Admitted(MapOf(kind))
BY DEF Kinds, Maps, MapOf, Admitted

\* Such a request keeps the invariant.
LEMMA EditedKeeps ==
  ASSUME NatInv, NEW kind \in Kinds, NEW L, NEW u, Edited(kind, L, u)
  PROVE  NatInv'
<1> DEFINE m == MapOf(kind)
<1>1. /\ m \in Maps /\ KeysOf(kind) \subseteq Admitted(m)
      /\ \A other \in Kinds : MapOf(other) \in Maps
  BY MapOfKind
<1>2. DOMAIN rules_ = Kinds /\ DOMAIN tables = Maps
  BY DEF NatInv, Types
<1>3. /\ DOMAIN rules_' = Kinds /\ rules_'[kind] = L
      /\ \A other \in Kinds : other # kind => rules_'[other] = rules_[other]
      /\ DOMAIN tables' = Maps /\ tables'[m] = u
      /\ \A other \in Maps : other # m => tables'[other] = tables[other]
  BY <1>1, <1>2 DEF Edited
<1>4. L \in Seq(Entry(kind)) /\ Agree(kind, tables[m], u) /\ UNCHANGED switch
  BY DEF Edited
<1>5. Types'
  <2>1. \A other \in Kinds : rules_'[other] \in Seq(Entry(other))
    BY <1>3, <1>4 DEF NatInv, Types
  <2>2. DOMAIN u \subseteq Admitted(m)
    BY <1>1, <1>4 DEF NatInv, Types, Agree
  <2>3. \A other \in Maps : DOMAIN tables'[other] \subseteq Admitted(other)
    BY <1>3, <2>2 DEF NatInv, Types
  <2>4. tables' = [other \in Maps |-> tables'[other]]
    BY <1>1 DEF NatInv, Types, Edited
  <2> QED BY <1>3, <1>4, <2>1, <2>3, <2>4 DEF NatInv, Types, switch
<1>6. ASSUME NEW other \in Kinds
      PROVE  /\ "listed" \notin gaps' => Sound(other, rules_'[other], tables'[MapOf(other)])
             /\ gaps' \cap {"listed", "dropped"} = {} =>
                  Covered(other, rules_'[other], tables'[MapOf(other)])
  <2>1. /\ "listed" \notin gaps' => Sound(other, rules_[other], tables[MapOf(other)])
        /\ gaps' \cap {"listed", "dropped"} = {} =>
             Covered(other, rules_[other], tables[MapOf(other)])
    BY DEF NatInv, Lists, Edited
  <2>2. CASE other = kind
    BY <1>3, <2>2 DEF Edited
  <2>3. CASE other # kind /\ MapOf(other) = m
    <3>1. rules_[other] \in Seq(Entry(other))
      BY DEF NatInv, Types
    <3>2. /\ Sound(other, rules_[other], tables[m]) => Sound(other, rules_[other], u)
          /\ Covered(other, rules_[other], tables[m]) => Covered(other, rules_[other], u)
      BY <1>4, <2>3, <3>1, OtherKind
    <3> QED BY <1>3, <2>1, <2>3, <3>2
  <2>4. CASE other # kind /\ MapOf(other) # m
    BY <1>1, <1>3, <2>1, <2>4
  <2> QED BY <2>2, <2>3, <2>4
<1>7. Lists'
  BY <1>6 DEF Lists
<1>8. Switch'
  <2>1. ASSUME enabled, gaps' = {}, Masqueraded PROVE Masqueraded'
    <3>1. CASE kind = "snat"
      <4>1. m = "sm_rules"
        BY <3>1 DEF MapOf
      <4>2. enabled /\ gaps' = {} => Spared(rules_["snat"], L, tables["sm_rules"], u)
        BY <3>1 DEF Edited
      <4>3. rules_'["snat"] = L /\ tables'["sm_rules"] = u /\ external_ip_' = external_ip_
        BY <1>3, <1>4, <3>1, <4>1 DEF switch
      <4> QED BY <2>1, <4>2, <4>3 DEF Spared, Masqueraded
    <3>2. CASE kind # "snat"
      <4>1. "snat" \in Kinds /\ "sm_rules" \in Maps /\ m # "sm_rules"
        BY <3>2 DEF Kinds, Maps, MapOf
      <4>2. rules_'["snat"] = rules_["snat"] /\ tables'["sm_rules"] = tables["sm_rules"]
        BY <1>3, <3>2, <4>1
      <4> QED BY <1>4, <2>1, <4>2 DEF Masqueraded, switch
    <3> QED BY <3>1, <3>2
  <2>2. gaps' = {} => gaps = {}
    BY DEF Edited
  <2>3. client.op = "idle"
    BY DEF Edited
  <2> QED BY <1>4, <2>1, <2>2, <2>3 DEF NatInv, Switch, AllReturned, switch
<1> QED BY <1>5, <1>7, <1>8 DEF NatInv

\* The list and the table before a request.
LEMMA Before ==
  ASSUME NatInv, Bounded, NEW kind \in Kinds
  PROVE  /\ rules_[kind] \in Seq(Entry(kind)) /\ Len(rules_[kind]) \in Nat
         /\ Sound(kind, rules_[kind], tables[MapOf(kind)])
         /\ gaps \cap {"listed", "dropped"} = {} =>
              Covered(kind, rules_[kind], tables[MapOf(kind)])
         /\ gaps \cap {"listed"} = {}
<1>1. rules_[kind] \in Seq(Entry(kind))
  BY DEF NatInv, Types
<1>2. Len(rules_[kind]) \in Nat
  BY <1>1, LenProperties
<1>3. "listed" \notin gaps
  BY FinalAssumption DEF Bounded
<1> QED BY <1>1, <1>2, <1>3 DEF NatInv, Lists

\* A rule at the end of a list of its kind.
LEMMA Appended ==
  ASSUME NEW kind, NEW L \in Seq(Entry(kind)), NEW id \in Nat, NEW r \in RulesOf(kind)
  PROVE  Append(L, [id |-> id, rule |-> r]) \in Seq(Entry(kind))
<1>1. [id |-> id, rule |-> r] \in Entry(kind)
  BY DEF Entry
<1> QED BY <1>1, AppendProperties

\* append: the new rule has the next id and a key that no rule has.
LEMMA AppendEdits ==
  ASSUME NatInv, Bounded, NEW kind \in Kinds, NEW r \in RulesOf(kind), AppendEntry(kind, r)
  PROVE  \E L, u : Edited(kind, L, u)
<1> DEFINE M == rules_[kind]
           t == tables[MapOf(kind)]
           L == Append(M, [id |-> Len(M), rule |-> r])
           u == Set(t, KeyOf(kind, r), r.to)
<1>1. /\ M \in Seq(Entry(kind)) /\ Len(M) \in Nat /\ Sound(kind, M, t)
      /\ gaps \cap {"listed", "dropped"} = {} => Covered(kind, M, t)
  BY Before
<1>2. ~Duplicate(kind, M, r)
  BY DEF AppendEntry, Enters
<1>3. KeyOf(kind, r) \in KeysOf(kind)
  BY DEF KeysOf
<1>4. L \in Seq(Entry(kind))
  BY <1>1, Appended
<1>5. Agree(kind, t, u)
  BY <1>3, AgreeKept
<1>6. Sound(kind, L, u)
  BY <1>1, <1>2, AddSound
<1>7. Covered(kind, M, t) => Covered(kind, L, u)
  BY <1>1, AddCovered
<1>8. kind = "snat" => Spared(rules_["snat"], L, tables["sm_rules"], u)
  BY <1>1, AddSpared DEF MapOf
<1>9. /\ rules_' = [rules_ EXCEPT ![kind] = L] /\ tables' = [tables EXCEPT ![MapOf(kind)] = u]
      /\ gaps' = gaps /\ UNCHANGED switch /\ client.op = "idle"
  BY DEF AppendEntry, Entered, Enters, Quiet
<1>10. Edited(kind, L, u)
  BY <1>1, <1>4, <1>5, <1>6, <1>7, <1>8, <1>9 DEF Edited
<1> QED BY <1>10

\* The requests that part the list from the table need no more than their types.
LEMMA RefusedEdits ==
  ASSUME NatInv, Bounded, NEW kind \in Kinds, NEW r \in RulesOf(kind), AppendRefused(kind, r)
  PROVE  \E L, u : Edited(kind, L, u)
<1> DEFINE M == rules_[kind]
           L == Append(M, [id |-> Len(M), rule |-> r])
           u == tables[MapOf(kind)]
<1>1. L \in Seq(Entry(kind))
  BY Before, Appended
<1>2. Agree(kind, u, u)
  BY AgreeKept
<1>3. /\ rules_' = [rules_ EXCEPT ![kind] = L] /\ tables' = [tables EXCEPT ![MapOf(kind)] = u]
      /\ gaps' = gaps \cup {"listed"} /\ UNCHANGED switch /\ client.op = "idle"
  BY DEF AppendRefused, Entered, Enters, Quiet, Gap
<1>4. Edited(kind, L, u)
  BY <1>1, <1>2, <1>3 DEF Edited
<1> QED BY <1>4

\* POST of an entry.
LEMMA AddEdits ==
  ASSUME NatInv, Bounded, NEW kind \in Kinds, NEW r \in RulesOf(kind), NEW id \in Nat,
         AddEntry(kind, id, r)
  PROVE  \E L, u : Edited(kind, L, u)
<1> DEFINE t == tables[MapOf(kind)]
           L == Append(rules_[kind], [id |-> id, rule |-> r])
           u == IF Fits(MapOf(kind), KeyOf(kind, r)) THEN Set(t, KeyOf(kind, r), r.to) ELSE t
<1>1. L \in Seq(Entry(kind))
  BY Before, Appended
<1>2. KeyOf(kind, r) \in KeysOf(kind)
  BY DEF KeysOf
<1>3. Agree(kind, t, u)
  BY <1>2, AgreeKept
<1>4. /\ rules_' = [rules_ EXCEPT ![kind] = L] /\ tables' = [tables EXCEPT ![MapOf(kind)] = u]
      /\ gaps' = gaps \cup {"listed"} /\ UNCHANGED switch /\ client.op = "idle"
  BY DEF AddEntry, Entered, Enters, Quiet, Gap
<1>5. Edited(kind, L, u)
  BY <1>1, <1>3, <1>4 DEF Edited
<1> QED BY <1>5

\* PATCH of an entry: the list stays one of its kind.
LEMMA UpdateEdits ==
  ASSUME NatInv, Bounded, NEW kind \in Kinds, NEW r \in RulesOf(kind), NEW id \in Nat,
         UpdateEntry(kind, id, r)
  PROVE  \E L, u : Edited(kind, L, u)
<1> DEFINE M == rules_[kind]
           u == tables[MapOf(kind)]
<1>1. M \in Seq(Entry(kind)) /\ Sound(kind, M, u)
  BY Before
<1>2. PICK i \in At(M, id) : rules_' = [rules_ EXCEPT ![kind][i].rule = r]
  BY DEF UpdateEntry
<1> DEFINE L == [M EXCEPT ![i].rule = r]
<1>3. i \in DOMAIN M
  BY <1>1, <1>2, AtPlace DEF Sound
<1>4. M[i] \in Entry(kind)
  BY <1>1, <1>3, EntryKey
<1>5. [M[i] EXCEPT !.rule = r] \in Entry(kind)
  BY <1>4 DEF Entry
<1>6. L \in Seq(Entry(kind))
  <2>1. L = [M EXCEPT ![i] = [M[i] EXCEPT !.rule = r]]
    OBVIOUS
  <2> HIDE DEF M, L
  <2> QED BY <1>1, <1>3, <1>5, <2>1, ExceptSeq, LenProperties
<1>7. Agree(kind, u, u)
  BY AgreeKept
<1>8. /\ rules_' = [rules_ EXCEPT ![kind] = L] /\ tables' = [tables EXCEPT ![MapOf(kind)] = u]
      /\ gaps' = gaps \cup {"listed"} /\ UNCHANGED switch /\ client.op = "idle"
  <2>1. /\ tables' = tables /\ gaps' = gaps \cup {"listed"} /\ UNCHANGED switch
        /\ client.op = "idle"
    BY DEF UpdateEntry, Gap, Quiet
  <2>2. kind \in DOMAIN rules_ /\ tables = [m \in Maps |-> tables[m]]
    BY DEF NatInv, Types
  <2>3. tables = [tables EXCEPT ![MapOf(kind)] = u]
    BY <2>2
  <2> QED BY <1>2, <2>1, <2>2, <2>3
<1> HIDE DEF L
<1>9. Edited(kind, L, u)
  BY <1>6, <1>7, <1>8 DEF Edited
<1> QED BY <1>9

\* The list and the table that delEntry leaves.
LEMMA DeletedKeeps ==
  ASSUME NatInv, Bounded, NEW kind \in Kinds, NEW id \in Nat, Deletes(kind, id)
  PROVE  LET M == rules_[kind]
             d == Deleted(kind, id)
         IN /\ d.list = Without(M, id) /\ d.list \in Seq(Entry(kind))
            /\ Len(d.list) = Len(M) - 1 /\ Len(M) \in Nat
            /\ Agree(kind, tables[MapOf(kind)], d.table)
            /\ Sound(kind, d.list, d.table)
            /\ (gaps \cup d.gap) \cap {"listed", "dropped"} = {} =>
                 Covered(kind, d.list, d.table)
            /\ kind = "snat" /\ enabled /\ d.gap = {} =>
                 Spared(M, d.list, tables["sm_rules"], d.table)
            /\ "listed" \notin gaps \cup d.gap
<1> DEFINE M == rules_[kind]
           t == tables[MapOf(kind)]
           gone == {Key(kind, M[i]) : i \in At(M, id)}
<1>1. /\ M \in Seq(Entry(kind)) /\ Len(M) \in Nat /\ Sound(kind, M, t)
      /\ gaps \cap {"listed", "dropped"} = {} => Covered(kind, M, t)
      /\ gaps \cap {"listed"} = {}
  BY Before
<1>2. M # <<>>
  BY DEF Deletes
<1>3. /\ Deleted(kind, id).list = Without(M, id)
      /\ Deleted(kind, id).table = Removed(t, gone)
      /\ Deleted(kind, id).gap = (IF At(M, id) = {Place(M, id)} THEN {} ELSE {"dropped"})
                                   \cup Undoes(kind, gone)
  BY DEF Deleted, Parts
<1>4. Without(M, id) \in Seq(Entry(kind)) /\ Len(Without(M, id)) = Len(M) - 1
  BY <1>1, <1>2, WithoutList
<1>5. gone \subseteq KeysOf(kind)
  <2>1. \A i \in At(M, id) : i \in DOMAIN M
    BY <1>1, AtPlace DEF Sound
  <2> QED BY <1>1, <2>1, EntryKey
<1>6. Agree(kind, t, Removed(t, gone))
  BY <1>5, AgreeKept
<1>7. Sound(kind, Without(M, id), Removed(t, gone))
  BY <1>1, <1>2, RemoveSound
<1>8. Covered(kind, M, t) /\ At(M, id) = {Place(M, id)} =>
        Covered(kind, Without(M, id), Removed(t, gone))
  BY <1>1, <1>2, RemoveCovered
<1>9. At(M, id) = {Place(M, id)} /\ kind = "snat" /\ Everyone \notin gone =>
         Spared(M, Without(M, id), tables["sm_rules"], Removed(t, gone))
  BY <1>1, <1>2, RemoveSpared DEF MapOf
<1> HIDE DEF M, gone
<1>10. kind = "snat" /\ enabled /\ Deleted(kind, id).gap = {} =>
         At(M, id) = {Place(M, id)} /\ Everyone \notin gone
  BY <1>3 DEF Undoes
<1>11. (gaps \cup Deleted(kind, id).gap) \cap {"listed", "dropped"} = {} =>
        At(M, id) = {Place(M, id)} /\ gaps \cap {"listed", "dropped"} = {}
  BY <1>3
<1>12. "listed" \notin gaps \cup Deleted(kind, id).gap
  BY <1>1, <1>3 DEF Undoes
<1> QED BY <1>1, <1>3, <1>4, <1>6, <1>7, <1>8, <1>11, <1>12, <1>9, <1>10 DEF M

\* delEntry.
LEMMA DelEdits ==
  ASSUME NatInv, Bounded, NEW kind \in Kinds, NEW id \in Nat, DelEntry(kind, id)
  PROVE  \E L, u : Edited(kind, L, u)
<1> DEFINE d == Deleted(kind, id)
<1>1. /\ rules_' = [rules_ EXCEPT ![kind] = d.list]
      /\ tables' = [tables EXCEPT ![MapOf(kind)] = d.table]
      /\ gaps' = gaps \cup d.gap /\ UNCHANGED switch /\ Deletes(kind, id) /\ client.op = "idle"
  BY DEF DelEntry, Deletes, Quiet
<1>2. /\ d.list \in Seq(Entry(kind)) /\ Agree(kind, tables[MapOf(kind)], d.table)
      /\ Sound(kind, d.list, d.table)
      /\ (gaps \cup d.gap) \cap {"listed", "dropped"} = {} => Covered(kind, d.list, d.table)
      /\ kind = "snat" /\ enabled /\ d.gap = {} =>
           Spared(rules_[kind], d.list, tables["sm_rules"], d.table)
  BY <1>1, DeletedKeeps
<1> HIDE DEF d
<1>3. Edited(kind, d.list, d.table)
  BY <1>1, <1>2 DEF Edited
<1> QED BY <1>3

\* replaceEntry: the id of the new rule is that of the rule now at its place,
\* or the new place.
LEMMA ReplaceEdits ==
  ASSUME NatInv, Bounded, NEW kind \in Kinds, NEW r \in RulesOf(kind), NEW id \in Nat,
         ReplaceEntry(kind, id, r)
  PROVE  \E L, u : Edited(kind, L, u)
<1> DEFINE M == rules_[kind]
           d == Deleted(kind, id)
           key == KeyOf(kind, r)
           L == Append(d.list, [id |-> id, rule |-> r])
           t == tables[MapOf(kind)]
<1>1. Deletes(kind, id) /\ UNCHANGED switch /\ client.op = "idle"
  BY DEF ReplaceEntry, Deletes, Quiet
<1>2. /\ d.list = Without(M, id) /\ d.list \in Seq(Entry(kind))
      /\ Len(d.list) = Len(M) - 1 /\ Len(M) \in Nat
      /\ Agree(kind, t, d.table)
      /\ Sound(kind, d.list, d.table)
      /\ (gaps \cup d.gap) \cap {"listed", "dropped"} = {} => Covered(kind, d.list, d.table)
      /\ kind = "snat" /\ enabled /\ d.gap = {} => Spared(M, d.list, tables["sm_rules"], d.table)
      /\ "listed" \notin gaps \cup d.gap
  BY <1>1, DeletedKeeps
<1>3. L \in Seq(Entry(kind))
  BY <1>2, Appended
<1>4. key \in KeysOf(kind)
  BY DEF KeysOf
<1>5. Agree(kind, t, Set(d.table, key, r.to))
  BY <1>2, <1>4, AgreeKept
<1>6. CASE /\ ~Duplicate(kind, d.list, r)
           /\ Entered(kind, d.list, id, r, Set(d.table, key, r.to))
           /\ gaps' = gaps \cup d.gap \cup (IF id < Len(M) THEN {} ELSE {"listed"})
  <2>1. CASE id < Len(M)
    <3>1. id \in 0 .. Len(d.list)
      BY <1>2, <2>1
    <3>2. id = Len(d.list) \/ d.list[id + 1].id = id
      <4>1. CASE id # Len(d.list)
        <5>1. id + 1 \in 1 .. Len(M) - 1
          BY <1>2, <2>1, <4>1
        <5>2. Without(M, id)[id + 1] = [id |-> id + 1 - 1, rule |-> M[id + 1 + 1].rule]
          BY <5>1 DEF Without
        <5> QED BY <1>2, <5>2
      <4> QED BY <4>1
    <3>3. Sound(kind, L, Set(d.table, key, r.to))
      BY <1>2, <1>6, <3>1, <3>2, AddSound
    <3>4. Covered(kind, d.list, d.table) => Covered(kind, L, Set(d.table, key, r.to))
      BY <1>2, AddCovered
    <3>5. kind = "snat" => Spared(d.list, L, d.table, Set(d.table, key, r.to))
      BY <1>2, AddSpared
    <3> HIDE DEF d, L, M
    <3>6. gaps' = gaps \cup d.gap
      BY <1>6, <2>1
    <3>7. kind = "snat" /\ enabled /\ gaps' = {} =>
            Spared(rules_["snat"], L, tables["sm_rules"], Set(d.table, key, r.to))
      BY <1>2, <3>6, <3>5, SparedTwice DEF M
    <3>8. Edited(kind, L, Set(d.table, key, r.to))
      BY <1>1, <1>2, <1>3, <1>5, <1>6, <3>3, <3>4, <3>6, <3>7 DEF Edited, Entered, L
    <3> QED BY <3>8
  <2>2. CASE ~(id < Len(M))
    <3> HIDE DEF d, M
    <3>1. gaps' = gaps \cup d.gap \cup {"listed"}
      BY <1>6, <2>2
    <3>2. Edited(kind, L, Set(d.table, key, r.to))
      BY <1>1, <1>3, <1>5, <1>6, <3>1 DEF Edited, Entered
    <3> QED BY <3>2
  <2> QED BY <2>1, <2>2
<1>7. CASE Entered(kind, d.list, id, r, d.table) /\ gaps' = gaps \cup d.gap \cup {"listed"}
  <2> HIDE DEF d
  <2>1. Edited(kind, L, d.table)
    BY <1>1, <1>2, <1>3, <1>7 DEF Edited, Entered
  <2> QED BY <2>1
<1>8. CASE /\ rules_' = [rules_ EXCEPT ![kind] = d.list]
           /\ tables' = [tables EXCEPT ![MapOf(kind)] = d.table]
           /\ gaps' = gaps \cup d.gap
  <2> HIDE DEF d
  <2>1. Edited(kind, d.list, d.table)
    BY <1>1, <1>2, <1>8 DEF Edited
  <2> QED BY <2>1
<1> QED BY <1>6, <1>7, <1>8 DEF ReplaceEntry

\* Every edit of a list keeps the invariant.
LEMMA EditKeeps ==
  ASSUME NatInv, Bounded, NEW kind \in Kinds, Edit(kind)
  PROVE  NatInv'
<1>1. \A id \in Ids(kind) : id \in Nat
  BY Before DEF Ids
<1>2. \E L, u : Edited(kind, L, u)
  <2>1. CASE \E r \in RulesOf(kind) : AppendEntry(kind, r) \/ AppendRefused(kind, r)
    BY <2>1, AppendEdits, RefusedEdits
  <2>2. CASE \E r \in RulesOf(kind), id \in Ids(kind) :
               AddEntry(kind, id, r) \/ ReplaceEntry(kind, id, r)
    BY <1>1, <2>2, AddEdits, ReplaceEdits
  <2>3. CASE \E r \in RulesOf(kind), id \in Ids(kind) : UpdateEntry(kind, id, r)
    BY <1>1, <2>3, UpdateEdits
  <2>4. CASE \E id \in Ids(kind) : DelEntry(kind, id)
    BY <1>1, <2>4, DelEdits
  <2> QED BY <2>1, <2>2, <2>3, <2>4 DEF Edit
<1> QED BY <1>2, EditedKeeps

-----------------------------------------------------------------------------
(* The requests that empty lists.                                          *)

\* Where the lists were emptied, every key of theirs has left the table, and no
\* key of another list has.
LEMMA EmptiesKeeps ==
  ASSUME Types, Lists, NEW kinds \in SUBSET Kinds, Empties(kinds), gaps \subseteq gaps'
  PROVE  /\ DOMAIN rules_' = Kinds /\ tables' = [m \in Maps |-> tables'[m]]
         /\ \A kind \in Kinds : rules_'[kind] \in Seq(Entry(kind))
         /\ \A m \in Maps : DOMAIN tables'[m] \subseteq Admitted(m)
         /\ Lists'
         /\ "snat" \notin kinds \/ Everyone \notin Listed("snat") =>
              Spared(rules_["snat"], rules_'["snat"], tables["sm_rules"], tables'["sm_rules"])
<1> DEFINE Gone(m) == UNION {Listed(kind) : kind \in {k \in kinds : MapOf(k) = m}}
<1>0. Listed("snat") = KeysIn("snat", rules_["snat"])
  BY DEF Listed, KeysIn, Range
<1>1. CASE UNCHANGED <<rules_, tables>>
  BY <1>1 DEF Types, Lists, Spared
<1>2. CASE /\ rules_' = [kind \in Kinds |-> IF kind \in kinds THEN <<>> ELSE rules_[kind]]
           /\ tables' = [m \in Maps |-> Removed(tables[m], Gone(m))]
  <2>1. /\ \A kind \in Kinds : MapOf(kind) \in Maps
        /\ \A kind \in Kinds : Listed(kind) \subseteq KeysOf(kind)
    <3>1. ASSUME NEW kind \in Kinds, NEW e \in Range(rules_[kind])
          PROVE  Key(kind, e) \in KeysOf(kind)
      <4>1. PICK i \in DOMAIN rules_[kind] : e = rules_[kind][i]
        BY DEF Range
      <4>2. rules_[kind] \in Seq(Entry(kind))
        BY DEF Types
      <4> QED BY <4>1, <4>2, EntryKey
    <3> QED BY <3>1, MapOfKind DEF Listed
  <2>2. /\ DOMAIN rules_' = Kinds
        /\ \A kind \in kinds : rules_'[kind] = <<>>
        /\ \A kind \in Kinds \ kinds : rules_'[kind] = rules_[kind]
        /\ \A m \in Maps : tables'[m] = Removed(tables[m], Gone(m))
    BY <1>2
  <2>3. ASSUME NEW kind \in Kinds PROVE rules_'[kind] \in Seq(Entry(kind))
    <3>1. CASE kind \in kinds
      BY <2>2, <3>1, EmptySeq
    <3>2. CASE kind \notin kinds
      BY <2>2, <3>2 DEF Types
    <3> QED BY <3>1, <3>2
  <2>4. \A m \in Maps : /\ DOMAIN tables'[m] = DOMAIN tables[m] \ Gone(m)
                        /\ \A k \in DOMAIN tables'[m] : tables'[m][k] = tables[m][k]
    <3> HIDE DEF Gone
    <3> QED BY <2>2 DEF Removed
  <2>5. tables' = [m \in Maps |-> tables'[m]]
    BY <1>2
  <2>6. \A m \in Maps : DOMAIN tables'[m] \subseteq Admitted(m)
    BY <2>4 DEF Types
  <2>7. ASSUME NEW kind \in kinds
        PROVE  /\ Sound(kind, rules_'[kind], tables'[MapOf(kind)])
               /\ Covered(kind, rules_[kind], tables[MapOf(kind)]) =>
                    Covered(kind, rules_'[kind], tables'[MapOf(kind)])
    <3>1. rules_'[kind] = <<>> /\ MapOf(kind) \in Maps
      BY <2>1, <2>2
    <3>2. Sound(kind, rules_'[kind], tables'[MapOf(kind)])
      BY <3>1 DEF Sound, InPlace, Apart, Served
    <3>3. ASSUME Covered(kind, rules_[kind], tables[MapOf(kind)]),
                 NEW k \in DOMAIN tables'[MapOf(kind)] \cap OwnKeys(kind)
          PROVE  FALSE
      <4>1. k \in DOMAIN tables[MapOf(kind)] /\ k \notin Gone(MapOf(kind))
        BY <2>4, <3>1, <3>3
      <4>2. PICK i \in DOMAIN rules_[kind] : Key(kind, rules_[kind][i]) = k
        BY <3>3, <4>1 DEF Covered
      <4>3. k \in Listed(kind)
        BY <4>2 DEF Listed, Range
      <4> QED BY <4>1, <4>3
    <3> QED BY <3>2, <3>3 DEF Covered
  <2>8. ASSUME NEW kind \in Kinds \ kinds
        PROVE  /\ Sound(kind, rules_[kind], tables[MapOf(kind)]) =>
                    Sound(kind, rules_'[kind], tables'[MapOf(kind)])
               /\ Covered(kind, rules_[kind], tables[MapOf(kind)]) =>
                    Covered(kind, rules_'[kind], tables'[MapOf(kind)])
    <3>1. rules_'[kind] = rules_[kind] /\ MapOf(kind) \in Maps
      BY <2>1, <2>2
    <3>2. Gone(MapOf(kind)) \cap KeysOf(kind) = {}
      <4> SUFFICES ASSUME NEW k \in Gone(MapOf(kind)), k \in KeysOf(kind) PROVE FALSE
        OBVIOUS
      <4>1. PICK other \in kinds : MapOf(other) = MapOf(kind) /\ k \in Listed(other)
        OBVIOUS
      <4> QED BY <2>1, <4>1, KeysApart
    <3>3. \A i \in DOMAIN rules_[kind] : Key(kind, rules_[kind][i]) \in KeysOf(kind)
      <4>1. rules_[kind] \in Seq(Entry(kind))
        BY DEF Types
      <4> QED BY <4>1, EntryKey
    <3> HIDE DEF Gone
    <3>4. Served(kind, rules_[kind], tables[MapOf(kind)]) =>
            Served(kind, rules_'[kind], tables'[MapOf(kind)])
      BY <2>4, <3>1, <3>2, <3>3 DEF Served
    <3>5. Covered(kind, rules_[kind], tables[MapOf(kind)]) =>
            Covered(kind, rules_'[kind], tables'[MapOf(kind)])
      BY <2>4, <3>1 DEF Covered, OwnKeys
    <3> QED BY <3>1, <3>4, <3>5 DEF Sound
  <2>9. Lists'
    BY <2>7, <2>8 DEF Lists
  <2>10. "sm_rules" \in Maps /\ "snat" \in Kinds
    BY DEF Maps, Kinds
  <2>11. ASSUME "snat" \notin kinds \/ Everyone \notin Listed("snat")
         PROVE  Spared(rules_["snat"], rules_'["snat"], tables["sm_rules"], tables'["sm_rules"])
    <3>1. \A kind \in Kinds : MapOf(kind) = "sm_rules" => kind = "snat"
      BY DEF Kinds, MapOf
    <3>2. CASE Everyone \in Listed("snat")
      <4>1. rules_'["snat"] = rules_["snat"]
        BY <2>2, <2>10, <2>11, <3>2
      <4> QED BY <1>0, <3>2, <4>1 DEF Spared
    <3>3. CASE Everyone \notin Listed("snat")
      <4>1. Everyone \notin Gone("sm_rules")
        BY <3>1, <3>3
      <4> HIDE DEF Gone
      <4> QED BY <1>0, <2>4, <2>10, <3>3, <4>1 DEF Spared
    <3> QED BY <3>2, <3>3
  <2> HIDE DEF Gone
  <2> QED BY <2>2, <2>3, <2>4, <2>5, <2>6, <2>9, <2>11
<1> QED BY <1>1, <1>2 DEF Empties

-----------------------------------------------------------------------------
(* The masquerade switch.                                                  *)

\* inject touches the masquerade rule only, and what it says it wrote is there.
LEMMA InjectedKeeps ==
  ASSUME Types, Lists, NEW ip, Injected(ip), rules_' = rules_
  PROVE  /\ tables' = [m \in Maps |-> tables'[m]]
         /\ \A m \in Maps : DOMAIN tables'[m] \subseteq Admitted(m)
         /\ Lists'
         /\ gaps' = {} => /\ gaps = {} /\ Fits("sm_rules", Everyone)
                          /\ Everyone \in DOMAIN tables'["sm_rules"]
                          /\ tables'["sm_rules"][Everyone] = ip
<1> DEFINE t == tables["sm_rules"]
<1>1. CASE tables' = tables /\ gaps' = gaps \cup {"masquerade"}
  BY <1>1 DEF Types, Lists
<1>2. CASE /\ Fits("sm_rules", Everyone)
           /\ tables' = [tables EXCEPT !["sm_rules"] = Set(@, Everyone, ip)]
           /\ gaps' = gaps \cup (IF Everyone \in Listed("snat") THEN {"listed"} ELSE {})
  <2>1. "sm_rules" \in Maps /\ tables = [m \in Maps |-> tables[m]]
    BY DEF Types, Maps
  <2>2. /\ tables'["sm_rules"] = Set(t, Everyone, ip)
        /\ \A m \in Maps : m # "sm_rules" => tables'[m] = tables[m]
        /\ tables' = [m \in Maps |-> tables'[m]]
    BY <1>2, <2>1
  <2>3. /\ DOMAIN Set(t, Everyone, ip) = DOMAIN t \cup {Everyone}
        /\ Set(t, Everyone, ip)[Everyone] = ip
        /\ \A k \in DOMAIN t : k # Everyone => Set(t, Everyone, ip)[k] = t[k]
    BY DEF Set
  <2>4. \A m \in Maps : DOMAIN tables'[m] \subseteq Admitted(m)
    BY <2>2, <2>3 DEF Types, Admitted
  <2>5. ASSUME NEW kind \in Kinds, "listed" \notin gaps'
        PROVE  /\ Sound(kind, rules_[kind], tables[MapOf(kind)]) =>
                    Sound(kind, rules_[kind], tables'[MapOf(kind)])
               /\ Covered(kind, rules_[kind], tables[MapOf(kind)]) =>
                    Covered(kind, rules_[kind], tables'[MapOf(kind)])
    <3>1. CASE MapOf(kind) # "sm_rules"
      BY <2>2, <3>1, MapOfKind
    <3>2. CASE MapOf(kind) = "sm_rules"
      <4>1. kind = "snat" /\ Everyone \notin OwnKeys(kind)
        BY <3>2 DEF Kinds, MapOf, OwnKeys
      <4>2. \A i \in DOMAIN rules_[kind] : Key(kind, rules_[kind][i]) # Everyone
        BY <1>2, <2>5, <4>1 DEF Listed, Range
      <4>3. Served(kind, rules_[kind], t) => Served(kind, rules_[kind], Set(t, Everyone, ip))
        BY <2>3, <4>2 DEF Served
      <4>4. Covered(kind, rules_[kind], t) => Covered(kind, rules_[kind], Set(t, Everyone, ip))
        BY <2>3, <4>1 DEF Covered
      <4> QED BY <2>2, <3>2, <4>3, <4>4 DEF Sound
    <3> QED BY <3>1, <3>2
  <2>6. Lists'
    BY <1>2, <2>5 DEF Lists
  <2> QED BY <1>2, <2>2, <2>3, <2>4, <2>6
<1> QED BY <1>1, <1>2 DEF Injected, Gap

\* A step that leaves lists and tables alone.
LEMMA TablesKept ==
  ASSUME Types, Lists, UNCHANGED <<rules_, tables>>, gaps \subseteq gaps'
  PROVE  /\ DOMAIN rules_' = Kinds /\ tables' = [m \in Maps |-> tables'[m]]
         /\ \A kind \in Kinds : rules_'[kind] \in Seq(Entry(kind))
         /\ \A m \in Maps : DOMAIN tables'[m] \subseteq Admitted(m)
         /\ Lists'
         /\ gaps' = {} => gaps' = gaps
BY DEF Types, Lists

\* What TurningOn makes of a request.
LEMMA TurningOnTypes ==
  ASSUME NatInv, NEW set \in BOOLEAN
  PROVE  /\ TurningOn(set) \in [op : {"idle", "inject", "on", "off"},
                                ip : Addresses \cup {NoAddress}, set : BOOLEAN]
         /\ TurningOn(set).op = "inject" =>
              TurningOn(set).ip = external_ip_ /\ external_ip_ # NoAddress
         /\ TurningOn(set).op = "on" => external_ip_ = NoAddress
         /\ TurningOn(set).op # "off"
<1>1. external_ip_ \in Addresses \cup {NoAddress}
  BY DEF NatInv, Types
<1> QED BY <1>1 DEF TurningOn, On, Idle

\* A request to the switch or one of its later steps.
LEMMA MasqueradeKeeps ==
  ASSUME NatInv, Masquerade
  PROVE  NatInv'
<1> USE DEF NatInv
<1>1. ASSUME NEW set \in BOOLEAN, Enable(set) PROVE NatInv'
  <2>1. UNCHANGED <<rules_, tables>> /\ gaps' = gaps
    BY <1>1 DEF Enable
  <2>2. Types' /\ Lists'
    BY <1>1, <2>1, TablesKept, TurningOnTypes DEF Enable, Types
  <2>3. Switch'
    BY <1>1, TurningOnTypes DEF Enable, Quiet, Switch, Masqueraded, AllReturned
  <2> QED BY <2>2, <2>3
<1>2. ASSUME EnableInject PROVE NatInv'
  <2>1. Injected(client.ip) /\ rules_' = rules_ /\ client.op = "inject"
    BY <1>2 DEF EnableInject
  <2>2. client' \in {On(client.set), Idle} /\ UNCHANGED <<enabled, external_ip_, callback>>
    BY <1>2 DEF EnableInject
  <2>3. Types' /\ Lists'
    <3>1. client' \in [op : {"idle", "inject", "on", "off"}, ip : Addresses \cup {NoAddress},
                       set : BOOLEAN]
      <4>1. client.set \in BOOLEAN
        BY DEF Types
      <4>2. CASE client' = On(client.set)
        BY <4>1, <4>2 DEF On
      <4>3. CASE client' = Idle
        BY <4>3 DEF Idle
      <4> QED BY <2>2, <4>2, <4>3
    <3> QED BY <2>1, <2>2, <3>1, InjectedKeeps DEF Types
  <2>4. Switch'
    <3>1. gaps' = {} => /\ gaps = {} /\ Everyone \in DOMAIN tables'["sm_rules"]
                        /\ tables'["sm_rules"][Everyone] = client.ip
      BY <2>1, InjectedKeeps
    <3>2. gaps' = {} => Masqueraded'
      BY <2>1, <2>2, <3>1 DEF Switch, Masqueraded
    <3>3. client'.op # "inject"
      BY <2>2 DEF On, Idle
    <3> QED BY <2>2, <3>1, <3>2, <3>3 DEF Switch
  <2> QED BY <2>3, <2>4
<1>3. ASSUME EnableDone PROVE NatInv'
  <2>1. UNCHANGED <<rules_, tables>> /\ gaps' = gaps
    BY <1>3 DEF EnableDone
  <2>2. Types' /\ Lists'
    BY <1>3, <2>1, TablesKept DEF EnableDone, Types, Idle
  <2>3. Switch'
    BY <1>3 DEF EnableDone, Switch, Masqueraded, AllReturned, Idle
  <2> QED BY <2>2, <2>3
<1>4. ASSUME NEW set \in BOOLEAN, Disable(set) PROVE NatInv'
  <2>1. Injected(Zero) /\ rules_' = rules_ /\ UNCHANGED <<enabled, external_ip_, callback>>
    BY <1>4 DEF Disable
  <2>2. client' \in {Off, Idle} /\ (Fits("sm_rules", Everyone) => client' = Off)
    BY <1>4 DEF Disable
  <2>3. Types' /\ Lists'
    <3>1. client' \in [op : {"idle", "inject", "on", "off"}, ip : Addresses \cup {NoAddress},
                       set : BOOLEAN]
      <4>1. CASE client' = Off
        BY <4>1 DEF Idle, Off
      <4>2. CASE client' = Idle
        BY <4>2 DEF Idle
      <4> QED BY <2>2, <4>1, <4>2
    <3> QED BY <2>1, <3>1, InjectedKeeps DEF Types
  <2>4. gaps' = {} => gaps = {} /\ client' = Off
    BY <2>1, <2>2, InjectedKeeps
  <2>5. Switch'
    BY <2>1, <2>4 DEF Switch, Off, Idle
  <2> QED BY <2>3, <2>5
<1>5. ASSUME DisableDone PROVE NatInv'
  <2>1. UNCHANGED <<rules_, tables>> /\ gaps' = gaps
    BY <1>5 DEF DisableDone
  <2>2. Types' /\ Lists'
    BY <1>5, <2>1, TablesKept DEF DisableDone, Types, Idle
  <2>3. Switch'
    BY <1>5 DEF DisableDone, Switch, Idle
  <2> QED BY <2>2, <2>3
<1>6. ASSUME NEW on \in BOOLEAN, NEW garbage \in BOOLEAN, AddMasquerade(on, garbage)
      PROVE  NatInv'
  <2>1. UNCHANGED <<rules_, enabled, external_ip_, callback>> /\ client.op = "idle"
    BY <1>6 DEF AddMasquerade, Quiet
  <2>2. CASE Injected(Zero) /\ client' = Off
    <3>1. Types' /\ Lists'
      BY <2>1, <2>2, InjectedKeeps DEF Types, Off, Idle
    <3>2. gaps' = {} => gaps = {}
      BY <2>1, <2>2, InjectedKeeps
    <3>3. Switch'
      BY <2>1, <2>2, <3>2 DEF Switch, Off, Idle
    <3> QED BY <3>1, <3>3
  <2>3. CASE client' = On(TRUE) /\ gaps' = gaps \cup {"masquerade"} /\ tables' = tables
    <3>1. Types' /\ Lists'
      BY <2>1, <2>3, TablesKept DEF Types, On
    <3> QED BY <2>3, <3>1 DEF Switch
  <2>4. CASE client' = TurningOn(TRUE) /\ UNCHANGED <<tables, gaps>>
    <3>1. Types' /\ Lists'
      BY <2>1, <2>4, TablesKept, TurningOnTypes DEF Types
    <3>2. Switch'
      BY <2>1, <2>4, TurningOnTypes DEF Switch, Masqueraded, AllReturned
    <3> QED BY <3>1, <3>2
  <2>5. CASE client' = Off /\ UNCHANGED <<tables, gaps>>
    <3>1. Types' /\ Lists'
      BY <2>1, <2>5, TablesKept DEF Types, Off, Idle
    <3>2. Switch'
      BY <2>1, <2>5 DEF Switch, Off, Idle
    <3> QED BY <3>1, <3>2
  <2> QED BY <1>6, <2>2, <2>3, <2>4, <2>5 DEF AddMasquerade, Gap
<1> QED BY <1>1, <1>2, <1>3, <1>4, <1>5, <1>6 DEF Masquerade

\* A step of a callback of the address.
LEMMA CallbackKeeps ==
  ASSUME NatInv, Callback
  PROVE  NatInv'
<1> USE DEF NatInv
<1>0. /\ external_ip_ \in Addresses \cup {NoAddress}
      /\ callback \in [Callers -> [place : {"idle", "test", "read", "inject"},
                                   ip : Addresses \cup {NoAddress}]]
  BY DEF Types
<1>1. ASSUME NEW c \in Callers, NEW ip \in Addresses \cup {NoAddress}, AddressChanges(c, ip)
      PROVE  NatInv'
  <2>1. UNCHANGED <<rules_, tables>> /\ gaps \subseteq gaps'
    BY <1>1 DEF AddressChanges
  <2>2. Types' /\ Lists'
    BY <1>0, <1>1, <2>1, TablesKept DEF AddressChanges, Types
  <2>3. Switch'
    <3>1. gaps' = {} => /\ gaps = {} /\ client.op \notin {"inject", "on"}
                        /\ \A d \in Callers : callback[d].place = "idle"
      BY <1>1 DEF AddressChanges
    <3>2. /\ callback'[c].place = "test" /\ client' = client
          /\ \A d \in Callers : d # c => callback'[d] = callback[d]
      BY <1>0, <1>1 DEF AddressChanges
    <3> QED BY <3>1, <3>2 DEF Switch, AllReturned
  <2> QED BY <2>2, <2>3
<1>2. ASSUME NEW c \in Callers, CallbackTest(c) PROVE NatInv'
  <2>1. UNCHANGED <<rules_, tables, enabled, external_ip_, client>> /\ gaps' = gaps
    BY <1>2 DEF CallbackTest
  <2>2. Types' /\ Lists'
    BY <1>0, <1>2, <2>1, TablesKept DEF CallbackTest, Types
  <2>3. /\ callback[c].place = "test"
        /\ callback'[c].place = (IF enabled THEN "read" ELSE "idle")
        /\ \A d \in Callers : d # c => callback'[d] = callback[d]
    BY <1>0, <1>2 DEF CallbackTest
  <2>4. Switch'
    BY <2>1, <2>3 DEF Switch, AllReturned, Masqueraded
  <2> QED BY <2>2, <2>4
<1>3. ASSUME NEW c \in Callers, CallbackRead(c) PROVE NatInv'
  <2>1. UNCHANGED <<rules_, tables, enabled, external_ip_, client>> /\ gaps' = gaps
    BY <1>3 DEF CallbackRead
  <2>2. Types' /\ Lists'
    BY <1>0, <1>3, <2>1, TablesKept DEF CallbackRead, Types, Returned
  <2>3. /\ callback[c].place = "read"
        /\ callback'[c] = IF external_ip_ = NoAddress THEN Returned
                          ELSE [place |-> "inject", ip |-> external_ip_]
        /\ \A d \in Callers : d # c => callback'[d] = callback[d]
    BY <1>0, <1>3 DEF CallbackRead
  <2>4. CASE external_ip_ = NoAddress
    BY <2>1, <2>2, <2>3, <2>4 DEF Switch, AllReturned, Masqueraded, Returned
  <2>5. CASE external_ip_ # NoAddress
    <3>1. callback'[c].place = "inject" /\ callback'[c].ip = external_ip_
      BY <2>3, <2>5
    <3>2. Switch'
      BY <2>1, <2>3, <3>1 DEF Switch, AllReturned, Masqueraded
    <3> QED BY <2>2, <3>2
  <2> QED BY <2>4, <2>5
<1>4. ASSUME NEW c \in Callers, CallbackInject(c) PROVE NatInv'
  <2>1. /\ Injected(callback[c].ip) /\ callback[c].place = "inject"
        /\ UNCHANGED <<rules_, enabled, external_ip_, client>>
    BY <1>4 DEF CallbackInject
  <2>2. Types' /\ Lists'
    BY <1>0, <1>4, <2>1, InjectedKeeps DEF CallbackInject, Types, Returned
  <2>3. gaps' = {} => gaps = {} /\ Masqueraded'
    BY <2>1, InjectedKeeps DEF Masqueraded, Switch
  <2>4. callback'[c].place = "idle" /\ \A d \in Callers : d # c => callback'[d] = callback[d]
    BY <1>0, <1>4 DEF CallbackInject, Returned
  <2>5. Switch'
    BY <2>1, <2>3, <2>4 DEF Switch, AllReturned
  <2> QED BY <2>2, <2>5
<1> QED BY <1>1, <1>2, <1>3, <1>4 DEF Callback

-----------------------------------------------------------------------------
(* The invariant holds.                                                    *)

\* Nat::Nat starts with empty lists and tables.
LEMMA InitInv == Init => NatInv
<1> SUFFICES ASSUME Init PROVE NatInv
  OBVIOUS
<1>1. Types
  <2>1. DOMAIN rules_ = Kinds /\ tables = [m \in Maps |-> tables[m]]
    BY DEF Init
  <2>2. \A kind \in Kinds : rules_[kind] \in Seq(Entry(kind))
    BY DEF Init
  <2>3. \A m \in Maps : DOMAIN tables[m] \subseteq Admitted(m)
    BY DEF Init
  <2> QED BY <2>1, <2>2, <2>3 DEF Init, Types, Idle, Returned
<1>2. Lists
  <2>1. \A kind \in Kinds : MapOf(kind) \in Maps
    BY MapOfKind
  <2>2. \A kind \in Kinds : rules_[kind] = <<>> /\ tables[MapOf(kind)] = <<>>
    BY <2>1 DEF Init
  <2> QED BY <2>2 DEF Lists, Sound, InPlace, Apart, Served, Covered
<1>3. Switch
  BY DEF Init, Switch, Idle, Returned
<1> QED BY <1>1, <1>2, <1>3 DEF NatInv

\* One step per kind of request.
LEMMA NextInv == NatInv /\ [Next]_vars => NatInv'
<1> SUFFICES ASSUME NatInv, [Next]_vars PROVE NatInv'
  OBVIOUS
<1>1. ASSUME Bounded, NEW kind \in Kinds, Edit(kind) PROVE NatInv'
  BY <1>1, EditKeeps
<1>2. ASSUME NEW kind \in Kinds, DelFromEmpty(kind) PROVE NatInv'
  BY <1>2 DEF DelFromEmpty, NatInv, Types, Lists, Switch, Masqueraded, AllReturned, switch
<1>3. ASSUME NEW kind \in Kinds, NEW post \in BOOLEAN, DelEntryList(kind, post) PROVE NatInv'
  <2>1. /\ Empties({kind}) /\ UNCHANGED switch /\ client.op = "idle"
        /\ gaps' = gaps \cup Undoes(kind, Listed(kind))
    BY <1>3 DEF DelEntryList, Quiet
  <2>2. Types' /\ Lists'
    BY <2>1, EmptiesKeeps DEF NatInv, Types, switch
  <2>3. enabled /\ gaps' = {} => kind # "snat" \/ Everyone \notin Listed("snat")
    BY <2>1 DEF Undoes
  <2>4. enabled /\ gaps' = {} =>
          Spared(rules_["snat"], rules_'["snat"], tables["sm_rules"], tables'["sm_rules"])
    BY <2>1, <2>3, EmptiesKeeps DEF NatInv
  <2>5. enabled /\ gaps' = {} /\ Masqueraded => Masqueraded'
    BY <2>1, <2>4 DEF Spared, Masqueraded, switch
  <2>6. gaps' = {} => gaps = {}
    BY <2>1
  <2> QED BY <2>1, <2>2, <2>5, <2>6 DEF NatInv, Switch, AllReturned, switch
<1>4. ASSUME DelRule PROVE NatInv'
  <2>1. Empties(Kinds) /\ enabled' = FALSE /\ UNCHANGED <<external_ip_, client, callback, gaps>>
        /\ client.op = "idle"
    BY <1>4 DEF DelRule, Quiet
  <2>2. Types' /\ Lists'
    BY <2>1, EmptiesKeeps DEF NatInv, Types
  <2>3. Switch'
    BY <2>1 DEF NatInv, Switch
  <2> QED BY <2>2, <2>3 DEF NatInv
<1>5. ASSUME UNCHANGED vars PROVE NatInv'
  BY <1>5 DEF vars, NatInv, Types, Lists, Switch, Masqueraded, AllReturned
<1> QED BY <1>1, <1>2, <1>3, <1>4, <1>5, MasqueradeKeeps, CallbackKeeps DEF Next

\* So it is an invariant.
LEMMA Inductive == Spec => []NatInv
BY InitInv, NextInv, PTL DEF Spec

-----------------------------------------------------------------------------
(* What the invariant says of lookups.                                     *)

\* A lookup finds the least key that covers it, if there is one.
LEMMA LookupLeast ==
  ASSUME NEW m, NEW x, NEW k \in DOMAIN tables[m], x \in k,
         \A other \in DOMAIN tables[m] : x \in other => k \subseteq other
  PROVE  Lookup(m, x) = tables[m][k]
<1> DEFINE found == {other \in DOMAIN tables[m] : x \in other}
           least == CHOOSE c \in found : \A other \in found : c \subseteq other
<1>1. k \in found /\ \A other \in found : k \subseteq other
  OBVIOUS
<1>2. least \in found /\ \A other \in found : least \subseteq other
  <2> HIDE DEF found
  <2> QED BY <1>1
<1>3. least \subseteq k /\ k \subseteq least
  BY <1>1, <1>2
<1>4. least = k
  <2> HIDE DEF least
  <2> QED BY <1>3
<1>5. Lookup(m, x) = tables[m][least]
  BY <1>1 DEF Lookup
<1> QED BY <1>4, <1>5

\* A key in a table is that of a listed rule that applies to what it covers.
LEMMA CoveredApplies ==
  ASSUME NatInv, gaps \cap {"listed", "dropped"} = {}, NEW kind \in Kinds,
         NEW k \in DOMAIN tables[MapOf(kind)] \cap OwnKeys(kind), NEW x \in k
  PROVE  \E r \in Applying(kind, x) : k = KeyOf(kind, r)
<1>1. PICK i \in DOMAIN rules_[kind] : Key(kind, rules_[kind][i]) = k
  BY DEF NatInv, Lists, Covered
<1>2. rules_[kind][i].rule \in Applying(kind, x)
  BY <1>1 DEF Applying, Range
<1> QED BY <1>1, <1>2 DEF Key

\* A listed rule is in the table with its address.
LEMMA ListedServed ==
  ASSUME NatInv, "listed" \notin gaps, NEW kind \in Kinds, NEW e \in Range(rules_[kind])
  PROVE  /\ Key(kind, e) \in DOMAIN tables[MapOf(kind)]
         /\ tables[MapOf(kind)][Key(kind, e)] = e.rule.to
<1>1. PICK i \in DOMAIN rules_[kind] : e = rules_[kind][i]
  BY DEF Range
<1> QED BY <1>1 DEF NatInv, Lists, Sound, Served

\* A rule that applies is in the table, and its key covers what it applies to.
LEMMA ApplyingServed ==
  ASSUME NatInv, "listed" \notin gaps, NEW kind \in Kinds, NEW x, NEW r \in Applying(kind, x)
  PROVE  /\ KeyOf(kind, r) \in DOMAIN tables[MapOf(kind)] /\ x \in KeyOf(kind, r)
         /\ tables[MapOf(kind)][KeyOf(kind, r)] = r.to
<1>1. PICK e \in Range(rules_[kind]) : r = e.rule /\ x \in Key(kind, e)
  BY DEF Applying
<1> QED BY <1>1, ListedServed DEF Key

-----------------------------------------------------------------------------
(* Theorems.                                                               *)

\* Whatever rules a client appends, replaces and deletes, every rule it sees in
\* a list is in the table of the data plane with its own address, until the
\* list has parted from the table by one of the ways that gaps records:
\* delEntry removes by id from the table and by place from the list, and ids and
\* places stay in step.
THEOREM ListsServed == Spec => []ListedRulesServed
<1>1. NatInv => ListedRulesServed
  BY ListedServed DEF ListedRulesServed
<1> QED BY <1>1, Inductive, PTL

\* A packet from outside goes where the rule of the highest documented priority
\* sends it, for any sets of DNAT and port forwarding rules: the tables hold
\* the keys of listed rules and no others, and the lookup of the least key picks
\* the rule that ByPriority picks.
THEOREM Priority == Spec => []RulePriority
<1>1. NatInv => RulePriority
  <2> SUFFICES ASSUME NatInv, gaps \cap {"listed", "dropped"} = {}, NEW p \in Packets
               PROVE  {Lookup("dp_rules", p)} =
                        IF ByPriority(p) = {} THEN {NoAddress} ELSE ByPriority(p)
    BY DEF RulePriority
  <2> DEFINE T == DOMAIN tables["dp_rules"]
             pf == Applying("pf", p)
             dnat == Applying("dnat", p)
             exact == {r \in pf : r.proto # "all"}
             all == pf \ exact
             best == IF exact # {} THEN exact ELSE IF all # {} THEN all ELSE dnat
  <2>1. /\ "pf" \in Kinds /\ MapOf("pf") = "dp_rules"
        /\ "dnat" \in Kinds /\ MapOf("dnat") = "dp_rules"
    BY DEF Kinds, MapOf
  <2>2. \A r \in pf : /\ KeyOf("pf", r) \in T /\ p \in KeyOf("pf", r)
                      /\ tables["dp_rules"][KeyOf("pf", r)] = r.to
    BY <2>1, ApplyingServed
  <2>3. \A r \in dnat : /\ KeyOf("dnat", r) \in T /\ p \in KeyOf("dnat", r)
                        /\ tables["dp_rules"][KeyOf("dnat", r)] = r.to
    BY <2>1, ApplyingServed
  <2>4. \A k \in T : p \in k => \/ \E r \in pf : k = KeyOf("pf", r)
                                \/ \E r \in dnat : k = KeyOf("dnat", r)
    <3>1. T \subseteq KeysOf("dnat") \cup KeysOf("pf")
      BY DEF NatInv, Types, Admitted, Maps
    <3> QED BY <2>1, <3>1, CoveredApplies DEF OwnKeys
  <2>5. /\ \A r \in exact, s \in pf : KeyOf("pf", r) \subseteq KeyOf("pf", s)
        /\ \A r \in all, s \in all : KeyOf("pf", r) \subseteq KeyOf("pf", s)
        /\ \A r \in pf, s \in dnat : KeyOf("pf", r) \subseteq KeyOf("dnat", s)
        /\ \A r \in dnat, s \in dnat : KeyOf("dnat", r) \subseteq KeyOf("dnat", s)
    <3>1. \A r : KeyOf("pf", r) = {q \in Packets : q.ip = r.ip /\ q.port = r.port
                                                  /\ r.proto \in {"all", q.proto}}
      BY DEF KeyOf, ForwardKey
    <3>2. \A r : KeyOf("dnat", r) = {q \in Packets : q.ip = r.ip}
      BY DEF KeyOf
    <3>3. \A r \in pf : p.ip = r.ip /\ p.port = r.port /\ r.proto \in {"all", p.proto}
      BY <2>2, <3>1
    <3>4. \A r \in dnat : p.ip = r.ip
      BY <2>3, <3>2
    <3> HIDE DEF pf, dnat
    <3>5. \A r \in exact : r.proto = p.proto
      BY <3>3
    <3>6. \A r \in all : r.proto = "all"
      BY <3>3
    <3>7. ASSUME NEW r \in exact, NEW s \in pf
          PROVE  KeyOf("pf", r) \subseteq KeyOf("pf", s)
      BY <3>1, <3>3, <3>5
    <3>8. ASSUME NEW r \in all, NEW s \in all
          PROVE  KeyOf("pf", r) \subseteq KeyOf("pf", s)
      BY <3>1, <3>3, <3>6
    <3>9. ASSUME NEW r \in pf, NEW s \in dnat
          PROVE  KeyOf("pf", r) \subseteq KeyOf("dnat", s)
      BY <3>1, <3>2, <3>3, <3>4
    <3>10. ASSUME NEW r \in dnat, NEW s \in dnat
           PROVE  KeyOf("dnat", r) \subseteq KeyOf("dnat", s)
      BY <3>2, <3>4
    <3> QED BY <3>7, <3>8, <3>9, <3>10
  <2>6. \A r \in best : Lookup("dp_rules", p) = r.to
    <3> HIDE DEF pf, dnat
    <3>1. ASSUME NEW r \in pf, \A s \in pf : KeyOf("pf", r) \subseteq KeyOf("pf", s)
          PROVE  Lookup("dp_rules", p) = r.to
      <4>1. \A k \in T : p \in k => KeyOf("pf", r) \subseteq k
        BY <2>4, <2>5, <3>1
      <4>2. Lookup("dp_rules", p) = tables["dp_rules"][KeyOf("pf", r)]
        BY <2>2, <4>1, LookupLeast
      <4> QED BY <2>2, <4>2
    <3>2. ASSUME NEW r \in dnat, pf = {}
          PROVE  Lookup("dp_rules", p) = r.to
      <4>1. \A k \in T : p \in k => KeyOf("dnat", r) \subseteq k
        BY <2>4, <2>5, <3>2
      <4>2. Lookup("dp_rules", p) = tables["dp_rules"][KeyOf("dnat", r)]
        BY <2>3, <4>1, LookupLeast
      <4> QED BY <2>3, <4>2
    <3>3. CASE exact # {}
      BY <2>5, <3>1, <3>3
    <3>4. CASE exact = {} /\ all # {}
      <4>1. pf = all
        BY <3>4
      <4> QED BY <2>5, <3>1, <3>4, <4>1
    <3>5. CASE exact = {} /\ all = {}
      <4>1. pf = {}
        BY <3>5
      <4> QED BY <3>2, <3>5, <4>1
    <3> QED BY <3>3, <3>4, <3>5
  <2>7. best = {} => Lookup("dp_rules", p) = NoAddress
    <3> SUFFICES ASSUME best = {} PROVE Lookup("dp_rules", p) = NoAddress
      OBVIOUS
    <3> HIDE DEF pf, dnat
    <3>1. exact = {} /\ all = {} /\ dnat = {}
      OBVIOUS
    <3>2. pf = {}
      BY <3>1
    <3>3. {k \in DOMAIN tables["dp_rules"] : p \in k} = {}
      BY <2>4, <3>1, <3>2
    <3> QED BY <3>3 DEF Lookup
  <2>8. ByPriority(p) = {r.to : r \in best}
    BY DEF ByPriority
  <2> HIDE DEF best
  <2> QED BY <2>6, <2>7, <2>8
<1> QED BY <1>1, Inductive, PTL

\* While masquerade is on and nothing is under way, a host without a SNAT rule
\* is translated to the address of the external interface, in whatever order
\* the switch was set, rules were edited and addresses reported: every
\* interleaving of a request with the callbacks ends with the last address in
\* the table, or is one that gaps records.
THEOREM MasqueradeCurrent == Spec => []MasqueradeAddress
<1>1. NatInv => MasqueradeAddress
  <2> SUFFICES ASSUME NatInv, Quiet, AllReturned, gaps = {}, enabled,
                      external_ip_ # NoAddress, NEW h \in Hosts, Applying("snat", h) = {}
               PROVE  Lookup("sm_rules", h) = external_ip_
    BY DEF MasqueradeAddress, AllReturned
  <2>1. h \in Everyone
    BY DEF Everyone
  <2>2. /\ Everyone \in DOMAIN tables["sm_rules"]
        /\ tables["sm_rules"][Everyone] = external_ip_
    <3>1. Masqueraded
      BY DEF NatInv, Switch, Quiet
    <3>2. Everyone \notin KeysIn("snat", rules_["snat"])
      BY <2>1 DEF KeysIn, Applying, Range
    <3> QED BY <3>1, <3>2 DEF Masqueraded
  <2>3. \A k \in DOMAIN tables["sm_rules"] : h \in k => k = Everyone
    <3> SUFFICES ASSUME NEW k \in DOMAIN tables["sm_rules"], h \in k, k # Everyone
                 PROVE  FALSE
      OBVIOUS
    <3>1. k \in KeysOf("snat")
      BY DEF NatInv, Types, Admitted, Maps
    <3>2. "snat" \in Kinds /\ MapOf("snat") = "sm_rules"
      BY DEF Kinds, MapOf
    <3> QED BY <3>1, <3>2, CoveredApplies DEF OwnKeys
  <2>4. Lookup("sm_rules", h) = tables["sm_rules"][Everyone]
    BY <2>1, <2>2, <2>3, LookupLeast
  <2> QED BY <2>2, <2>4
<1> QED BY <1>1, Inductive, PTL
=============================================================================
