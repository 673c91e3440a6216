-------------------------- MODULE BlockChainLemmas --------------------------
(***************************************************************************)
(* Facts about the operators of BlockChain, for every value of its         *)
(* constants.                                                              *)
(***************************************************************************)
EXTENDS BlockChain, TLAPS, SequenceTheorems, FiniteSetTheorems, WellFoundedInduction

\* A block's hash is a history one entry longer than its predecessor's.
LEMMA HashType ==
    ASSUME NEW b \in Block
    PROVE  /\ EntryOf(b) \in Entry
           /\ Hash(b) \in History
           /\ Len(Hash(b)) = Len(b.prev) + 1
           /\ Hash(b) # NoHash
           /\ \A i \in 1 .. Len(b.prev) : Hash(b)[i] = b.prev[i]
           /\ Hash(b)[Len(b.prev) + 1] = EntryOf(b)
<1>1. b.prev \in Seq(Entry) /\ EntryOf(b) \in Entry
  BY DEF Block, EntryOf, Entry, History
<1> QED
  BY <1>1, AppendProperties DEF Hash, History, NoHash

\* Equal hashes come from equal blocks.
LEMMA HashInjective ==
    ASSUME NEW b \in Block, NEW d \in Block, Hash(b) = Hash(d)
    PROVE  b = d
<1>1. b.prev \in Seq(Entry) /\ d.prev \in Seq(Entry) /\ EntryOf(b) \in Entry /\ EntryOf(d) \in Entry
  BY HashType DEF Block, History
<1>2. b.prev = d.prev /\ EntryOf(b) = EntryOf(d)
  BY <1>1, AppendInjective DEF Hash
<1>3. b.id = d.id /\ b.ts = d.ts /\ b.key = d.key
  BY <1>2 DEF EntryOf
<1> QED
  BY <1>2, <1>3 DEF Block

\* A set of naturals has a least element.
LEMMA MinNat ==
    ASSUME NEW S \in SUBSET Nat, S # {}
    PROVE  Min(S) \in S /\ \A y \in S : Min(S) <= y
<1>1. PICK x \in S : \A y \in S : <<y, x>> \notin OpToRel(<, Nat)
  BY WFMin, NatLessThanWellFounded, Zenon
<1>2. \A y \in S : ~ (y < x)
  BY <1>1, Zenon DEF OpToRel
<1>3. \A y \in S : x <= y
  BY <1>2
<1> QED
  BY <1>3 DEF Min

\* A set of naturals with an upper bound has a greatest element.
LEMMA MaxNat ==
    ASSUME NEW S \in SUBSET Nat, S # {}, NEW n \in Nat, \A y \in S : y <= n
    PROVE  Max(S) \in S /\ \A y \in S : y <= Max(S)
<1> DEFINE T == {n - y : y \in S}
<1>1. T \in SUBSET Nat /\ T # {}
  <2>1. \A y \in S : n - y \in Nat
    OBVIOUS
  <2>2. PICK y \in S : TRUE
    OBVIOUS
  <2> QED BY <2>1, <2>2
<1>2. Min(T) \in T /\ \A t \in T : Min(T) <= t
  BY <1>1, MinNat
<1>3. PICK x \in S : Min(T) = n - x
  BY <1>2
<1>4. \A y \in S : n - x <= n - y
  BY <1>2, <1>3
<1>5. \A y \in S : x >= y
  BY <1>4
<1> QED
  BY <1>5 DEF Max

\* The list rest is the list order without its k-th entry.
IsWithout(rest, order, k) ==
    /\ rest \in Seq(NodeID) /\ Len(rest) = Len(order) - 1
    /\ \A j \in 1 .. k - 1 : rest[j] = order[j]
    /\ \A j \in k + 1 .. Len(order) : rest[j - 1] = order[j]

\* Removing the first occurrence of an ID shifts the IDs behind it forward by one.
LEMMA RemoveFirstShifts ==
    ASSUME NEW order \in Seq(NodeID), NEW id, NEW rest, rest = RemoveFirst(order, id)
    PROVE  \/ rest = order /\ \A i \in 1 .. Len(order) : order[i] # id
           \/ \E k \in 1 .. Len(order) : order[k] = id /\ IsWithout(rest, order, k)
<1>1. CASE \E i \in 1 .. Len(order) : order[i] = id
  <2> DEFINE I == {i \in 1 .. Len(order) : order[i] = id}
             k == Min(I)
  <2>1. k \in I
    <3>1. I \in SUBSET Nat /\ I # {}
      BY <1>1
    <3> HIDE DEF I
    <3> QED BY <3>1, MinNat
  <2> HIDE DEF k
  <2>2. k \in 1 .. Len(order) /\ order[k] = id
    BY <2>1
  <2>3. rest = RemoveAt(order, k)
    BY <1>1 DEF RemoveFirst, SelectInSeq, k
  <2>4. rest = SubSeq(order, 1, k - 1) \o SubSeq(order, k + 1, Len(order))
    BY <2>3 DEF RemoveAt
  <2> DEFINE left == SubSeq(order, 1, k - 1)
             right == SubSeq(order, k + 1, Len(order))
  <2>5. /\ left \in Seq(NodeID) /\ Len(left) = k - 1
        /\ \A j \in 1 .. k - 1 : left[j] = order[j]
    BY <2>2, SubSeqProperties
  <2>6. /\ right \in Seq(NodeID) /\ Len(right) = Len(order) - k
        /\ \A j \in 1 .. Len(order) - k : right[j] = order[k + j]
    BY <2>2, SubSeqProperties
  <2>7. rest = left \o right
    BY <2>4
  <2> HIDE DEF left, right
  <2>8. /\ rest \in Seq(NodeID)
        /\ Len(rest) = Len(left) + Len(right)
        /\ \A j \in 1 .. Len(left) + Len(right) :
              rest[j] = IF j <= Len(left) THEN left[j] ELSE right[j - Len(left)]
    <3>1. /\ left \o right \in Seq(NodeID)
          /\ Len(left \o right) = Len(left) + Len(right)
          /\ \A j \in 1 .. Len(left) + Len(right) :
                (left \o right)[j] = IF j <= Len(left) THEN left[j] ELSE right[j - Len(left)]
      BY <2>5, <2>6, ConcatProperties
    <3> QED BY <2>7, <3>1
  <2>9. Len(left) + Len(right) = Len(order) - 1
    BY <2>2, <2>5, <2>6
  <2>10. \A j \in 1 .. k - 1 : rest[j] = order[j]
    <3> SUFFICES ASSUME NEW j \in 1 .. k - 1 PROVE rest[j] = order[j]
      OBVIOUS
    <3>1. j \in 1 .. Len(left) + Len(right) /\ j <= Len(left)
      BY <2>2, <2>5, <2>9
    <3> QED BY <2>5, <2>8, <3>1
  <2>11. \A j \in k + 1 .. Len(order) : rest[j - 1] = order[j]
    <3> SUFFICES ASSUME NEW j \in k + 1 .. Len(order) PROVE rest[j - 1] = order[j]
      OBVIOUS
    <3>1. j - 1 \in 1 .. Len(left) + Len(right) /\ ~ (j - 1 <= Len(left))
      BY <2>2, <2>5, <2>9
    <3>2. rest[j - 1] = right[j - 1 - Len(left)]
      BY <2>8, <3>1
    <3>3. j - 1 - Len(left) \in 1 .. Len(order) - k /\ k + (j - 1 - Len(left)) = j
      BY <2>2, <2>5
    <3> QED BY <2>6, <3>2, <3>3
  <2>12. Len(rest) = Len(order) - 1
    BY <2>8, <2>9
  <2> QED BY <2>2, <2>8, <2>10, <2>11, <2>12 DEF IsWithout
<1>2. CASE ~ \E i \in 1 .. Len(order) : order[i] = id
  BY <1>2 DEF RemoveFirst
<1> QED BY <1>1, <1>2

\* addNodeIDToList puts the ID last and loses no other.
LEMMA AddNodeIDToListType ==
    ASSUME NEW order \in Seq(NodeID), NEW id \in NodeID
    PROVE  /\ AddNodeIDToList(order, id) \in Seq(NodeID)
           /\ ToSet(AddNodeIDToList(order, id)) = ToSet(order) \cup {id}
<1>1. PICK rest : rest = RemoveFirst(order, id)
  OBVIOUS
<1>2. rest \in Seq(NodeID) /\ ToSet(rest) \cup {id} = ToSet(order) \cup {id}
  <2>1. CASE rest = order
    BY <2>1
  <2>2. CASE rest # order
    <3>0. PICK k \in 1 .. Len(order) : order[k] = id /\ IsWithout(rest, order, k)
      BY <1>1, <2>2, RemoveFirstShifts
    <3> USE <3>0 DEF IsWithout
    <3>1. \A j \in DOMAIN rest : rest[j] \in ToSet(order)
      <4> SUFFICES ASSUME NEW j \in DOMAIN rest PROVE rest[j] \in ToSet(order)
        OBVIOUS
      <4>1. CASE j < k
        <5>1. j \in 1 .. k - 1 /\ j \in DOMAIN order
          BY <4>1
        <5> QED BY <5>1 DEF ToSet
      <4>2. CASE ~ (j < k)
        <5>1. j + 1 \in k + 1 .. Len(order) /\ j + 1 \in DOMAIN order /\ (j + 1) - 1 = j
          BY <4>2
        <5> QED BY <5>1 DEF ToSet
      <4> QED BY <4>1, <4>2
    <3>2. \A i \in DOMAIN order : order[i] = id \/ order[i] \in ToSet(rest)
      <4> SUFFICES ASSUME NEW i \in DOMAIN order, order[i] # id
                   PROVE  \E j \in DOMAIN rest : rest[j] = order[i]
        BY DEF ToSet
      <4>1. CASE i < k
        <5>1. i \in 1 .. k - 1 /\ i \in DOMAIN rest
          BY <4>1
        <5> QED BY <5>1
      <4>2. CASE i > k
        <5>1. i \in k + 1 .. Len(order) /\ i - 1 \in DOMAIN rest
          BY <4>2
        <5> QED BY <5>1
      <4> QED BY <4>1, <4>2
    <3>3. id \in ToSet(order)
      BY DEF ToSet
    <3> QED BY <3>1, <3>2, <3>3 DEF ToSet
  <2> QED BY <2>1, <2>2
<1>3. /\ DOMAIN Append(rest, id) = 1 .. Len(rest) + 1 /\ DOMAIN rest = 1 .. Len(rest)
      /\ \A j \in 1 .. Len(rest) : Append(rest, id)[j] = rest[j]
      /\ Append(rest, id)[Len(rest) + 1] = id
      /\ Append(rest, id) \in Seq(NodeID)
  BY <1>2
<1>4. ToSet(Append(rest, id)) = ToSet(rest) \cup {id}
  BY <1>2, <1>3 DEF ToSet
<1>5. AddNodeIDToList(order, id) = Append(rest, id)
  BY <1>1 DEF AddNodeIDToList
<1> QED
  BY <1>2, <1>3, <1>4, <1>5

\* In the list addNodeIDToList returns, the ID comes last, and of two others that
\* stand in some order, both were there in that order.
LEMMA AddNodeIDToListOrder ==
    ASSUME NEW order \in Seq(NodeID), NEW id \in NodeID,
           \A j \in DOMAIN order : \A i \in 1 .. j - 1 : order[i] # order[j]
    PROVE  LET new == AddNodeIDToList(order, id)
           IN  \A j \in DOMAIN new : \A i \in 1 .. j - 1 :
                  /\ new[i] # id /\ new[i] \in ToSet(order)
                  /\ \/ new[j] = id
                     \/ \E l \in DOMAIN order : \E k \in 1 .. l - 1 :
                           order[k] = new[i] /\ order[l] = new[j] /\ new[j] # id
<1>1. PICK rest : rest = RemoveFirst(order, id)
  OBVIOUS
<1>2. PICK new : new = AddNodeIDToList(order, id)
  OBVIOUS
<1>3. /\ rest \in Seq(NodeID)
      /\ \A j \in 1 .. Len(rest) : \E l \in 1 .. Len(order) :
            /\ order[l] = rest[j] /\ order[l] # id
            /\ \A i \in 1 .. j - 1 : \E k \in 1 .. l - 1 : order[k] = rest[i]
  <2>1. CASE rest = order /\ \A i \in 1 .. Len(order) : order[i] # id
    BY <2>1
  <2>2. CASE ~ (rest = order /\ \A i \in 1 .. Len(order) : order[i] # id)
    <3>0. PICK m \in 1 .. Len(order) : order[m] = id /\ IsWithout(rest, order, m)
      BY <1>1, <2>2, RemoveFirstShifts
    <3> USE <3>0 DEF IsWithout
    <3> DEFINE Was(i) == IF i < m THEN i ELSE i + 1
    <3>1. \A i \in 1 .. Len(rest) : \/ Was(i) = i /\ i \in 1 .. m - 1
                                    \/ Was(i) = i + 1 /\ i + 1 \in m + 1 .. Len(order)
      OBVIOUS
    <3>2. \A j \in 1 .. Len(rest) : \A i \in 1 .. j - 1 : Was(i) \in 1 .. Was(j) - 1
      OBVIOUS
    <3> HIDE DEF Was
    <3>3. ASSUME NEW i \in 1 .. Len(rest)
          PROVE  Was(i) \in 1 .. Len(order) /\ order[Was(i)] = rest[i] /\ order[Was(i)] # id
      <4>1. CASE Was(i) = i /\ i \in 1 .. m - 1
        <5>1. i \in DOMAIN order /\ m \in DOMAIN order
          BY <4>1
        <5> QED BY <4>1, <5>1
      <4>2. CASE Was(i) = i + 1 /\ i + 1 \in m + 1 .. Len(order)
        <5>1. (i + 1) - 1 = i /\ m \in 1 .. (i + 1) - 1 /\ i + 1 \in DOMAIN order
          BY <4>2
        <5>2. rest[i] = order[i + 1]
          BY <4>2, <5>1
        <5>3. order[m] # order[i + 1]
          BY <5>1
        <5> QED BY <4>2, <5>1, <5>2, <5>3
      <4> QED BY <3>1, <4>1, <4>2
    <3>4. \A j \in 1 .. Len(rest) : \A i \in 1 .. j - 1 : order[Was(i)] = rest[i]
      BY <3>3
    <3>5. ASSUME NEW j \in 1 .. Len(rest)
          PROVE  \E l \in 1 .. Len(order) :
                    /\ order[l] = rest[j] /\ order[l] # id
                    /\ \A i \in 1 .. j - 1 : \E k \in 1 .. l - 1 : order[k] = rest[i]
      <4>1. \A i \in 1 .. j - 1 : \E k \in 1 .. Was(j) - 1 : order[k] = rest[i]
        BY <3>2, <3>4
      <4> QED BY <3>3, <4>1
    <3> QED BY <3>5
  <2> QED BY <2>1, <2>2
<1>4. new = Append(rest, id)
  BY <1>1, <1>2 DEF AddNodeIDToList
<1>5. /\ DOMAIN new = 1 .. Len(rest) + 1
      /\ \A j \in 1 .. Len(rest) : new[j] = rest[j]
      /\ new[Len(rest) + 1] = id
      /\ DOMAIN order = 1 .. Len(order) /\ Len(rest) \in Nat
  BY <1>3, <1>4
<1>6. ASSUME NEW j \in DOMAIN new, NEW i \in 1 .. j - 1
      PROVE  /\ new[i] # id /\ new[i] \in ToSet(order)
             /\ \/ new[j] = id
                \/ \E l \in DOMAIN order : \E k \in 1 .. l - 1 :
                      order[k] = new[i] /\ order[l] = new[j] /\ new[j] # id
  <2>1. i \in 1 .. Len(rest) /\ new[i] = rest[i]
    BY <1>5
  <2>2. PICK l \in 1 .. Len(order) : order[l] = rest[i] /\ order[l] # id
    BY <1>3, <2>1
  <2>3. new[i] # id /\ new[i] \in ToSet(order)
    BY <1>5, <2>1, <2>2 DEF ToSet
  <2>4. CASE j = Len(rest) + 1
    BY <1>5, <2>3, <2>4
  <2>5. CASE j # Len(rest) + 1
    <3>1. j \in 1 .. Len(rest) /\ new[j] = rest[j]
      BY <1>5, <2>5
    <3>2. PICK q \in 1 .. Len(order) :
                 /\ order[q] = rest[j] /\ order[q] # id
                 /\ \E k \in 1 .. q - 1 : order[k] = rest[i]
      BY <1>3, <3>1
    <3> QED BY <1>5, <2>1, <2>3, <3>1, <3>2
  <2> QED BY <2>4, <2>5
<1> QED BY <1>2, <1>6

\* addBlock keeps the map and the list of a chain together.
LEMMA AddBlockIsChain ==
    ASSUME NEW c, IsChain(c), NEW b \in Block
    PROVE  /\ IsChain(AddBlock(c, b))
           /\ AddBlock(c, b).last = b
<1> DEFINE d == AddBlock(c, b)
<1>1. b.id \in NodeID
  BY DEF Block
<1>2. /\ d.order \in Seq(NodeID)
      /\ ToSet(d.order) = ToSet(c.order) \cup {b.id}
  BY <1>1, AddNodeIDToListType DEF AddBlock, IsChain
<1>3. /\ DOMAIN d.blocks = DOMAIN c.blocks \cup {b.id}
      /\ d.blocks \in [DOMAIN d.blocks -> Block]
      /\ d.last = b
      /\ d = [blocks |-> d.blocks, order |-> d.order, last |-> d.last]
  BY DEF AddBlock, IsChain
<1>4. IsFiniteSet(DOMAIN d.blocks)
  BY <1>3, FS_AddElement DEF IsChain
<1> QED
  BY <1>1, <1>2, <1>3, <1>4 DEF IsChain

\* Among one more IDs than there are blocks, one is free.
LEMMA FreeIDsExist ==
    ASSUME NEW c, IsChain(c), NEW now
    PROVE  FreeIDs(c, now) # {} /\ FreeIDs(c, now) \in SUBSET Nat
<1> DEFINE D == DOMAIN c.blocks
           n == Cardinality(D)
<1>1. IsFiniteSet(D) /\ n \in Nat
  BY FS_CardinalityType DEF IsChain
<1>2. ~ (1 .. n + 1 \subseteq D)
  <2> SUFFICES ASSUME 1 .. n + 1 \subseteq D PROVE FALSE
    OBVIOUS
  <2>1. Cardinality(1 .. n + 1) <= n
    BY <1>1, FS_Subset
  <2>2. Cardinality(1 .. n + 1) = n + 1
    BY <1>1, FS_Interval
  <2> QED BY <1>1, <2>1, <2>2
<1> QED BY <1>1, <1>2 DEF FreeIDs, ContainsValidNodeID

\* nextNodeID gives out an ID that no live block of the chain holds.
LEMMA NextNodeIDIsFree ==
    ASSUME NEW c, IsChain(c), NEW now
    PROVE  /\ NextNodeID(c, now) \in NodeID
           /\ ~ ContainsValidNodeID(c, NextNodeID(c, now), now)
<1>1. FreeIDs(c, now) # {} /\ FreeIDs(c, now) \in SUBSET Nat
  BY FreeIDsExist
<1>2. NextNodeID(c, now) \in FreeIDs(c, now)
  BY <1>1, MinNat DEF NextNodeID
<1>3. Cardinality(DOMAIN c.blocks) \in Nat
  BY FS_CardinalityType DEF IsChain
<1> QED
  BY <1>2, <1>3 DEF FreeIDs, NodeID

-----------------------------------------------------------------------------
(***************************************************************************)
(* The registry of a history.                                              *)
(***************************************************************************)

\* The latest entry of an ID is one of its entries, and no later one is.
LEMMA LatestEntryIsLatest ==
    ASSUME NEW h \in History, NEW k \in DOMAIN h
    PROVE  /\ LatestEntry(h, h[k].id) \in DOMAIN h
           /\ h[LatestEntry(h, h[k].id)].id = h[k].id
           /\ k <= LatestEntry(h, h[k].id)
<1> DEFINE S == {i \in DOMAIN h : h[i].id = h[k].id}
<1>1. /\ DOMAIN h = 1 .. Len(h) /\ Len(h) \in Nat
      /\ S \in SUBSET Nat /\ k \in S /\ \A y \in S : y <= Len(h)
  BY DEF History
<1>2. Max(S) \in S /\ \A y \in S : y <= Max(S)
  <2> HIDE DEF S
  <2> QED BY <1>1, MaxNat
<1> QED
  BY <1>1, <1>2 DEF LatestEntry

\* A latest entry is determined by being one.
LEMMA LatestEntryIs ==
    ASSUME NEW h \in History, NEW k \in DOMAIN h,
           \A i \in DOMAIN h : h[i].id = h[k].id => i <= k
    PROVE  LatestEntry(h, h[k].id) = k
<1>1. DOMAIN h = 1 .. Len(h) /\ Len(h) \in Nat
  BY DEF History
<1> QED
  BY <1>1, LatestEntryIsLatest

\* Appending a block to a history registers the block and leaves the other
\* IDs as they were.
LEMMA RegistryOfHash ==
    ASSUME NEW b \in Block
    PROVE  /\ DOMAIN Registry(Hash(b)) = DOMAIN Registry(b.prev) \cup {b.id}
           /\ Registry(Hash(b))[b.id] = b
           /\ \A id \in DOMAIN Registry(b.prev) :
                 id # b.id => Registry(Hash(b))[id] = Registry(b.prev)[id]
<1> DEFINE h == Hash(b)
           n == Len(b.prev) + 1
<1>1. /\ b.prev \in History /\ h \in History
      /\ Len(b.prev) \in Nat /\ Len(h) = n
      /\ DOMAIN h = 1 .. n /\ DOMAIN b.prev = 1 .. Len(b.prev)
      /\ \A i \in 1 .. Len(b.prev) : h[i] = b.prev[i]
      /\ h[n] = EntryOf(b) /\ h[n].id = b.id
  BY HashType DEF Block, History, EntryOf
<1> HIDE DEF h
<1>2. DOMAIN Registry(h) = {h[i].id : i \in DOMAIN h}
  BY DEF Registry
<1>3. DOMAIN Registry(b.prev) = {b.prev[i].id : i \in DOMAIN b.prev}
  BY DEF Registry
<1>4. DOMAIN Registry(h) = DOMAIN Registry(b.prev) \cup {b.id}
  <2>1. ASSUME NEW i \in DOMAIN h
        PROVE  h[i].id \in {b.prev[j].id : j \in DOMAIN b.prev} \cup {b.id}
    <3>1. CASE i = n
      BY <3>1, <1>1
    <3>2. CASE i # n
      <4>1. i \in DOMAIN b.prev /\ h[i] = b.prev[i]
        <5>1. i \in 1 .. n
          BY <1>1
        <5>2. i \in 1 .. Len(b.prev)
          BY <5>1, <3>2, <1>1
        <5> QED BY <5>2, <1>1
      <4> QED BY <4>1
    <3> QED BY <3>1, <3>2
  <2>2. ASSUME NEW j \in DOMAIN b.prev
        PROVE  b.prev[j].id \in {h[i].id : i \in DOMAIN h}
    <3>1. j \in 1 .. Len(b.prev)
      BY <1>1
    <3>2. j \in DOMAIN h /\ h[j] = b.prev[j]
      BY <3>1, <1>1
    <3> QED BY <3>2
  <2>3. b.id \in {h[i].id : i \in DOMAIN h}
    <3>1. n \in DOMAIN h /\ h[n].id = b.id
      BY <1>1
    <3> QED BY <3>1
  <2> HIDE DEF n
  <2> QED BY <2>1, <2>2, <2>3, <1>2, <1>3
<1>5. SubSeq(h, 1, n - 1) = b.prev
  <2>1. n - 1 = Len(b.prev)
    BY <1>1
  <2>2. /\ SubSeq(h, 1, Len(b.prev)) \in Seq(Entry)
        /\ Len(SubSeq(h, 1, Len(b.prev))) = Len(b.prev)
        /\ \A i \in 1 .. Len(b.prev) : SubSeq(h, 1, Len(b.prev))[i] = b.prev[i]
    BY <1>1, SubSeqProperties DEF History
  <2> QED BY <1>1, <2>1, <2>2, SeqEqual DEF History
<1>6. LatestEntry(h, b.id) = n
  <2>1. n \in DOMAIN h /\ \A i \in DOMAIN h : h[i].id = h[n].id => i <= n
    BY <1>1
  <2> QED BY <1>1, <2>1, LatestEntryIs
<1>7. Registry(h)[b.id] = b
  <2>1. Registry(h)[b.id] = BlockAt(h, n)
    BY <1>4, <1>6 DEF Registry
  <2>2. BlockAt(h, n) = b
    BY <1>1, <1>5 DEF BlockAt, MakeBlock, EntryOf, Block
  <2> QED BY <2>1, <2>2
<1>8. ASSUME NEW id \in DOMAIN Registry(b.prev), id # b.id
      PROVE  Registry(h)[id] = Registry(b.prev)[id]
  <2>1. PICK j \in DOMAIN b.prev : b.prev[j].id = id
    BY <1>3
  <2> DEFINE k == LatestEntry(b.prev, id)
  <2>2. k \in DOMAIN b.prev /\ b.prev[k].id = id
    BY <1>1, <2>1, LatestEntryIsLatest
  <2>3. \A i \in DOMAIN b.prev : b.prev[i].id = id => i <= k
    BY <1>1, LatestEntryIsLatest
  <2> HIDE DEF k
  <2>4. k \in DOMAIN h /\ h[k].id = id /\ \A i \in DOMAIN h : h[i].id = id => i <= k
    <3>1. k \in DOMAIN h /\ h[k].id = id
      BY <1>1, <2>2
    <3>2. ASSUME NEW i \in DOMAIN h, h[i].id = id
          PROVE  i <= k
      <4>1. i \in 1 .. n /\ i # n
        BY <1>1, <1>8, <3>2
      <4>2. i \in 1 .. Len(b.prev)
        BY <1>1, <4>1
      <4>3. i \in DOMAIN b.prev /\ b.prev[i].id = id
        BY <1>1, <4>2, <3>2
      <4> QED BY <4>3, <2>3
    <3> QED BY <3>1, <3>2
  <2>5. LatestEntry(h, id) = k
    BY <1>1, <2>4, LatestEntryIs
  <2>6. SubSeq(h, 1, k - 1) = SubSeq(b.prev, 1, k - 1)
    <3>1. k \in 1 .. Len(b.prev)
      BY <1>1, <2>2
    <3>2. /\ SubSeq(h, 1, k - 1) \in Seq(Entry) /\ Len(SubSeq(h, 1, k - 1)) = k - 1
          /\ \A i \in 1 .. k - 1 : SubSeq(h, 1, k - 1)[i] = b.prev[i]
      BY <1>1, <3>1, SubSeqProperties DEF History
    <3>3. /\ SubSeq(b.prev, 1, k - 1) \in Seq(Entry) /\ Len(SubSeq(b.prev, 1, k - 1)) = k - 1
          /\ \A i \in 1 .. k - 1 : SubSeq(b.prev, 1, k - 1)[i] = b.prev[i]
      BY <1>1, <3>1, SubSeqProperties DEF History
    <3> QED BY <3>2, <3>3, SeqEqual
  <2>7. BlockAt(h, k) = BlockAt(b.prev, k)
    BY <1>1, <2>2, <2>6 DEF BlockAt
  <2>8. Registry(h)[id] = BlockAt(h, k)
    BY <1>4, <2>5 DEF Registry
  <2>9. Registry(b.prev)[id] = BlockAt(b.prev, k)
    BY DEF Registry, k
  <2> QED BY <2>7, <2>8, <2>9
<1> QED
  BY <1>4, <1>7, <1>8 DEF h
=============================================================================
