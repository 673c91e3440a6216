-------------------------- MODULE FileSearchProofs --------------------------
(***************************************************************************)
(* Proofs about FileSearch, for any network, any searches and any bounds.  *)
(***************************************************************************)
EXTENDS FileSearch, TLAPS, FiniteSetTheorems, SequenceTheorems

-----------------------------------------------------------------------------
(***************************************************************************)
(* Counting the units in a bag of packets.                                 *)
(***************************************************************************)

IsASearchOf(m, s) == m.type = "SRequest" /\ m.search = s

\* Every request of a bag has a budget.
IsBudgeted(bag) ==
    /\ IsABag(bag)
    /\ \A m \in DOMAIN bag : m.type = "SRequest" => m.budget \in Nat

\* What a unit is.
LEMMA UnitOf ==
    ASSUME NEW bag, NEW s
    PROVE  \A u : u \in Units(bag, s) <=>
              \E m \in DOMAIN bag : /\ IsASearchOf(m, s)
                                    /\ \E i \in 1 .. m.budget, j \in 1 .. bag[m] : u = <<m, i, j>>
BY DEF Units, BagToSet, IsASearchOf

\* What two bags contain together.
LEMMA BagsAdd ==
    ASSUME NEW A, NEW B, IsBudgeted(A), IsBudgeted(B)
    PROVE  /\ \A m \in DOMAIN A : A[m] \in Nat /\ A[m] > 0
           /\ \A m \in DOMAIN B : B[m] \in Nat /\ B[m] > 0
           /\ DOMAIN (A (+) B) = DOMAIN A \cup DOMAIN B
           /\ \A m \in DOMAIN (A (+) B) :
                 (A (+) B)[m] = (IF m \in DOMAIN A THEN A[m] ELSE 0)
                                + IF m \in DOMAIN B THEN B[m] ELSE 0
BY DEF IsBudgeted, IsABag, (+)

\* The units of a bag are there when packets are added.
LEMMA UnitsGrow ==
    ASSUME NEW A, NEW B, NEW s, IsBudgeted(A), IsBudgeted(B)
    PROVE  Units(A, s) \subseteq Units(A (+) B, s)
<1> DEFINE C == A (+) B
<1> SUFFICES ASSUME NEW m \in DOMAIN A, IsASearchOf(m, s), NEW i \in 1 .. m.budget,
                    NEW j \in 1 .. A[m]
             PROVE  <<m, i, j>> \in Units(C, s)
  BY UnitOf
<1>0. /\ \A e \in DOMAIN A : A[e] \in Nat /\ A[e] > 0
      /\ \A e \in DOMAIN B : B[e] \in Nat /\ B[e] > 0
      /\ DOMAIN C = DOMAIN A \cup DOMAIN B
      /\ \A e \in DOMAIN C : C[e] = (IF e \in DOMAIN A THEN A[e] ELSE 0)
                                    + IF e \in DOMAIN B THEN B[e] ELSE 0
  BY DEF IsBudgeted, IsABag, (+)
<1> HIDE DEF C
<1>1. /\ m \in DOMAIN C /\ A[m] \in Nat
      /\ C[m] = A[m] + IF m \in DOMAIN B THEN B[m] ELSE 0
      /\ m \in DOMAIN B => B[m] \in Nat
  BY <1>0
<1>2. j \in 1 .. C[m]
  BY <1>1
<1> QED BY <1>1, <1>2, UnitOf DEF C

\* The budgets of two bags add up.
LEMMA UnitsAdd ==
    ASSUME NEW A, NEW B, NEW s, IsBudgeted(A), IsBudgeted(B),
           IsFiniteSet(Units(A, s)), IsFiniteSet(Units(B, s))
    PROVE  /\ IsBudgeted(A (+) B)
           /\ IsFiniteSet(Units(A (+) B, s))
           /\ Cardinality(Units(A (+) B, s)) = Cardinality(Units(A, s)) + Cardinality(Units(B, s))
<1> DEFINE C == A (+) B
           inA(m) == IF m \in DOMAIN A THEN A[m] ELSE 0
           UA == Units(A, s)
           UB == Units(B, s)
           UC == Units(C, s)
           moved == [u \in UB |-> <<u[1], u[2], u[3] + inA(u[1])>>]
           D == {moved[u] : u \in UB}
<1>1. /\ \A m \in DOMAIN A : A[m] \in Nat /\ A[m] > 0
      /\ \A m \in DOMAIN B : B[m] \in Nat /\ B[m] > 0
  BY BagsAdd
<1>2. /\ DOMAIN C = DOMAIN A \cup DOMAIN B
      /\ \A m \in DOMAIN C : C[m] = inA(m) + IF m \in DOMAIN B THEN B[m] ELSE 0
  BY BagsAdd
<1>3. \A m \in DOMAIN C : C[m] \in Nat /\ C[m] > 0
  BY <1>1, <1>2
<1>4. IsBudgeted(C)
  <2>1. IsABag(C)
    BY <1>3 DEF IsABag, (+)
  <2>2. \A m \in DOMAIN C : m.type = "SRequest" => m.budget \in Nat
    BY <1>2 DEF IsBudgeted
  <2> QED BY <2>1, <2>2 DEF IsBudgeted
<1>5. ASSUME NEW u PROVE u \in UC <=> u \in UA \/ u \in D
  <2>1. u \in UA => u \in UC
    BY UnitsGrow
  <2>2. u \in D => u \in UC
    <3> SUFFICES ASSUME NEW v \in UB, u = moved[v] PROVE u \in UC
      OBVIOUS
    <3>1. PICK m \in DOMAIN B : /\ IsASearchOf(m, s)
                                /\ \E i \in 1 .. m.budget, j \in 1 .. B[m] : v = <<m, i, j>>
      BY UnitOf
    <3>2. PICK i \in 1 .. m.budget, j \in 1 .. B[m] : v = <<m, i, j>>
      BY <3>1
    <3>3. u = <<m, i, j + inA(m)>>
      BY <3>2
    <3>4. m \in DOMAIN C /\ j + inA(m) \in 1 .. C[m]
      BY <1>1, <1>2
    <3> QED BY <3>1, <3>3, <3>4, UnitOf
  <2>3. u \in UC => u \in UA \/ u \in D
    <3> SUFFICES ASSUME NEW m \in DOMAIN C, IsASearchOf(m, s), NEW i \in 1 .. m.budget,
                        NEW j \in 1 .. C[m], u = <<m, i, j>>, u \notin UA
                 PROVE  u \in D
      BY UnitOf
    <3>1. ~ (m \in DOMAIN A /\ j \in 1 .. A[m])
      BY UnitOf
    <3>2. m \in DOMAIN B /\ inA(m) \in Nat /\ j > inA(m) /\ j - inA(m) \in 1 .. B[m]
      BY <1>1, <1>2, <3>1
    <3> DEFINE v == <<m, i, j - inA(m)>>
    <3>3. v \in UB
      BY <3>2, UnitOf
    <3>4. v[1] = m /\ v[2] = i /\ v[3] = j - inA(m)
      OBVIOUS
    <3>5. moved[v] = <<m, i, (j - inA(m)) + inA(m)>>
      BY <3>3, <3>4
    <3>6. (j - inA(m)) + inA(m) = j
      BY <3>2
    <3> QED BY <3>3, <3>5, <3>6
  <2> QED BY <2>1, <2>2, <2>3
<1>6. UA \cap D = {}
  <2> SUFFICES ASSUME NEW v \in UB, moved[v] \in UA PROVE FALSE
    OBVIOUS
  <2>1. PICK m \in DOMAIN B, i \in Int, j \in Int : v = <<m, i, j>> /\ j \in 1 .. B[m]
    BY UnitOf
  <2>2. moved[v] = <<m, i, j + inA(m)>>
    BY <2>1
  <2>3. m \in DOMAIN A /\ j + A[m] \in 1 .. A[m]
    BY <2>2, UnitOf
  <2> QED BY <1>1, <2>1, <2>3
<1>7. moved \in Bijection(UB, D)
  <2>1. moved \in [UB -> D]
    OBVIOUS
  <2>2. \A d \in D : \E u \in UB : moved[u] = d
    OBVIOUS
  <2>3. ASSUME NEW u \in UB, NEW v \in UB, moved[u] = moved[v] PROVE u = v
    <3>1. PICK m \in DOMAIN B, i \in Int, j \in Int : u = <<m, i, j>> /\ j \in 1 .. B[m]
      BY UnitOf
    <3>2. PICK n \in DOMAIN B, k \in Int, l \in Int : v = <<n, k, l>> /\ l \in 1 .. B[n]
      BY UnitOf
    <3>3. moved[u] = <<m, i, j + inA(m)>> /\ moved[v] = <<n, k, l + inA(n)>>
      BY <3>1, <3>2
    <3>4. m = n /\ i = k /\ j + inA(m) = l + inA(n)
      BY <2>3, <3>3
    <3>5. j = l
      BY <1>1, <3>4
    <3> QED BY <3>1, <3>2, <3>4, <3>5
  <2> QED BY <2>1, <2>2, <2>3 DEF Bijection, Injection, Surjection, IsInjective
<1>8. IsFiniteSet(D) /\ Cardinality(D) = Cardinality(UB)
  BY <1>7, FS_Bijection DEF ExistsBijection
<1>9. UC = UA \cup D
  BY <1>5
<1>10. IsFiniteSet(UA) /\ IsFiniteSet(UB)
  OBVIOUS
<1> HIDE DEF C, UA, UB, UC, D, moved
<1>11. IsFiniteSet(UA \cup D)
       /\ Cardinality(UA \cup D) = Cardinality(UA) + Cardinality(D) - Cardinality(UA \cap D)
  BY <1>8, <1>10, FS_Union
<1>12. Cardinality(UA \cap D) = 0
  BY <1>6, FS_EmptySet
<1>13. Cardinality(UA) \in Nat /\ Cardinality(D) \in Nat
  BY <1>8, <1>10, FS_CardinalityType
<1>14. IsFiniteSet(UC) /\ Cardinality(UC) = Cardinality(UA) + Cardinality(UB)
  BY <1>8, <1>9, <1>11, <1>12, <1>13
<1> QED BY <1>4, <1>14 DEF C, UA, UB, UC

\* One packet.
LEMMA UnitsOne ==
    ASSUME NEW m, NEW s, m.type = "SRequest" => m.budget \in Nat
    PROVE  /\ IsBudgeted(SetToBag({m}))
           /\ IsFiniteSet(Units(SetToBag({m}), s))
           /\ Cardinality(Units(SetToBag({m}), s)) = IF IsASearchOf(m, s) THEN m.budget ELSE 0
<1> DEFINE B == SetToBag({m})
           U == Units(B, s)
<1>1. DOMAIN B = {m} /\ B[m] = 1 /\ B = [x \in {m} |-> 1]
  BY DEF SetToBag
<1>2. IsBudgeted(B)
  BY <1>1 DEF IsBudgeted, IsABag
<1>3. CASE IsASearchOf(m, s)
  <2> DEFINE I == 1 .. m.budget
             f == [i \in I |-> <<m, i, 1>>]
  <2>1. m.budget \in Nat
    BY <1>3 DEF IsASearchOf
  <2>2. f \in [I -> U]
    BY <1>1, <1>3, UnitOf
  <2>3. \A u \in U : \E i \in I : f[i] = u
    BY <1>1, UnitOf
  <2>4. f \in Bijection(I, U)
    BY <2>2, <2>3 DEF Bijection, Injection, Surjection, IsInjective
  <2>5. IsFiniteSet(I) /\ Cardinality(I) = m.budget
    <3> DEFINE n == m.budget
    <3>1. n \in Nat
      BY <2>1
    <3> HIDE DEF n
    <3>2. IsFiniteSet(1 .. n) /\ Cardinality(1 .. n) = n
      BY <3>1, FS_Interval
    <3> QED BY <3>2 DEF n
  <2>6. IsFiniteSet(U) /\ Cardinality(U) = m.budget
    BY <2>4, <2>5, FS_Bijection DEF ExistsBijection
  <2> QED BY <1>2, <1>3, <2>6
<1>4. CASE ~ IsASearchOf(m, s)
  <2>1. U = {}
    BY <1>1, <1>4, UnitOf
  <2> QED BY <1>2, <1>4, <2>1, FS_EmptySet
<1> QED BY <1>3, <1>4

\* No packet.
LEMMA UnitsNone ==
    ASSUME NEW s
    PROVE  /\ IsBudgeted(EmptyBag)
           /\ Units(EmptyBag, s) = {}
           /\ IsFiniteSet(Units(EmptyBag, s)) /\ Cardinality(Units(EmptyBag, s)) = 0
<1>1. DOMAIN EmptyBag = {} /\ EmptyBag = [x \in {} |-> 1]
  BY DEF EmptyBag, SetToBag
<1>2. IsBudgeted(EmptyBag)
  BY <1>1 DEF IsBudgeted, IsABag
<1>3. Units(EmptyBag, s) = {}
  BY <1>1, UnitOf
<1> QED BY <1>2, <1>3, FS_EmptySet

\* Taking a packet out of a bag.
LEMMA TakeOut ==
    ASSUME NEW A, IsBudgeted(A), NEW m \in DOMAIN A
    PROVE  /\ IsBudgeted(A (-) SetToBag({m}))
           /\ DOMAIN (A (-) SetToBag({m})) \subseteq DOMAIN A
           /\ A = (A (-) SetToBag({m})) (+) SetToBag({m})
<1> DEFINE R == A (-) SetToBag({m})
           left(e) == IF e = m THEN A[e] - 1 ELSE A[e]
<1>1. \A e \in DOMAIN A : A[e] \in Nat /\ A[e] > 0
  BY DEF IsBudgeted, IsABag
<1>2. R = [e \in {d \in DOMAIN A : left(d) > 0} |-> left(e)]
  BY DEF (-), SetToBag
<1>3. IsABag(R)
  BY <1>1, <1>2 DEF IsABag
<1>4. DOMAIN R \subseteq DOMAIN A
  BY <1>2
<1>5. IsBudgeted(R)
  BY <1>3, <1>4 DEF IsBudgeted
<1>6. A = R (+) SetToBag({m})
  <2> DEFINE C == R (+) SetToBag({m})
  <2>1. A = [e \in DOMAIN A |-> A[e]]
    BY DEF IsBudgeted, IsABag
  <2>2. DOMAIN C = DOMAIN R \cup {m} /\ C = [e \in DOMAIN C |-> C[e]]
    BY DEF (+), SetToBag
  <2>3. \A e \in DOMAIN C : C[e] = (IF e \in DOMAIN R THEN R[e] ELSE 0) + IF e = m THEN 1 ELSE 0
    BY DEF (+), SetToBag
  <2>4. \A e \in DOMAIN A : e # m => e \in DOMAIN R
    BY <1>1, <1>2
  <2>5. DOMAIN C = DOMAIN A
    BY <1>4, <2>2, <2>4
  <2> HIDE DEF C, R
  <2>6. ASSUME NEW e \in DOMAIN A PROVE C[e] = A[e]
    <3>1. CASE e # m
      <4>1. e \in DOMAIN R /\ R[e] = A[e]
        BY <1>2, <2>4, <3>1
      <4> QED BY <1>1, <2>3, <2>5, <3>1, <4>1
    <3>2. CASE e = m
      <4>1. CASE A[m] > 1
        <5>1. m \in DOMAIN R /\ R[m] = A[m] - 1
          BY <1>1, <1>2, <4>1
        <5> QED BY <1>1, <2>3, <2>5, <3>2, <5>1
      <4>2. CASE A[m] = 1
        <5>1. m \notin DOMAIN R
          BY <1>2, <4>2
        <5> QED BY <2>3, <2>5, <3>2, <4>2, <5>1
      <4> QED BY <1>1, <4>1, <4>2
    <3> QED BY <3>1, <3>2
  <2> QED BY <2>1, <2>2, <2>5, <2>6 DEF C
<1> QED BY <1>4, <1>5, <1>6

\* The budget that is left when a packet is taken out.
LEMMA UnitsTaken ==
    ASSUME NEW A, IsBudgeted(A), NEW m \in DOMAIN A, NEW s, IsFiniteSet(Units(A, s))
    PROVE  LET R == A (-) SetToBag({m})
           IN  /\ IsFiniteSet(Units(R, s))
               /\ Cardinality(Units(A, s)) =
                     Cardinality(Units(R, s)) + IF IsASearchOf(m, s) THEN m.budget ELSE 0
<1> DEFINE R == A (-) SetToBag({m})
           M == SetToBag({m})
           b == IF IsASearchOf(m, s) THEN m.budget ELSE 0
<1>1. IsBudgeted(R) /\ A = R (+) M
  BY TakeOut
<1>2. m.type = "SRequest" => m.budget \in Nat
  BY DEF IsBudgeted
<1>3. IsBudgeted(M) /\ IsFiniteSet(Units(M, s)) /\ Cardinality(Units(M, s)) = b
  BY <1>2, UnitsOne
<1> HIDE DEF R, M, b
<1>4. Units(R, s) \subseteq Units(A, s)
  BY <1>1, <1>3, UnitsGrow
<1>5. IsFiniteSet(Units(R, s))
  BY <1>4, FS_Subset
<1>6. Cardinality(Units(A, s)) = Cardinality(Units(R, s)) + b
  BY <1>1, <1>3, <1>5, UnitsAdd
<1> QED BY <1>5, <1>6 DEF R, b

-----------------------------------------------------------------------------
(***************************************************************************)
(* Splitting a budget.                                                     *)
(***************************************************************************)

\* One cell for each unit of each share.
Cells(shares) == UNION {{i} \X (1 .. shares[i]) : i \in DOMAIN shares}

\* The shares of a budget are positive, no more than the peers, and add up to it.
LEMMA SplitAddsUp ==
    ASSUME NEW b \in Nat, NEW k \in Nat, k > 0 \/ b = 0
    PROVE  LET shares == SplitBudget(b, k)
           IN  /\ DOMAIN shares \subseteq 1 .. k
               /\ \A i \in DOMAIN shares : shares[i] \in Nat /\ shares[i] > 0
               /\ IsFiniteSet(Cells(shares)) /\ Cardinality(Cells(shares)) = b
<1> DEFINE shares == SplitBudget(b, k)
           cells == Cells(shares)
<1>1. CASE k >= b
  <2>1. shares = [i \in 1 .. b |-> 1]
    BY <1>1 DEF SplitBudget
  <2>2. DOMAIN shares = 1 .. b /\ \A i \in 1 .. b : shares[i] = 1
    BY <2>1
  <2>3. cells = (1 .. b) \X {1}
    <3>1. ASSUME NEW c PROVE c \in cells <=> c \in (1 .. b) \X {1}
      BY <2>2 DEF Cells
    <3> QED BY <3>1
  <2>4. IsFiniteSet(1 .. b) /\ Cardinality(1 .. b) = b /\ IsFiniteSet({1}) /\ Cardinality({1}) = 1
    BY FS_Interval, FS_Singleton
  <2>5. IsFiniteSet((1 .. b) \X {1}) /\ Cardinality((1 .. b) \X {1}) = b * 1
    BY <2>4, FS_Product
  <2> QED BY <1>1, <2>2, <2>3, <2>5
<1>2. CASE k < b
  <2> DEFINE q == b \div k
             r == b % k
  <2>1. /\ k > 0 /\ q \in Nat /\ r \in Nat /\ r < k
        /\ b = k * q + r
    BY <1>2
  <2>2. q > 0
    <3>1. q = 0 => b = r
      BY <2>1
    <3> QED BY <1>2, <2>1, <3>1
  <2>3. shares = [i \in 1 .. k |-> q + IF i <= r THEN 1 ELSE 0]
    BY <1>2 DEF SplitBudget
  <2> HIDE DEF q, r
  <2>4. /\ DOMAIN shares = 1 .. k
        /\ \A i \in 1 .. k : shares[i] = q + IF i <= r THEN 1 ELSE 0
    BY <2>3
  <2> DEFINE P == (1 .. k) \X (1 .. q)
             R == (1 .. r) \X {q + 1}
  <2>5. cells = P \cup R
    <3>1. ASSUME NEW i \in 1 .. k, NEW j \in Nat
          PROVE  j \in 1 .. shares[i] <=> j \in 1 .. q \/ (i \in 1 .. r /\ j = q + 1)
      BY <2>1, <2>4
    <3>2. ASSUME NEW c PROVE c \in cells <=> c \in P \cup R
      <4>1. c \in cells => c \in P \cup R
        BY <2>4, <3>1 DEF Cells
      <4>2. c \in P => c \in cells
        BY <2>1, <2>4, <3>1 DEF Cells
      <4>3. c \in R => c \in cells
        BY <2>1, <2>4, <3>1 DEF Cells
      <4> QED BY <4>1, <4>2, <4>3
    <3> QED BY <3>2
  <2>6. P \cap R = {}
    BY <2>1
  <2>7. IsFiniteSet(P) /\ Cardinality(P) = k * q
    <3> DEFINE I == 1 .. k
               J == 1 .. q
    <3>1. IsFiniteSet(I) /\ Cardinality(I) = k
      BY FS_Interval
    <3>2. IsFiniteSet(J) /\ Cardinality(J) = q
      BY <2>1, FS_Interval
    <3> HIDE DEF I, J
    <3>3. IsFiniteSet(I \X J) /\ Cardinality(I \X J) = k * q
      BY <3>1, <3>2, FS_Product
    <3> QED BY <3>3 DEF I, J
  <2>8. IsFiniteSet(R) /\ Cardinality(R) = r
    <3> DEFINE I == 1 .. r
               J == {q + 1}
    <3>1. IsFiniteSet(I) /\ Cardinality(I) = r
      BY <2>1, FS_Interval
    <3>2. IsFiniteSet(J) /\ Cardinality(J) = 1
      BY FS_Singleton
    <3> HIDE DEF I, J
    <3>3. IsFiniteSet(I \X J) /\ Cardinality(I \X J) = r * 1
      BY <3>1, <3>2, FS_Product
    <3> QED BY <2>1, <3>3 DEF I, J
  <2> HIDE DEF P, R, cells
  <2>9. /\ IsFiniteSet(P \cup R)
        /\ Cardinality(P \cup R) = Cardinality(P) + Cardinality(R) - Cardinality(P \cap R)
    BY <2>7, <2>8, FS_Union
  <2>10. Cardinality(P \cap R) = 0
    BY <2>6, FS_EmptySet
  <2>11. IsFiniteSet(cells) /\ Cardinality(cells) = b
    <3>1. Cardinality(P) \in Nat
      BY <2>7, FS_CardinalityType
    <3>2. Cardinality(cells) = Cardinality(P) + r
      BY <2>1, <2>5, <2>8, <2>9, <2>10, <3>1
    <3> QED BY <2>1, <2>5, <2>7, <2>8, <2>9, <3>2
  <2>12. \A i \in 1 .. k : shares[i] \in Nat /\ shares[i] > 0
    BY <2>1, <2>2, <2>4
  <2> QED BY <2>4, <2>11, <2>12 DEF cells
<1> QED BY <1>1, <1>2

\* The bag B has requests of node n for search s alone, of a budget of b in all.
HandsOut(B, s, n, b) ==
    /\ IsBudgeted(B)
    /\ \A m \in DOMAIN B : \E p \in Node, c \in Nat \ {0} : m = SRequest(s, n, p, c)
    /\ \A t : t # s => Units(B, t) = {}
    /\ IsFiniteSet(Units(B, s)) /\ Cardinality(Units(B, s)) = b

\* The requests of one split hand out the whole budget of their search.
LEMMA RequestsAddUp ==
    ASSUME NEW s, NEW n, NEW b \in Nat, NEW peers \in Seq(Node), IsInjective(peers),
           ~ Panics(b, peers)
    PROVE  HandsOut(Requests(s, n, b, peers), s, n, b)
<1> DEFINE k == Len(peers)
           shares == SplitBudget(b, k)
           req(i) == SRequest(s, n, peers[i], shares[i])
           B == Requests(s, n, b, peers)
           U == Units(B, s)
           C == Cells(shares)
<1>1. k \in Nat /\ DOMAIN peers = 1 .. k /\ \A i \in 1 .. k : peers[i] \in Node
  OBVIOUS
<1>2. k > 0 \/ b = 0
  BY DEF Panics
<1>3. /\ DOMAIN shares \subseteq 1 .. k
      /\ \A i \in DOMAIN shares : shares[i] \in Nat /\ shares[i] > 0
      /\ IsFiniteSet(C) /\ Cardinality(C) = b
  BY <1>1, <1>2, SplitAddsUp
<1>4. B = SetToBag({req(i) : i \in DOMAIN shares})
  BY DEF Requests
<1> HIDE DEF k, shares
<1>5. /\ DOMAIN B = {req(i) : i \in DOMAIN shares} /\ B = [m \in DOMAIN B |-> 1]
  BY <1>4 DEF SetToBag
<1>6. \A i \in DOMAIN shares :
         /\ req(i).type = "SRequest" /\ req(i).search = s
         /\ req(i).dst = peers[i] /\ req(i).budget = shares[i]
  BY DEF SRequest
<1> HIDE DEF B
<1>7. IsBudgeted(B)
  <2>1. IsABag(B)
    BY <1>5 DEF IsABag
  <2>2. \A m \in DOMAIN B : m.budget \in Nat
    BY <1>3, <1>5, <1>6
  <2> QED BY <2>1, <2>2 DEF IsBudgeted
<1>8. \A m \in DOMAIN B : \E p \in Node, c \in Nat \ {0} : m = SRequest(s, n, p, c)
  BY <1>1, <1>3, <1>5
<1>9. ASSUME NEW t, t # s PROVE Units(B, t) = {}
  BY <1>5, <1>6, <1>9, UnitOf DEF IsASearchOf
<1>10. \A c : c \in C <=> \E i \in DOMAIN shares : \E j \in 1 .. shares[i] : c = <<i, j>>
  BY DEF Cells
<1> DEFINE g == [c \in C |-> <<req(c[1]), c[2], 1>>]
<1>11. ASSUME NEW i \in DOMAIN shares, NEW j \in 1 .. shares[i]
       PROVE  /\ <<i, j>> \in C
              /\ g[<<i, j>>] = <<req(i), j, 1>>
              /\ <<req(i), j, 1>> \in U
  <2>1. <<i, j>> \in C
    BY <1>10
  <2>2. g[<<i, j>>] = <<req(i), j, 1>>
    BY <2>1
  <2>3. req(i) \in DOMAIN B /\ B[req(i)] = 1 /\ IsASearchOf(req(i), s) /\ req(i).budget = shares[i]
    BY <1>5, <1>6 DEF IsASearchOf
  <2> HIDE DEF req, g
  <2>4. 1 \in 1 .. B[req(i)] /\ j \in 1 .. req(i).budget
    BY <2>3
  <2>5. <<req(i), j, 1>> \in U
    BY <2>3, <2>4, UnitOf
  <2> QED BY <2>1, <2>2, <2>5
<1>12. g \in [C -> U]
  <2>1. ASSUME NEW c \in C PROVE g[c] \in U
    <3>1. PICK i \in DOMAIN shares : \E j \in 1 .. shares[i] : c = <<i, j>>
      BY <1>10
    <3>2. PICK j \in 1 .. shares[i] : c = <<i, j>>
      BY <3>1
    <3> HIDE DEF g, C, U
    <3> QED BY <1>11, <3>2
  <2> QED BY <2>1
<1>13. ASSUME NEW u \in U PROVE \E c \in C : g[c] = u
  <2>1. PICK m \in DOMAIN B : \E i \in 1 .. m.budget, j \in 1 .. B[m] : u = <<m, i, j>>
    BY UnitOf
  <2>2. PICK i \in 1 .. m.budget, j \in 1 .. B[m] : u = <<m, i, j>>
    BY <2>1
  <2>3. PICK x \in DOMAIN shares : m = req(x)
    BY <1>5
  <2>4. j = 1 /\ i \in 1 .. shares[x]
    BY <1>5, <1>6, <2>3
  <2> HIDE DEF g, req
  <2>5. <<x, i>> \in C /\ g[<<x, i>>] = u
    BY <1>11, <2>2, <2>3, <2>4
  <2> QED BY <2>5
<1>14. ASSUME NEW c \in C, NEW d \in C, g[c] = g[d] PROVE c = d
  <2>1. PICK i \in DOMAIN shares : \E j \in 1 .. shares[i] : c = <<i, j>>
    BY <1>10
  <2>2. PICK j \in 1 .. shares[i] : c = <<i, j>>
    BY <2>1
  <2>3. PICK x \in DOMAIN shares : \E y \in 1 .. shares[x] : d = <<x, y>>
    BY <1>10
  <2>4. PICK y \in 1 .. shares[x] : d = <<x, y>>
    BY <2>3
  <2>5. g[c] = <<req(i), j, 1>> /\ g[d] = <<req(x), y, 1>>
    BY <1>11, <2>2, <2>4
  <2>6. req(i) = req(x) /\ j = y
    BY <1>14, <2>5
  <2>7. peers[i] = peers[x]
    BY <1>6, <2>6
  <2>8. i = x
    BY <1>1, <1>3, <2>7 DEF IsInjective
  <2> QED BY <2>2, <2>4, <2>6, <2>8
<1> HIDE DEF C, g, U
<1>15. g \in Bijection(C, U)
  BY <1>12, <1>13, <1>14 DEF Bijection, Injection, Surjection, IsInjective
<1>16. IsFiniteSet(U) /\ Cardinality(U) = b
  BY <1>3, <1>15, FS_Bijection DEF ExistsBijection
<1> QED BY <1>7, <1>8, <1>9, <1>16 DEF U, B, HandsOut

-----------------------------------------------------------------------------
(***************************************************************************)
(* The list of peers.                                                      *)
(***************************************************************************)

\* A sender that is added is listed once.
LEMMA AddPeerKeeps ==
    ASSUME NEW n \in Node, gossipers[n] \in Seq(Node), IsInjective(gossipers[n]), NEW p \in Node
    PROVE  /\ AddPeer(n, p) \in Seq(Node) /\ IsInjective(AddPeer(n, p))
<1> DEFINE g == gossipers[n]
           h == Append(g, p)
<1>1. CASE p \in ToSet(g)
  BY <1>1 DEF AddPeer
<1>2. CASE p \notin ToSet(g)
  <2>1. \A i \in DOMAIN g : g[i] # p
    BY <1>2 DEF ToSet
  <2>2. /\ h \in Seq(Node) /\ DOMAIN h = 1 .. Len(g) + 1 /\ DOMAIN g = 1 .. Len(g) /\ Len(g) \in Nat
        /\ \A i \in 1 .. Len(g) : h[i] = g[i]
        /\ h[Len(g) + 1] = p
    OBVIOUS
  <2> HIDE DEF h
  <2>3. IsInjective(h)
    <3> SUFFICES ASSUME NEW i \in DOMAIN h, NEW j \in DOMAIN h, h[i] = h[j] PROVE i = j
      BY DEF IsInjective
    <3>1. CASE i \in 1 .. Len(g) /\ j \in 1 .. Len(g)
      BY <2>2, <3>1 DEF IsInjective
    <3>2. CASE i = Len(g) + 1 /\ j \in 1 .. Len(g)
      BY <2>1, <2>2, <3>2
    <3>3. CASE i \in 1 .. Len(g) /\ j = Len(g) + 1
      BY <2>1, <2>2, <3>3
    <3> QED BY <2>2, <3>1, <3>2, <3>3
  <2> QED BY <1>2, <2>2, <2>3 DEF AddPeer, h
<1> QED BY <1>1, <1>2

\* The peers without the sender are listed once.
LEMMA OthersKeep ==
    ASSUME NEW g \in Seq(Node), IsInjective(g), NEW p
    PROVE  RemoveFirst(g, p) \in Seq(Node) /\ IsInjective(RemoveFirst(g, p))
<1>1. CASE \E i \in 1 .. Len(g) : g[i] = p
  <2>1. PICK k \in 1 .. Len(g) : g[k] = p
    BY <1>1
  <2>2. {i \in 1 .. Len(g) : g[i] = p} = {k}
    BY <2>1 DEF IsInjective
  <2>3. Min({k}) = k
    BY DEF Min
  <2>4. SelectInSeq(g, LAMBDA v : v = p) = k
    BY <2>2, <2>3 DEF SelectInSeq
  <2>5. RemoveFirst(g, p) = SubSeq(g, 1, k - 1) \o SubSeq(g, k + 1, Len(g))
    BY <1>1, <2>4 DEF RemoveFirst, RemoveAt
  <2> DEFINE left == SubSeq(g, 1, k - 1)
             right == SubSeq(g, k + 1, Len(g))
             rest == left \o right
             at(j) == IF j <= k - 1 THEN j ELSE j + 1
  <2>6. /\ left \in Seq(Node) /\ Len(left) = k - 1
        /\ \A j \in 1 .. k - 1 : left[j] = g[j]
    BY SubSeqProperties
  <2>7. /\ right \in Seq(Node) /\ Len(right) = Len(g) - k
        /\ \A j \in 1 .. Len(g) - k : right[j] = g[k + j]
    BY SubSeqProperties
  <2> HIDE DEF left, right
  <2>8. /\ rest \in Seq(Node) /\ Len(rest) = Len(left) + Len(right)
        /\ \A j \in 1 .. Len(left) + Len(right) :
              rest[j] = IF j <= Len(left) THEN left[j] ELSE right[j - Len(left)]
    BY <2>6, <2>7, ConcatProperties
  <2> HIDE DEF rest
  <2>9. DOMAIN rest = 1 .. Len(g) - 1
    BY <2>6, <2>7, <2>8
  <2>10. ASSUME NEW j \in DOMAIN rest PROVE rest[j] = g[at(j)] /\ at(j) \in DOMAIN g
    <3> DEFINE L == Len(g)
               o == j - (k - 1)
    <3>0. L \in Nat /\ k \in 1 .. L /\ j \in 1 .. L - 1 /\ DOMAIN g = 1 .. L
      BY <2>9
    <3> HIDE DEF L
    <3>r. rest[j] = IF j <= k - 1 THEN left[j] ELSE right[j - (k - 1)]
      <4>1. Len(left) = k - 1 /\ Len(left) + Len(right) = L - 1
        BY <2>6, <2>7, <3>0 DEF L
      <4>2. j \in 1 .. Len(left) + Len(right)
        BY <3>0, <4>1
      <4> QED BY <2>8, <4>1, <4>2
    <3>1. CASE j <= k - 1
      <4>1. j \in 1 .. k - 1 /\ j \in 1 .. L
        BY <3>0, <3>1
      <4> QED BY <2>6, <3>0, <3>1, <3>r, <4>1
    <3>2. CASE ~ (j <= k - 1)
      <4>1. rest[j] = right[o]
        BY <3>r, <3>2
      <4>2. o \in 1 .. L - k /\ k + o = j + 1 /\ j + 1 \in 1 .. L
        BY <3>0, <3>2
      <4> HIDE DEF o
      <4>3. right[o] = g[k + o]
        BY <2>7, <4>2 DEF L
      <4>4. at(j) = j + 1
        BY <3>2
      <4> QED BY <3>0, <4>1, <4>2, <4>3, <4>4
    <3> QED BY <3>1, <3>2
  <2>11. ASSUME NEW i \in DOMAIN rest, NEW j \in DOMAIN rest, rest[i] = rest[j] PROVE i = j
    <3>1. at(i) = at(j)
      BY <2>10, <2>11 DEF IsInjective
    <3> QED BY <2>9, <3>1
  <2>12. IsInjective(rest)
    BY <2>11 DEF IsInjective
  <2>13. rest = RemoveFirst(g, p)
    BY <2>5 DEF rest, left, right
  <2> QED BY <2>8, <2>12, <2>13
<1>2. CASE ~ \E i \in 1 .. Len(g) : g[i] = p
  <2>1. RemoveFirst(g, p) = g
    BY <1>2 DEF RemoveFirst
  <2> QED BY <2>1
<1> QED BY <1>1, <1>2

-----------------------------------------------------------------------------
(***************************************************************************)
(* Types, and the budget.                                                  *)
(***************************************************************************)

\* What a node tells of a file it has.
Held(r, p) ==
    /\ r.name \in DOMAIN Shared[p]
    /\ r.meta = Shared[p][r.name].meta
    /\ r.chunkMap = Shared[p][r.name].chunks

IsRequest(m) ==
    \E s \in Search, src \in Node, dst \in Node, c \in Nat \ {0} : m = SRequest(s, src, dst, c)

IsReply(m) ==
    \E results : \E src \in Node, dst \in Node :
        m = SReply(src, dst, results) /\ \A r \in results : Held(r, src)

ArePackets(bag) == IsBudgeted(bag) /\ \A m \in DOMAIN bag : IsRequest(m) \/ IsReply(m)

PeersInv ==
    /\ gossipers \in [Node -> Seq(Node)]
    /\ \A n \in Node : IsInjective(gossipers[n])

BudgetInv ==
    /\ budget \in [Search -> Nat] /\ owed \in [Search -> Nat]
    /\ \A s \in Search : IsFiniteSet(Units(net, s)) /\ owed[s] = Cardinality(Units(net, s))

StageInv ==
    /\ stage \in [Search -> {"idle", "ticking", "completed", "over"}]
    /\ pages \subseteq {s \in Search : Asked[s].web /\ stage[s] # "idle"}
    /\ offering \subseteq Node /\ crashed \subseteq Node

SearchInv == ArePackets(net) /\ PeersInv /\ BudgetInv /\ StageInv

\* The kinds of packets.
LEMMA Packets ==
    ASSUME NEW m, IsRequest(m) \/ IsReply(m)
    PROVE  /\ m.src \in Node /\ m.dst \in Node
           /\ m.type \in {"SRequest", "SReply"}
           /\ m.type = "SRequest" => m.search \in Search /\ m.budget \in Nat /\ m.budget > 0
           /\ m.type = "SReply" => \A r \in m.results : Held(r, m.src)
<1>1. CASE IsRequest(m)
  <2>1. PICK s \in Search, src \in Node, dst \in Node, c \in Nat \ {0} : m = SRequest(s, src, dst, c)
    BY <1>1 DEF IsRequest
  <2>2. /\ m.type = "SRequest" /\ m.src = src /\ m.dst = dst /\ m.search = s /\ m.budget = c
    BY <2>1 DEF SRequest
  <2> QED BY <2>2
<1>2. CASE IsReply(m)
  <2>1. PICK results, src, dst :
           /\ src \in Node /\ dst \in Node
           /\ m = SReply(src, dst, results) /\ \A r \in results : Held(r, src)
    BY <1>2 DEF IsReply
  <2>2. m.type = "SReply" /\ m.src = src /\ m.dst = dst /\ m.results = results
    BY <2>1 DEF SReply
  <2> QED BY <2>1, <2>2
<1> QED BY <1>1, <1>2

\* The initial state.
LEMMA SearchInvInit == Init => SearchInv
<1> SUFFICES ASSUME Init PROVE SearchInv
  OBVIOUS
<1>1. ArePackets(net)
  <2>1. net = EmptyBag /\ DOMAIN net = {}
    BY DEF Init, EmptyBag, SetToBag
  <2> QED BY <2>1, UnitsNone DEF ArePackets
<1>2. PeersInv
  <2>1. gossipers = Peers
    BY DEF Init
  <2> QED BY <2>1, PeersAssumption DEF PeersInv
<1>3. BudgetInv
  <2>1. budget \in [Search -> Nat]
    BY BudgetAssumption DEF Init
  <2>2. owed \in [Search -> Nat] /\ \A s \in Search : owed[s] = 0
    BY DEF Init
  <2>3. net = EmptyBag
    BY DEF Init
  <2> QED BY <2>1, <2>2, <2>3, UnitsNone DEF BudgetInv
<1>4. StageInv
  BY DEF Init, StageInv
<1> QED BY <1>1, <1>2, <1>3, <1>4 DEF SearchInv

\* Two bags of packets.
LEMMA PacketsAdd ==
    ASSUME NEW A, NEW B, ArePackets(A), ArePackets(B),
           \A t \in Search : IsFiniteSet(Units(A, t)) /\ IsFiniteSet(Units(B, t))
    PROVE  /\ ArePackets(A (+) B)
           /\ \A t \in Search :
                 /\ IsFiniteSet(Units(A (+) B, t))
                 /\ Cardinality(Units(A (+) B, t)) =
                       Cardinality(Units(A, t)) + Cardinality(Units(B, t))
<1>1. IsBudgeted(A) /\ IsBudgeted(B)
  BY DEF ArePackets
<1> DEFINE C == A (+) B
<1>2. DOMAIN C = DOMAIN A \cup DOMAIN B
  BY <1>1, BagsAdd
<1>3. IsBudgeted(C)
  <2>1. IsABag(C)
    BY <1>1 DEF IsBudgeted, IsABag, (+)
  <2>2. \A m \in DOMAIN C : m.type = "SRequest" => m.budget \in Nat
    BY <1>1, <1>2 DEF IsBudgeted
  <2> QED BY <2>1, <2>2 DEF IsBudgeted
<1>4. \A t \in Search : /\ IsFiniteSet(Units(C, t))
                        /\ Cardinality(Units(C, t)) =
                              Cardinality(Units(A, t)) + Cardinality(Units(B, t))
  BY <1>1, UnitsAdd
<1> HIDE DEF C
<1>5. ArePackets(C)
  BY <1>2, <1>3 DEF ArePackets
<1> QED BY <1>4, <1>5 DEF C

\* What is under way when a packet has been taken, and answered by the bag out.
LEMMA SentUnits ==
    ASSUME SearchInv, NEW m \in DOMAIN net, NEW again \in BOOLEAN, NEW out, ArePackets(out),
           \A t \in Search : IsFiniteSet(Units(out, t)),
           Sent(m, again, out)
    PROVE  /\ ArePackets(net')
           /\ \A t \in Search :
                 /\ IsFiniteSet(Units(net', t))
                 /\ Cardinality(Units(net', t)) =
                       owed[t] - (IF ~ again /\ IsASearchOf(m, t) THEN m.budget ELSE 0)
                       + Cardinality(Units(out, t))
<1> DEFINE R == net (-) SetToBag({m})
           base == IF again THEN net ELSE R
           taken(t) == IF ~ again /\ IsASearchOf(m, t) THEN m.budget ELSE 0
<1>1. /\ ArePackets(net) /\ IsBudgeted(net)
      /\ \A t \in Search : /\ IsFiniteSet(Units(net, t)) /\ owed[t] = Cardinality(Units(net, t))
                           /\ owed[t] \in Nat
  BY DEF SearchInv, BudgetInv, ArePackets
<1>2. IsBudgeted(R) /\ DOMAIN R \subseteq DOMAIN net
  BY <1>1, TakeOut
<1>3. ArePackets(R)
  BY <1>1, <1>2 DEF ArePackets
<1>4. \A t \in Search :
         /\ IsFiniteSet(Units(R, t))
         /\ owed[t] = Cardinality(Units(R, t)) + IF IsASearchOf(m, t) THEN m.budget ELSE 0
  BY <1>1, UnitsTaken
<1> HIDE DEF R
<1>5. ASSUME NEW t \in Search PROVE m.budget \in Nat \/ ~ IsASearchOf(m, t)
  BY <1>1 DEF IsBudgeted, IsASearchOf
<1>6. ASSUME NEW t \in Search
      PROVE  IsFiniteSet(Units(base, t)) /\ Cardinality(Units(base, t)) = owed[t] - taken(t)
  <2>1. CASE again
    BY <1>1, <2>1
  <2>2. CASE ~ again
    <3>1. Cardinality(Units(R, t)) \in Nat
      BY <1>4, FS_CardinalityType
    <3>2. base = R
      BY <2>2
    <3> HIDE DEF base
    <3>3. CASE IsASearchOf(m, t)
      BY <1>4, <1>5, <2>2, <3>1, <3>2, <3>3
    <3>4. CASE ~ IsASearchOf(m, t)
      BY <1>4, <2>2, <3>1, <3>2, <3>4
    <3> QED BY <3>3, <3>4
  <2> QED BY <2>1, <2>2
<1>7. ArePackets(base)
  BY <1>1, <1>3
<1>8. net' = base (+) out
  BY DEF Sent, R
<1> HIDE DEF base, taken
<1>9. /\ ArePackets(base (+) out)
      /\ \A t \in Search :
            /\ IsFiniteSet(Units(base (+) out, t))
            /\ Cardinality(Units(base (+) out, t)) =
                  Cardinality(Units(base, t)) + Cardinality(Units(out, t))
  BY <1>6, <1>7, PacketsAdd
<1>10. /\ ArePackets(net')
       /\ \A t \in Search :
             /\ IsFiniteSet(Units(net', t))
             /\ Cardinality(Units(net', t)) = (owed[t] - taken(t)) + Cardinality(Units(out, t))
  BY <1>6, <1>8, <1>9
<1> QED BY <1>10 DEF taken

\* A request that is used up, or handed on, uses the budget it came with.
LEMMA UsedUp ==
    ASSUME SearchInv, NEW m \in DOMAIN net, m.type = "SRequest", NEW again \in BOOLEAN, NEW out,
           ArePackets(out), \A t \in Search : IsFiniteSet(Units(out, t)),
           NEW used \in Nat, Cardinality(Units(out, m.search)) = m.budget - used,
           \A t \in Search : t # m.search => Units(out, t) = {},
           Sent(m, again, out), Use(m, again, used), UNCHANGED budget
    PROVE  ArePackets(net') /\ BudgetInv'
<1>1. /\ ArePackets(net')
      /\ \A t \in Search :
            /\ IsFiniteSet(Units(net', t))
            /\ Cardinality(Units(net', t)) =
                  owed[t] - (IF ~ again /\ IsASearchOf(m, t) THEN m.budget ELSE 0)
                  + Cardinality(Units(out, t))
  BY SentUnits
<1>2. m.search \in Search /\ m.budget \in Nat
  BY Packets DEF SearchInv, ArePackets
<1>3. owed \in [Search -> Nat] /\ budget \in [Search -> Nat]
  BY DEF SearchInv, BudgetInv
<1>4. owed' = [owed EXCEPT ![m.search] = owed[m.search] - used + IF again THEN m.budget ELSE 0]
  BY DEF Use
<1>5. ASSUME NEW t \in Search PROVE owed'[t] = Cardinality(Units(net', t))
  <2>1. CASE t = m.search
    <3>1. IsASearchOf(m, t)
      BY <2>1 DEF IsASearchOf
    <3>2. owed'[t] = owed[t] - used + IF again THEN m.budget ELSE 0
      BY <1>2, <1>3, <1>4, <2>1
    <3>3. Cardinality(Units(net', t)) =
             owed[t] - (IF ~ again THEN m.budget ELSE 0) + (m.budget - used)
      BY <1>1, <2>1, <3>1
    <3>4. owed[t] \in Nat
      BY <1>3
    <3> QED BY <1>2, <3>2, <3>3, <3>4
  <2>2. CASE t # m.search
    <3>1. ~ IsASearchOf(m, t)
      BY <2>2 DEF IsASearchOf
    <3>2. owed'[t] = owed[t] /\ owed[t] \in Nat
      BY <1>3, <1>4, <2>2
    <3>3. Units(out, t) = {}
      BY <2>2
    <3>4. Cardinality(Units(out, t)) = 0
      BY <3>3, FS_EmptySet
    <3>5. Cardinality(Units(net', t)) = owed[t] - 0 + 0
      BY <1>1, <3>1, <3>4
    <3> QED BY <3>2, <3>5
  <2> QED BY <2>1, <2>2
<1>6. owed' \in [Search -> Nat]
  <2>1. \A t \in Search : owed'[t] \in Nat
    BY <1>1, <1>5, FS_CardinalityType
  <2> QED BY <1>3, <1>4, <2>1
<1> QED BY <1>1, <1>3, <1>5, <1>6 DEF BudgetInv

\* A packet that is no request carries no budget.
LEMMA NoneUsed ==
    ASSUME SearchInv, NEW m \in DOMAIN net, m.type # "SRequest", NEW again \in BOOLEAN,
           Sent(m, again, EmptyBag), UNCHANGED <<budget, owed>>
    PROVE  ArePackets(net') /\ BudgetInv'
<1>1. /\ ArePackets(EmptyBag)
      /\ \A t \in Search : /\ IsFiniteSet(Units(EmptyBag, t))
                           /\ Cardinality(Units(EmptyBag, t)) = 0
  <2>1. DOMAIN EmptyBag = {}
    BY DEF EmptyBag, SetToBag
  <2> QED BY <2>1, UnitsNone DEF ArePackets
<1>2. /\ ArePackets(net')
      /\ \A t \in Search :
            /\ IsFiniteSet(Units(net', t))
            /\ Cardinality(Units(net', t)) =
                  owed[t] - (IF ~ again /\ IsASearchOf(m, t) THEN m.budget ELSE 0)
                  + Cardinality(Units(EmptyBag, t))
  BY <1>1, SentUnits
<1>3. owed \in [Search -> Nat] /\ budget \in [Search -> Nat]
  BY DEF SearchInv, BudgetInv
<1>4. ASSUME NEW t \in Search PROVE Cardinality(Units(net', t)) = owed[t]
  <2>1. ~ IsASearchOf(m, t)
    BY DEF IsASearchOf
  <2>2. Cardinality(Units(net', t)) = owed[t] - 0 + 0
    BY <1>1, <1>2, <2>1
  <2>3. owed[t] \in Nat
    BY <1>3
  <2> QED BY <2>2, <2>3
<1> QED BY <1>2, <1>3, <1>4 DEF BudgetInv

\* The requests of one split, as packets.
LEMMA RequestsArePackets ==
    ASSUME NEW s \in Search, NEW n \in Node, NEW b \in Nat, NEW peers \in Seq(Node),
           IsInjective(peers), ~ Panics(b, peers)
    PROVE  LET B == Requests(s, n, b, peers)
           IN  /\ ArePackets(B)
               /\ \A t \in Search : IsFiniteSet(Units(B, t))
               /\ \A t \in Search : t # s => Units(B, t) = {}
               /\ Cardinality(Units(B, s)) = b
<1> DEFINE B == Requests(s, n, b, peers)
<1>1. /\ IsBudgeted(B)
      /\ \A m \in DOMAIN B : \E p \in Node, c \in Nat \ {0} : m = SRequest(s, n, p, c)
      /\ \A t : t # s => Units(B, t) = {}
      /\ IsFiniteSet(Units(B, s)) /\ Cardinality(Units(B, s)) = b
  <2>1. HandsOut(B, s, n, b)
    BY RequestsAddUp
  <2> QED BY <2>1 DEF HandsOut
<1> HIDE DEF B
<1>2. ArePackets(B)
  BY <1>1 DEF ArePackets, IsRequest
<1>3. \A t \in Search : IsFiniteSet(Units(B, t))
  BY <1>1, FS_EmptySet
<1> QED BY <1>1, <1>2, <1>3 DEF B

\* A round of a search.
LEMMA SearchTick ==
    ASSUME SearchInv, NEW s \in Search, Tick(s) PROVE SearchInv'
<1> DEFINE n == At(s)
           b == budget[s]
<1>0. /\ n \in Node /\ b \in Nat
      /\ gossipers[n] \in Seq(Node) /\ IsInjective(gossipers[n])
  BY AskedAssumption DEF At, SearchInv, BudgetInv, PeersInv
<1>1. PeersInv'
  BY DEF Tick, SearchInv, PeersInv
<1>2. CASE UNCHANGED <<budget, net, owed>>
  <2>1. ArePackets(net') /\ BudgetInv'
    BY <1>2 DEF SearchInv, BudgetInv
  <2>2. /\ stage' = stage \/ stage' = [stage EXCEPT ![s] = "completed"]
        /\ crashed' = crashed \/ crashed' = crashed \cup {n}
        /\ UNCHANGED <<pages, offering>>
    BY DEF Tick
  <2>3. StageInv'
    BY <1>0, <2>2 DEF SearchInv, StageInv
  <2> QED BY <1>1, <2>1, <2>3 DEF SearchInv
<1>3. CASE /\ ~ Panics(b, gossipers[n])
           /\ net' = net (+) Requests(s, n, b, gossipers[n])
           /\ budget' = [budget EXCEPT ![s] = 2 * @]
           /\ owed' = [owed EXCEPT ![s] = @ + b]
           /\ UNCHANGED <<stage, crashed, pages, offering>>
  <2> DEFINE B == Requests(s, n, b, gossipers[n])
  <2>1. /\ ArePackets(B)
        /\ \A t \in Search : IsFiniteSet(Units(B, t))
        /\ \A t \in Search : t # s => Units(B, t) = {}
        /\ Cardinality(Units(B, s)) = b
    BY <1>0, <1>3, RequestsArePackets
  <2>2. net' = net (+) B
    BY <1>3
  <2> HIDE DEF B
  <2>3. /\ ArePackets(net) /\ owed \in [Search -> Nat] /\ budget \in [Search -> Nat]
        /\ \A t \in Search : IsFiniteSet(Units(net, t)) /\ owed[t] = Cardinality(Units(net, t))
    BY DEF SearchInv, BudgetInv
  <2>4. /\ ArePackets(net')
        /\ \A t \in Search :
              /\ IsFiniteSet(Units(net', t))
              /\ Cardinality(Units(net', t)) = owed[t] + Cardinality(Units(B, t))
    BY <2>1, <2>2, <2>3, PacketsAdd
  <2>5. budget' \in [Search -> Nat]
    <3>1. 2 * b \in Nat
      BY <1>0
    <3> QED BY <1>3, <2>3, <3>1
  <2>6. owed' \in [Search -> Nat] /\ \A t \in Search : owed'[t] = IF t = s THEN owed[t] + b ELSE owed[t]
    <3>1. owed[s] + b \in Nat
      BY <1>0, <2>3
    <3> HIDE DEF b
    <3> QED BY <1>3, <2>3, <3>1
  <2>7. ASSUME NEW t \in Search PROVE owed'[t] = Cardinality(Units(net', t))
    <3>1. CASE t = s
      BY <2>1, <2>4, <2>6, <3>1
    <3>2. CASE t # s
      <4>1. Cardinality(Units(B, t)) = 0
        BY <2>1, <3>2, FS_EmptySet
      <4>2. owed[t] \in Nat
        BY <2>3
      <4> QED BY <2>4, <2>6, <3>2, <4>1, <4>2
    <3> QED BY <3>1, <3>2
  <2>8. BudgetInv'
    BY <2>4, <2>5, <2>6, <2>7 DEF BudgetInv
  <2>9. StageInv'
    BY <1>3 DEF SearchInv, StageInv
  <2> QED BY <1>1, <2>4, <2>8, <2>9 DEF SearchInv
<1> QED BY <1>2, <1>3 DEF Tick

\* A packet is received.
LEMMA SearchDeliver ==
    ASSUME SearchInv, NEW m \in DOMAIN net, Deliver(m) PROVE SearchInv'
<1> PICK again \in BOOLEAN : \/ DropSearchRequest(m, again)
                             \/ HandleSearchRequest(m, again)
                             \/ HandleSearchReply(m, again)
  BY DEF Deliver
<1>0. /\ m.src \in Node /\ m.dst \in Node
      /\ m.type = "SRequest" => m.search \in Search /\ m.budget \in Nat /\ m.budget > 0
      /\ m.type = "SReply" => \A r \in m.results : Held(r, m.src)
  BY Packets DEF SearchInv, ArePackets
<1>p. \A p \in Node : AddPeer(m.dst, p) \in Seq(Node) /\ IsInjective(AddPeer(m.dst, p))
  BY <1>0, AddPeerKeeps DEF SearchInv, PeersInv
<1>e. /\ ArePackets(EmptyBag)
      /\ \A t : /\ IsFiniteSet(Units(EmptyBag, t)) /\ Units(EmptyBag, t) = {}
                /\ Cardinality(Units(EmptyBag, t)) = 0
  <2>1. DOMAIN EmptyBag = {}
    BY DEF EmptyBag, SetToBag
  <2> QED BY <2>1, UnitsNone DEF ArePackets
<1>1. ASSUME NEW p \in Node, gossipers' = [gossipers EXCEPT ![m.dst] = AddPeer(m.dst, p)]
      PROVE  PeersInv'
  BY <1>0, <1>1, <1>p DEF SearchInv, PeersInv
<1>2. CASE DropSearchRequest(m, again)
  <2>1. /\ m.type = "SRequest" /\ Sent(m, again, EmptyBag) /\ Use(m, again, m.budget)
        /\ UNCHANGED <<budget, stage, pages, offering, crashed>>
        /\ gossipers' = [gossipers EXCEPT ![m.dst] = AddPeer(m.dst, m.src)]
    BY <1>2 DEF DropSearchRequest
  <2>2. m.budget \in Nat /\ m.budget - m.budget = 0
    BY <1>0, <2>1
  <2>3. ArePackets(net') /\ BudgetInv'
    BY <1>e, <2>1, <2>2, UsedUp
  <2>4. StageInv'
    BY <2>1 DEF SearchInv, StageInv
  <2> QED BY <1>0, <1>1, <2>1, <2>3, <2>4 DEF SearchInv
<1>3. CASE HandleSearchReply(m, again)
  <2>1. /\ m.type # "SRequest" /\ Sent(m, again, EmptyBag)
        /\ \E p \in Node : gossipers' = [gossipers EXCEPT ![m.dst] = AddPeer(m.dst, p)]
        /\ UNCHANGED <<budget, stage, pages, offering, crashed, owed>>
    BY <1>3 DEF HandleSearchReply
  <2>2. ArePackets(net') /\ BudgetInv'
    BY <2>1, NoneUsed
  <2>3. PeersInv'
    BY <1>1, <2>1
  <2>4. StageInv'
    BY <2>1 DEF SearchInv, StageInv
  <2> QED BY <2>2, <2>3, <2>4 DEF SearchInv
<1>4. CASE HandleSearchRequest(m, again)
  <2> DEFINE n == m.dst
             s == m.search
             origin == At(s)
             otherPeers == RemoveFirst(gossipers'[n], m.src)
             results == FindMatches(n, s)
             reply == IF results # {} /\ origin \in Routes[n]
                      THEN SetToBag({SReply(n, origin, results)}) ELSE EmptyBag
             B == Requests(s, n, m.budget - 1, otherPeers)
  <2>1. /\ m.type = "SRequest"
        /\ gossipers' = [gossipers EXCEPT ![n] = AddPeer(n, m.src)]
        /\ UNCHANGED <<budget, stage, pages, offering>>
        /\ \/ /\ Panics(m.budget - 1, otherPeers)
              /\ crashed' = crashed \cup {n}
              /\ Sent(m, again, EmptyBag) /\ Use(m, again, m.budget)
           \/ /\ ~ Panics(m.budget - 1, otherPeers)
              /\ Sent(m, again, B (+) reply) /\ Use(m, again, 1)
              /\ UNCHANGED crashed
    BY <1>4 DEF HandleSearchRequest
  <2>2. s \in Search /\ m.budget \in Nat /\ m.budget > 0 /\ n \in Node
    BY <1>0, <2>1
  <2>3. PeersInv'
    BY <1>0, <1>1, <2>1
  <2>4. crashed' \subseteq Node
    BY <2>1, <2>2 DEF SearchInv, StageInv
  <2>5. StageInv'
    BY <2>1, <2>4 DEF SearchInv, StageInv
  <2>6. ArePackets(net') /\ BudgetInv'
    <3>1. CASE Sent(m, again, EmptyBag) /\ Use(m, again, m.budget)
      <4>1. m.budget - m.budget = 0
        BY <2>2
      <4> QED BY <1>e, <2>1, <2>2, <3>1, <4>1, UsedUp
    <3>2. CASE /\ ~ Panics(m.budget - 1, otherPeers)
               /\ Sent(m, again, B (+) reply) /\ Use(m, again, 1)
      <4>1. otherPeers \in Seq(Node) /\ IsInjective(otherPeers)
        <5>1. gossipers'[n] \in Seq(Node) /\ IsInjective(gossipers'[n])
          BY <2>2, <2>3 DEF PeersInv
        <5> QED BY <5>1, OthersKeep
      <4>2. m.budget - 1 \in Nat
        BY <2>2
      <4>3. /\ ArePackets(B)
            /\ \A t \in Search : IsFiniteSet(Units(B, t))
            /\ \A t \in Search : t # s => Units(B, t) = {}
            /\ Cardinality(Units(B, s)) = m.budget - 1
        <5> DEFINE c == m.budget - 1
        <5>1. c \in Nat /\ ~ Panics(c, otherPeers)
          BY <3>2, <4>2
        <5> HIDE DEF c, otherPeers
        <5>2. LET D == Requests(s, n, c, otherPeers)
              IN  /\ ArePackets(D)
                  /\ \A t \in Search : IsFiniteSet(Units(D, t))
                  /\ \A t \in Search : t # s => Units(D, t) = {}
                  /\ Cardinality(Units(D, s)) = c
          BY <2>2, <4>1, <5>1, RequestsArePackets
        <5> QED BY <5>2 DEF c, otherPeers
      <4>4. /\ ArePackets(reply)
            /\ \A t \in Search : IsFiniteSet(Units(reply, t)) /\ Units(reply, t) = {}
        <5>1. CASE reply = EmptyBag
          BY <1>e, <5>1
        <5>2. CASE reply = SetToBag({SReply(n, origin, results)})
          <6> DEFINE q == SReply(n, origin, results)
          <6>1. q.type = "SReply"
            BY DEF SReply
          <6>2. DOMAIN SetToBag({q}) = {q}
            BY DEF SetToBag
          <6>3. IsReply(q)
            <7>1. origin \in Node
              BY <2>2, AskedAssumption DEF At
            <7>2. \A r \in results : Held(r, n)
              BY DEF FindMatches, Held
            <7> QED BY <2>2, <7>1, <7>2 DEF IsReply
          <6> HIDE DEF q
          <6>4. IsBudgeted(SetToBag({q}))
            BY <6>1, UnitsOne
          <6>5. ASSUME NEW t \in Search PROVE Units(SetToBag({q}), t) = {}
            BY <6>1, <6>2, UnitOf DEF IsASearchOf
          <6> QED BY <5>2, <6>2, <6>3, <6>4, <6>5, FS_EmptySet DEF ArePackets, q
        <5> QED BY <5>1, <5>2
      <4> HIDE DEF B, reply, otherPeers
      <4>5. /\ ArePackets(B (+) reply)
            /\ \A t \in Search :
                  /\ IsFiniteSet(Units(B (+) reply, t))
                  /\ Cardinality(Units(B (+) reply, t)) =
                        Cardinality(Units(B, t)) + Cardinality(Units(reply, t))
        BY <4>3, <4>4, PacketsAdd
      <4>6. \A t \in Search : Cardinality(Units(reply, t)) = 0
        BY <4>4, FS_EmptySet
      <4>7. Cardinality(Units(B (+) reply, s)) = m.budget - 1
        BY <2>2, <4>3, <4>5, <4>6
      <4>8. ASSUME NEW t \in Search, t # s PROVE Units(B (+) reply, t) = {}
        <5>1. Cardinality(Units(B, t)) = 0
          BY <4>3, <4>8, FS_EmptySet
        <5>2. Cardinality(Units(B (+) reply, t)) = 0
          BY <4>5, <4>6, <5>1
        <5> QED BY <4>5, <5>2, FS_EmptySet
      <4> DEFINE out == B (+) reply
      <4>9. /\ ArePackets(out) /\ \A t \in Search : IsFiniteSet(Units(out, t))
            /\ Cardinality(Units(out, m.search)) = m.budget - 1
            /\ \A t \in Search : t # m.search => Units(out, t) = {}
            /\ Sent(m, again, out)
        BY <3>2, <4>5, <4>7, <4>8
      <4> HIDE DEF out
      <4> QED BY <2>1, <3>2, <4>9, UsedUp
    <3> QED BY <2>1, <3>1, <3>2
  <2> QED BY <2>3, <2>5, <2>6 DEF SearchInv
<1> QED BY <1>2, <1>3, <1>4

\* A packet is lost: it takes the budget it carries with it.
LEMMA SearchLose ==
    ASSUME SearchInv, NEW m \in DOMAIN net, Lose(m) PROVE SearchInv'
<1> DEFINE R == net (-) SetToBag({m})
<1>1. /\ ArePackets(net) /\ IsBudgeted(net)
      /\ owed \in [Search -> Nat] /\ budget \in [Search -> Nat]
      /\ \A t \in Search : IsFiniteSet(Units(net, t)) /\ owed[t] = Cardinality(Units(net, t))
  BY DEF SearchInv, BudgetInv, ArePackets
<1>2. IsBudgeted(R) /\ DOMAIN R \subseteq DOMAIN net
  BY <1>1, TakeOut
<1>3. \A t \in Search :
         /\ IsFiniteSet(Units(R, t))
         /\ owed[t] = Cardinality(Units(R, t)) + IF IsASearchOf(m, t) THEN m.budget ELSE 0
  BY <1>1, UnitsTaken
<1>4. /\ net' = R
      /\ owed' = IF m.type = "SRequest" THEN [owed EXCEPT ![m.search] = @ - m.budget] ELSE owed
      /\ UNCHANGED <<gossipers, budget, stage, pages, offering, crashed>>
  BY DEF Lose
<1> HIDE DEF R
<1>5. ArePackets(net')
  BY <1>1, <1>2, <1>4 DEF ArePackets
<1>6. m.type = "SRequest" => m.search \in Search /\ m.budget \in Nat
  BY <1>1, Packets DEF ArePackets
<1>7. ASSUME NEW t \in Search PROVE owed'[t] = Cardinality(Units(R, t)) /\ Cardinality(Units(R, t)) \in Nat
  <2>1. Cardinality(Units(R, t)) \in Nat
    BY <1>3, FS_CardinalityType
  <2>2. CASE IsASearchOf(m, t)
    <3>1. m.type = "SRequest" /\ m.search = t /\ m.budget \in Nat
      BY <1>6, <2>2 DEF IsASearchOf
    <3>2. owed'[t] = owed[t] - m.budget
      BY <1>1, <1>4, <3>1
    <3>3. owed[t] = Cardinality(Units(R, t)) + m.budget
      BY <1>3, <2>2
    <3> QED BY <2>1, <3>1, <3>2, <3>3
  <2>3. CASE ~ IsASearchOf(m, t)
    <3>1. owed'[t] = owed[t]
      BY <1>1, <1>4, <2>3 DEF IsASearchOf
    <3>2. owed[t] = Cardinality(Units(R, t)) + 0
      BY <1>3, <2>3
    <3> QED BY <2>1, <3>1, <3>2
  <2> QED BY <2>2, <2>3
<1>8. owed' \in [Search -> Nat]
  BY <1>1, <1>4, <1>7
<1>9. BudgetInv'
  BY <1>1, <1>3, <1>4, <1>7, <1>8 DEF BudgetInv
<1>10. PeersInv' /\ StageInv'
  BY <1>4 DEF SearchInv, PeersInv, StageInv
<1> QED BY <1>5, <1>9, <1>10 DEF SearchInv

\* Every step keeps the types, and the budget under way.
LEMMA SearchInvNext == SearchInv /\ [Next]_vars => SearchInv'
<1> SUFFICES ASSUME SearchInv, [Next]_vars PROVE SearchInv'
  OBVIOUS
<1>1. ASSUME NEW s \in Search, StartFileSearch(s) PROVE SearchInv'
  <2>1. /\ stage' = [stage EXCEPT ![s] = "ticking"]
        /\ pages' \subseteq pages \cup {s} /\ (s \in pages' => s \in pages \/ Asked[s].web)
        /\ UNCHANGED <<gossipers, budget, offering, crashed, net, owed>>
    BY <1>1 DEF StartFileSearch, FirstStage
  <2>2. StageInv'
    BY <2>1 DEF SearchInv, StageInv
  <2> QED BY <2>1, <2>2 DEF SearchInv, PeersInv, BudgetInv
<1>2. ASSUME NEW s \in Search, Tick(s) PROVE SearchInv'
  BY <1>2, SearchTick
<1>3. ASSUME NEW p \in pages, ReceiveMatch(p) PROVE SearchInv'
  <2>1. /\ offering' \subseteq offering
        /\ UNCHANGED <<gossipers, budget, stage, pages, crashed, net, owed>>
    BY <1>3 DEF ReceiveMatch
  <2> QED BY <2>1 DEF SearchInv, PeersInv, BudgetInv, StageInv
<1>4. ASSUME NEW p \in pages, NEW s \in Search, ReceiveCompleted(p, s) PROVE SearchInv'
  <2>1. /\ stage' = [stage EXCEPT ![s] = "over"] /\ pages' \subseteq pages
        /\ UNCHANGED <<gossipers, budget, offering, crashed, net, owed>>
    BY <1>4 DEF ReceiveCompleted
  <2>2. StageInv'
    BY <2>1 DEF SearchInv, StageInv
  <2> QED BY <2>1, <2>2 DEF SearchInv, PeersInv, BudgetInv
<1>5. ASSUME NEW n \in Node, AddSearchResult(n) PROVE SearchInv'
  <2>1. /\ offering' \subseteq offering \cup {n}
        /\ UNCHANGED <<gossipers, budget, stage, pages, crashed, net, owed>>
    BY <1>5 DEF AddSearchResult
  <2> QED BY <2>1 DEF SearchInv, PeersInv, BudgetInv, StageInv
<1>6. ASSUME NEW n \in Node, RemoveSearches(n) PROVE SearchInv'
  <2>1. UNCHANGED <<gossipers, budget, stage, pages, offering, crashed, net, owed>>
    BY <1>6 DEF RemoveSearches
  <2> QED BY <2>1 DEF SearchInv, PeersInv, BudgetInv, StageInv
<1>7. ASSUME NEW m \in BagToSet(net), Deliver(m) \/ Lose(m) PROVE SearchInv'
  BY <1>7, SearchDeliver, SearchLose DEF BagToSet
<1>8. CASE UNCHANGED vars
  BY <1>8 DEF vars, SearchInv, PeersInv, BudgetInv, StageInv
<1> QED
  BY <1>1, <1>2, <1>3, <1>4, <1>5, <1>6, <1>7, <1>8 DEF Next

LEMMA SearchInvCorrect == Spec => []SearchInv
BY SearchInvInit, SearchInvNext, PTL DEF Spec

\* Every variable has its type; that a search owes no less than nothing rests on
\* its budget being conserved.  (filehandler.go)
THEOREM SearchTypeCorrect == Spec => []TypeOK
<1>1. SearchInv => TypeOK
  <2> SUFFICES ASSUME SearchInv PROVE TypeOK
    OBVIOUS
  <2>1. \A n \in Node : ToSet(gossipers[n]) \subseteq Node
    BY DEF SearchInv, PeersInv, ToSet
  <2>2. \A m \in BagToSet(net) : m.type = "SRequest" => m.budget > 0
    BY Packets DEF SearchInv, ArePackets, BagToSet
  <2> QED BY <2>1, <2>2 DEF TypeOK, SearchInv, BudgetInv, StageInv
<1> QED BY <1>1, SearchInvCorrect, PTL

\* Whatever is lost or comes twice, and however many nodes and rounds share it,
\* the budget a search gave out and nobody used is under way, unit for unit.
\* (splitBudget, forwardSearchRequest)
THEOREM BudgetIsConserved == Spec => []BudgetConserved
<1>1. SearchInv => BudgetConserved
  BY DEF SearchInv, BudgetInv, BudgetConserved
<1> QED BY <1>1, SearchInvCorrect, PTL

-----------------------------------------------------------------------------
(***************************************************************************)
(* Results.                                                                *)
(***************************************************************************)

\* The locations of one file.
LocationsHeld(f, found) ==
    /\ found = [meta |-> found.meta, locations |-> found.locations]
    /\ \A i \in DOMAIN found.locations : \A p \in found.locations[i] :
          f \in DOMAIN Shared[p] /\ Shared[p][f].meta = found.meta /\ i \in Shared[p][f].chunks

\* The results of a node, and those it has yet to add, are what others have.
ResultsInv ==
    /\ DOMAIN adding = Node /\ DOMAIN search = Node
    /\ \A n \in Node : \A a \in adding[n] : Held(a.result, a.from)
    /\ \A n \in Node : \A f \in DOMAIN search[n] : LocationsHeld(f, search[n][f])

\* A new result.
LEMMA NewHeld ==
    ASSUME NEW r, NEW p, Held(r, p)
    PROVE  LocationsHeld(r.name, Found(r, p))
BY DEF Held, LocationsHeld, Found

\* A result for a file that is known, of the same metafile.
LEMMA MergedHeld ==
    ASSUME NEW r, NEW p, Held(r, p), NEW found, LocationsHeld(r.name, found), r.meta = found.meta,
           NEW more,
           more = [found EXCEPT !.locations =
                      [i \in DOMAIN @ \cup r.chunkMap |->
                          (IF i \in DOMAIN @ THEN @[i] ELSE {}) \cup IF i \in r.chunkMap THEN {p} ELSE {}]]
    PROVE  LocationsHeld(r.name, more)
<1> DEFINE L == found.locations
           K == [i \in DOMAIN L \cup r.chunkMap |->
                   (IF i \in DOMAIN L THEN L[i] ELSE {}) \cup IF i \in r.chunkMap THEN {p} ELSE {}]
<1>1. found = [meta |-> found.meta, locations |-> L]
  BY DEF LocationsHeld
<1>2. more = [found EXCEPT !.locations = K]
  OBVIOUS
<1>3. /\ DOMAIN K = DOMAIN L \cup r.chunkMap
      /\ \A i \in DOMAIN K : \A q \in K[i] :
            (i \in DOMAIN L /\ q \in L[i]) \/ (i \in r.chunkMap /\ q = p)
  <2> HIDE DEF L
  <2>1. DOMAIN K = DOMAIN L \cup r.chunkMap
    OBVIOUS
  <2>2. ASSUME NEW i \in DOMAIN K, NEW q \in K[i]
        PROVE  (i \in DOMAIN L /\ q \in L[i]) \/ (i \in r.chunkMap /\ q = p)
    <3>1. K[i] = (IF i \in DOMAIN L THEN L[i] ELSE {}) \cup IF i \in r.chunkMap THEN {p} ELSE {}
      BY <2>1
    <3> HIDE DEF K
    <3>2. q \in (IF i \in DOMAIN L THEN L[i] ELSE {}) \/ q \in IF i \in r.chunkMap THEN {p} ELSE {}
      BY <2>2, <3>1
    <3> QED BY <3>2
  <2> HIDE DEF K
  <2> QED BY <2>1, <2>2
<1>4. \A i \in DOMAIN L : \A q \in L[i] :
         r.name \in DOMAIN Shared[q] /\ Shared[q][r.name].meta = found.meta
         /\ i \in Shared[q][r.name].chunks
  BY DEF LocationsHeld
<1> HIDE DEF K, L
<1>5. more = [meta |-> found.meta, locations |-> K]
  BY <1>1, <1>2
<1>6. more.meta = found.meta /\ more.locations = K
  BY <1>5
<1>7. ASSUME NEW i \in DOMAIN K, NEW q \in K[i]
      PROVE  r.name \in DOMAIN Shared[q] /\ Shared[q][r.name].meta = found.meta
             /\ i \in Shared[q][r.name].chunks
  <2>1. CASE i \in DOMAIN L /\ q \in L[i]
    BY <1>4, <2>1
  <2>2. CASE i \in r.chunkMap /\ q = p
    BY <2>2 DEF Held
  <2> QED BY <1>3, <2>1, <2>2
<1> QED BY <1>5, <1>6, <1>7 DEF LocationsHeld

\* Every step keeps the results held: one is added with what its sender told of the
\* file it has, and only to a file of the same metafile.
LEMMA ResultsNext == SearchInv /\ ResultsInv /\ [Next]_vars => ResultsInv'
<1> SUFFICES ASSUME SearchInv, ResultsInv, [Next]_vars PROVE ResultsInv'
  OBVIOUS
<1>0. /\ DOMAIN adding = Node /\ DOMAIN search = Node
      /\ \A n \in Node : \A a \in adding[n] : Held(a.result, a.from)
      /\ \A n \in Node : \A f \in DOMAIN search[n] : LocationsHeld(f, search[n][f])
  BY DEF ResultsInv
<1>1. CASE UNCHANGED <<adding, search>>
  BY <1>1 DEF ResultsInv
<1>2. ASSUME NEW s \in Search, StartFileSearch(s) PROVE ResultsInv'
  <2>1. search' = [search EXCEPT ![At(s)] = <<>>] /\ UNCHANGED adding
    BY <1>2 DEF StartFileSearch
  <2>2. DOMAIN search' = Node
    BY <1>0, <2>1
  <2>3. \A n \in Node : search'[n] = <<>> \/ search'[n] = search[n]
    BY <1>0, <2>1
  <2>4. DOMAIN <<>> = {}
    OBVIOUS
  <2>5. \A n \in Node : \A f \in DOMAIN search'[n] : LocationsHeld(f, search'[n][f])
    <3> SUFFICES ASSUME NEW n \in Node, NEW f \in DOMAIN search'[n]
                 PROVE  LocationsHeld(f, search'[n][f])
      OBVIOUS
    <3>1. search'[n] # <<>>
      BY <2>4
    <3>2. search'[n] = search[n]
      BY <2>3, <3>1
    <3> QED BY <1>0, <3>2
  <2> QED BY <1>0, <2>1, <2>2, <2>5 DEF ResultsInv
<1>3. ASSUME NEW m \in BagToSet(net), NEW again, HandleSearchReply(m, again) PROVE ResultsInv'
  <2> DEFINE new == {[result |-> r, from |-> m.src] : r \in m.results}
  <2>1. m.type = "SReply" /\ adding' = [adding EXCEPT ![m.dst] = new] /\ UNCHANGED search
    BY <1>3 DEF HandleSearchReply
  <2>2. \A r \in m.results : Held(r, m.src)
    BY <2>1, Packets DEF SearchInv, ArePackets, BagToSet
  <2>3. \A a \in new : Held(a.result, a.from)
    BY <2>2
  <2> HIDE DEF new
  <2>4. DOMAIN adding' = Node /\ \A n \in Node : adding'[n] = new \/ adding'[n] = adding[n]
    BY <1>0, <2>1
  <2>5. \A n \in Node : \A a \in adding'[n] : Held(a.result, a.from)
    BY <1>0, <2>3, <2>4
  <2> QED BY <1>0, <2>1, <2>4, <2>5 DEF ResultsInv
<1>4. ASSUME NEW n \in Node, AddSearchResult(n) PROVE ResultsInv'
  <2>1. PICK a \in adding[n] :
           LET r == a.result
               new == r.name \notin DOMAIN search[n]
           IN  /\ search' = [search EXCEPT ![n] =
                                IF new
                                THEN With(n, r.name, Found(r, a.from))
                                ELSE Merge(n, r, a.from)]
               /\ offering' = IF new THEN offering \cup {n} ELSE offering
               /\ adding' = [adding EXCEPT ![n] = adding[n] \ {a}]
    BY <1>4 DEF AddSearchResult
  <2> DEFINE r == a.result
             p == a.from
             found == Found(r, p)
  <2>2. Held(r, p)
    BY <1>0
  <2>3. /\ DOMAIN adding' = Node
        /\ \A k \in Node : \A b \in adding'[k] : Held(b.result, b.from)
    <3>1. adding' = [adding EXCEPT ![n] = adding[n] \ {a}]
      BY <2>1
    <3>2. DOMAIN adding' = Node /\ \A k \in Node : adding'[k] \subseteq adding[k]
      BY <1>0, <3>1
    <3> QED BY <1>0, <3>2
  <2>4. PICK files : /\ search' = [search EXCEPT ![n] = files]
                     /\ \A f \in DOMAIN files : LocationsHeld(f, files[f])
    <3>1. CASE r.name \notin DOMAIN search[n]
      <4> DEFINE files == With(n, r.name, found)
      <4>1. search' = [search EXCEPT ![n] = files]
        BY <2>1, <3>1
      <4>2. LocationsHeld(r.name, found)
        BY <2>2, NewHeld
      <4> HIDE DEF found
      <4>3. /\ DOMAIN files = DOMAIN search[n] \cup {r.name}
            /\ \A f \in DOMAIN files : files[f] = IF f = r.name THEN found ELSE search[n][f]
        BY DEF With
      <4> HIDE DEF files, r
      <4>4. \A f \in DOMAIN files : LocationsHeld(f, files[f])
        BY <1>0, <4>2, <4>3
      <4> QED BY <4>1, <4>4
    <3>2. CASE r.name \in DOMAIN search[n]
      <4>1. search' = [search EXCEPT ![n] = Merge(n, r, p)]
        BY <2>1, <3>2
      <4>2. CASE r.meta # search[n][r.name].meta
        <5>1. search' = [search EXCEPT ![n] = search[n]]
          BY <4>1, <4>2 DEF Merge
        <5> QED BY <1>0, <5>1
      <4>3. CASE r.meta = search[n][r.name].meta
        <5> DEFINE old == search[n][r.name]
                   L == old.locations
                   K == [i \in DOMAIN L \cup r.chunkMap |->
                           (IF i \in DOMAIN L THEN L[i] ELSE {})
                           \cup IF i \in r.chunkMap THEN {p} ELSE {}]
                   more == [old EXCEPT !.locations = K]
                   files == [search[n] EXCEPT ![r.name] = more]
        <5>1. search' = [search EXCEPT ![n] = files]
          BY <4>1, <4>3 DEF Merge, MergeByName
        <5>2. LocationsHeld(r.name, old) /\ r.meta = old.meta
          BY <1>0, <3>2, <4>3
        <5>3. LocationsHeld(r.name, more)
          <6> HIDE DEF r, p, old
          <6> QED BY <2>2, <5>2, MergedHeld
        <5> HIDE DEF more
        <5>4. /\ DOMAIN files = DOMAIN search[n]
              /\ \A f \in DOMAIN files : files[f] = IF f = r.name THEN more ELSE search[n][f]
          OBVIOUS
        <5> HIDE DEF files, r
        <5>5. \A f \in DOMAIN files : LocationsHeld(f, files[f])
          BY <1>0, <5>3, <5>4
        <5> QED BY <5>1, <5>5
      <4> QED BY <4>2, <4>3
    <3> QED BY <3>1, <3>2
  <2>5. DOMAIN search' = Node /\ \A k \in Node : search'[k] = IF k = n THEN files ELSE search[k]
    BY <1>0, <2>4
  <2>6. \A k \in Node : \A f \in DOMAIN search'[k] : LocationsHeld(f, search'[k][f])
    BY <1>0, <2>4, <2>5
  <2> QED BY <2>3, <2>5, <2>6 DEF ResultsInv
<1>5. ASSUME NEW s \in Search, Tick(s) PROVE ResultsInv'
  BY <1>1, <1>5 DEF Tick
<1>6. ASSUME NEW p, ReceiveMatch(p) PROVE ResultsInv'
  BY <1>1, <1>6 DEF ReceiveMatch
<1>7. ASSUME NEW p, NEW s, ReceiveCompleted(p, s) PROVE ResultsInv'
  BY <1>1, <1>7 DEF ReceiveCompleted
<1>8. ASSUME NEW n \in Node, RemoveSearches(n) PROVE ResultsInv'
  BY <1>1, <1>8 DEF RemoveSearches
<1>9. ASSUME NEW m \in BagToSet(net), Deliver(m) \/ Lose(m) PROVE ResultsInv'
  <2>1. ASSUME Lose(m) PROVE ResultsInv'
    BY <1>1, <2>1 DEF Lose
  <2>2. ASSUME NEW again, DropSearchRequest(m, again) PROVE ResultsInv'
    BY <1>1, <2>2 DEF DropSearchRequest
  <2>3. ASSUME NEW again, HandleSearchRequest(m, again) PROVE ResultsInv'
    BY <1>1, <2>3 DEF HandleSearchRequest
  <2> QED BY <1>3, <1>9, <2>1, <2>2, <2>3 DEF Deliver
<1>10. CASE UNCHANGED vars
  BY <1>1, <1>10 DEF vars
<1> QED
  BY <1>2, <1>4, <1>5, <1>6, <1>7, <1>8, <1>9, <1>10 DEF Next

\* A location found is a node that has the chunk, of the very file found.
\* (addSearchResult, searchReplyHandler)
THEOREM ResultsCorrect == Spec => []ResultsAreHeld
<1>1. Init => ResultsInv
  <2> SUFFICES ASSUME Init PROVE ResultsInv
    OBVIOUS
  <2>1. /\ DOMAIN adding = Node /\ DOMAIN search = Node
        /\ \A n \in Node : adding[n] = {} /\ search[n] = <<>>
    BY DEF Init
  <2>2. DOMAIN <<>> = {}
    OBVIOUS
  <2>3. \A n \in Node : DOMAIN search[n] = {}
    BY <2>1, <2>2
  <2> QED BY <2>1, <2>3 DEF ResultsInv
<1>2. ResultsInv => ResultsAreHeld
  BY DEF ResultsInv, LocationsHeld, ResultsAreHeld
<1> QED BY <1>1, <1>2, SearchInvCorrect, ResultsNext, PTL DEF Spec
=============================================================================
