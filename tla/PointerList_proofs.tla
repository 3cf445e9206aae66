------------------------- MODULE PointerList_proofs -------------------------
(***************************************************************************)
(* Proofs about module PointerList, for any number of nodes and elements.  *)
(*                                                                         *)
(* The idea: a list is well linked when there is a walk of it, a function  *)
(* from the natural numbers to addresses that the links agree with.  A     *)
(* node that is linked in before position p is spliced into the walk, and  *)
(* one that is removed is dropped from it.  Nth, which is defined by       *)
(* recursion on the links, is then that walk (by induction on the          *)
(* position), and dpl_size its length.                                     *)
(***************************************************************************)
EXTENDS PointerList, FiniteSetTheorems, SequenceTheorems, WellFoundedInduction, TLAPS

\* The addresses w[0], ..., w[m-1] are the list, in order, and then comes NULL.
Walk(m, w) ==
    /\ m \in Nat /\ w \in [Nat -> Addr]
    /\ \A i \in Nat : w[i] = NULL <=> m <= i
    /\ \A i, j \in 0..(m-1) : w[i] = w[j] => i = j
    /\ live = {w[i] : i \in 0..(m-1)}
    /\ head = w[0]
    /\ \A i \in 0..(m-1) :
         /\ next[w[i]] = w[i+1]
         /\ prev[w[i]] = IF i = 0 THEN NULL ELSE w[i-1]

Types ==
    /\ prev \in [Node -> Addr] /\ next \in [Node -> Addr]
    /\ key \in [Node -> Key \cup {NONE}]
    /\ state \in {"list", "freeing", "gone"}
    /\ size \in 0..Cardinality(Node) /\ turn \in 0..size

\* dpl_free has as many removals left as there are nodes.
Remaining(m) ==
    /\ state = "freeing" => m = size - turn
    /\ state = "gone" => m = 0

PInv == Types /\ \E m, w : Walk(m, w) /\ Remaining(m)

-----------------------------------------------------------------------------
(* Numbers, and walks.                                                     *)

\* A set of numbers that has a member has a least one.
LEMMA LeastNat ==
    ASSUME NEW T, T \subseteq Nat, T # {}
    PROVE  \E x \in T : \A y \in T : x <= y
  <1> DEFINE R == OpToRel(<, Nat)
  <1>1. IsWellFoundedOn(R, Nat)
    BY NatLessThanWellFounded
  <1> HIDE DEF R
  <1>2. PICK x \in T : \A y \in T : ~ (<<y, x>> \in R)
    BY <1>1, WFMin
  <1>3. ASSUME NEW y \in T PROVE x <= y
    <2>1. x \in Nat /\ y \in Nat
      OBVIOUS
    <2>2. y < x => <<y, x>> \in R
      BY <2>1 DEF R, OpToRel
    <2> QED BY <1>2, <2>1, <2>2
  <1> QED BY <1>3

\* Min is the least of some numbers.
LEMMA MinIsLeast ==
    ASSUME NEW T, T \subseteq Nat, T # {}
    PROVE  Min(T) \in T /\ \A y \in T : Min(T) <= y
  <1>1. \E x \in T : \A y \in T : x <= y
    BY LeastNat
  <1> QED BY <1>1, Zenon DEF Min

\* A function that goes where the links lead is what Nth is.
LEMMA NthIs ==
    ASSUME NEW w \in [Nat -> Addr], w[0] = head,
           \A i \in Nat : w[i+1] = IF w[i] = NULL THEN NULL ELSE next[w[i]]
    PROVE  Nth = w
  <1> DEFINE F(f) == [i \in Nat |-> IF i = 0 THEN head
                                    ELSE IF f[i-1] = NULL THEN NULL ELSE next[f[i-1]]]
  <1>1. w = F(w)
    <2>1. ASSUME NEW i \in Nat PROVE w[i] = F(w)[i]
      <3>1. CASE i = 0
        BY <3>1
      <3>2. CASE i # 0
        <4>1. i - 1 \in Nat /\ (i - 1) + 1 = i
          BY <3>2
        <4> QED BY <3>2, <4>1
      <3> QED BY <3>1, <3>2
    <2> QED BY <2>1
  <1>2. Nth = F(Nth)
    <2>1. \E f : f = F(f)
      BY <1>1
    <2>2. Nth = CHOOSE f : f = F(f)
      BY DEF Nth
    <2> HIDE DEF F
    <2> QED BY <2>1, <2>2
  <1>3. \A i \in Nat : Nth[i] = w[i]
    <2> SUFFICES ASSUME {i \in Nat : Nth[i] # w[i]} # {} PROVE FALSE
      OBVIOUS
    <2>1. PICK i \in {i \in Nat : Nth[i] # w[i]} :
              \A j \in {j \in Nat : Nth[j] # w[j]} : i <= j
      BY LeastNat
    <2>2. i # 0
      BY <1>2, <2>1
    <2>3. i - 1 \in Nat /\ ~(i <= i - 1) /\ (i - 1) + 1 = i
      BY <2>1, <2>2
    <2>4. Nth[i-1] = w[i-1]
      BY <2>1, <2>3
    <2>5. Nth[i] = F(Nth)[i]
      BY <1>2, Zenon
    <2>6. F(Nth)[i] = IF Nth[i-1] = NULL THEN NULL ELSE next[Nth[i-1]]
      BY <2>1, <2>2
    <2>7. w[i] = IF w[i-1] = NULL THEN NULL ELSE next[w[i-1]]
      BY <2>3
    <2> QED BY <2>1, <2>4, <2>5, <2>6, <2>7
  <1>4. w = [i \in Nat |-> w[i]]
    OBVIOUS
  <1>5. Nth = [i \in Nat |-> Nth[i]]
    BY <1>2
  <1> QED BY <1>3, <1>4, <1>5

\* The addresses of a walk are nodes, and it is not longer than the pool.
LEMMA WalkFits ==
    ASSUME NEW m, NEW w, Walk(m, w)
    PROVE  /\ m \in Nat /\ m <= Cardinality(Node) /\ Cardinality(Node) \in Nat
           /\ \A i \in 0..(m-1) : w[i] \in Node /\ w[i] \in live
           /\ live \subseteq Node
  <1>1. m \in Nat /\ \A i \in 0..(m-1) : i \in Nat /\ ~(m <= i)
    BY DEF Walk
  <1>2. \A i \in 0..(m-1) : w[i] \in Node
    BY <1>1 DEF Walk, Addr
  <1> DEFINE f == [i \in 0..(m-1) |-> w[i]]
  <1>3. f \in Injection(0..(m-1), Node)
    BY <1>2 DEF Walk, Injection, IsInjective
  <1>4. /\ Cardinality(0..(m-1)) <= Cardinality(Node)
        /\ Cardinality(0..(m-1)) = m
    <2>1. Cardinality(0..(m-1)) <= Cardinality(Node)
      BY <1>3, ListAssumption, FS_Injection
    <2>2. Cardinality(0..(m-1)) = IF 0 > m-1 THEN 0 ELSE (m-1) - 0 + 1
      BY <1>1, FS_Interval
    <2> QED BY <1>1, <2>1, <2>2
  <1>5. Cardinality(Node) \in Nat
    BY ListAssumption, FS_CardinalityType
  <1> QED BY <1>1, <1>2, <1>4, <1>5 DEF Walk

\* What the reading functions find is the walk.
LEMMA WalkIsList ==
    ASSUME NEW m, NEW w, Walk(m, w)
    PROVE  Nth = w /\ dpl_size = m /\ Positions = 0..(m-1) /\ InList = live
  <1>1. Nth = w
    <2>1. ASSUME NEW i \in Nat
          PROVE  w[i+1] = IF w[i] = NULL THEN NULL ELSE next[w[i]]
      <3>1. CASE m <= i
        BY <3>1 DEF Walk
      <3>2. CASE ~(m <= i)
        BY <3>2 DEF Walk
      <3> QED BY <3>1, <3>2
    <2> QED BY <2>1, NthIs DEF Walk
  <1>2. dpl_size = m
    <2>1. {i \in 0..Cardinality(Node) : w[i] # NULL} = 0..(m-1)
      BY WalkFits DEF Walk
    <2>2. Cardinality(0..(m-1)) = IF 0 > m-1 THEN 0 ELSE (m-1) - 0 + 1
      <3>1. 0 \in Int /\ m-1 \in Int
        BY WalkFits
      <3> QED BY <3>1, FS_Interval
    <2>3. m \in Nat
      BY WalkFits
    <2>4. Cardinality(0..(m-1)) = m
      BY <2>2, <2>3
    <2> QED BY <1>1, <2>1, <2>4 DEF dpl_size
  <1> QED BY <1>1, <1>2 DEF Positions, InList, Walk

-----------------------------------------------------------------------------
(* One node more, or less.                                                 *)

Spliced(w, p, n) == [i \in Nat |-> IF i < p THEN w[i] ELSE IF i = p THEN n ELSE w[i-1]]
Dropped(w, p) == [i \in Nat |-> IF i < p THEN w[i] ELSE w[i+1]]

\* Links that are changed like this take a new node n in before position p.
LEMMA Splice ==
    ASSUME NEW m, NEW w, Walk(m, w), NEW p \in 0..m, NEW n \in Node \ live,
           live' = live \cup {n},
           head' = IF p = 0 THEN n ELSE head,
           next'[n] = w[p],
           prev'[n] = IF p = 0 THEN NULL ELSE w[p-1],
           \A i \in 0..(m-1) : next'[w[i]] = IF i = p-1 THEN n ELSE next[w[i]],
           \A i \in 0..(m-1) : prev'[w[i]] = IF i = p THEN n ELSE prev[w[i]]
    PROVE  Walk(m+1, Spliced(w, p, n))'
  <1> DEFINE v == Spliced(w, p, n)
  <1>1. m \in Nat /\ p \in Nat /\ p <= m /\ m+1 \in Nat /\ (m+1)-1 = m
    BY DEF Walk
  <1>2. \A i \in 0..(m-1) : w[i] \in live /\ w[i] # n
    BY WalkFits
  <1>3. n # NULL /\ n \in Addr /\ w \in [Nat -> Addr]
    BY ListAssumption DEF Addr, Walk
  <1>4. \A i \in Nat : v[i] = IF i < p THEN w[i] ELSE IF i = p THEN n ELSE w[i-1]
    BY DEF Spliced
  <1>5. v \in [Nat -> Addr]
    <2>1. ASSUME NEW i \in Nat
          PROVE  (IF i < p THEN w[i] ELSE IF i = p THEN n ELSE w[i-1]) \in Addr
      <3>1. CASE i < p
        BY <1>3, <3>1
      <3>2. CASE i = p
        BY <1>1, <1>3, <3>2
      <3>3. CASE ~(i < p) /\ i # p
        <4>1. i - 1 \in Nat
          BY <1>1, <3>3
        <4> QED BY <1>3, <3>3, <4>1
      <3> QED BY <3>1, <3>2, <3>3
    <2> QED BY <2>1 DEF Spliced
  <1> HIDE DEF v
  <1>6. ASSUME NEW i \in Nat PROVE v[i] = NULL <=> m+1 <= i
    <2>1. CASE i < p
      BY <1>1, <1>4, <2>1 DEF Walk
    <2>2. CASE i = p
      BY <1>1, <1>3, <1>4, <2>2 DEF Walk
    <2>3. CASE ~(i < p) /\ i # p
      <3>1. i - 1 \in Nat /\ (m <= i - 1 <=> m+1 <= i)
        BY <1>1, <2>3
      <3>2. v[i] = w[i-1]
        BY <1>4, <2>3
      <3>3. w[i-1] = NULL <=> m <= i - 1
        BY <3>1 DEF Walk
      <3> QED BY <3>1, <3>2, <3>3
    <2> QED BY <2>1, <2>2, <2>3
  <1>7. ASSUME NEW i \in 0..m, NEW j \in 0..m, v[i] = v[j] PROVE i = j
    <2> DEFINE old(l) == IF l < p THEN l ELSE l-1
    <2>1. \A l \in 0..m : l # p => old(l) \in 0..(m-1) /\ v[l] = w[old(l)]
      BY <1>1, <1>4
    <2>2. v[p] = n
      BY <1>1, <1>4
    <2>3. CASE i = p
      BY <1>2, <1>7, <2>1, <2>2, <2>3
    <2>4. CASE j = p
      BY <1>2, <1>7, <2>1, <2>2, <2>4
    <2>5. CASE i # p /\ j # p
      <3>1. w[old(i)] = w[old(j)] /\ old(i) \in 0..(m-1) /\ old(j) \in 0..(m-1)
        BY <1>7, <2>1, <2>5
      <3>2. old(i) = old(j)
        <4> HIDE DEF old
        <4> QED BY <3>1 DEF Walk
      <3> QED BY <1>1, <2>5, <3>2
    <2> QED BY <2>3, <2>4, <2>5
  <1>8. live' = {v[i] : i \in 0..m}
    <2>1. ASSUME NEW x \in live' PROVE \E i \in 0..m : x = v[i]
      <3>1. CASE x = n
        BY <1>1, <1>4, <3>1
      <3>2. CASE x \in live
        <4>1. PICK i \in 0..(m-1) : x = w[i]
          BY <3>2 DEF Walk
        <4>2. CASE i < p
          BY <1>1, <1>4, <4>1, <4>2
        <4>3. CASE ~(i < p)
          <5>1. i+1 \in 0..m /\ i+1 \in Nat /\ ~(i+1 < p) /\ i+1 # p /\ (i+1)-1 = i
            BY <1>1, <4>3
          <5> QED BY <1>4, <4>1, <5>1
        <4> QED BY <4>2, <4>3
      <3> QED BY <3>1, <3>2
    <2>2. ASSUME NEW i \in 0..m PROVE v[i] \in live'
      <3>1. CASE i = p
        BY <1>1, <1>4, <3>1
      <3>2. CASE i < p
        BY <1>1, <1>2, <1>4, <3>2
      <3>3. CASE ~(i < p) /\ i # p
        <4>1. i-1 \in 0..(m-1) /\ v[i] = w[i-1]
          BY <1>1, <1>4, <3>3
        <4> QED BY <1>2, <4>1
      <3> QED BY <3>1, <3>2, <3>3
    <2> QED BY <2>1, <2>2
  <1>9. head' = v[0]
    BY <1>1, <1>4 DEF Walk
  <1>10. ASSUME NEW i \in 0..m PROVE next'[v[i]] = v[i+1]
    <2>1. CASE i = p
      <3>1. v[i] = n /\ v[i+1] = w[i]
        BY <1>1, <1>4, <2>1
      <3> QED BY <2>1, <3>1
    <2>2. CASE i < p
      <3>1. v[i] = w[i] /\ i \in 0..(m-1) /\ v[i+1] = IF i = p-1 THEN n ELSE w[i+1]
        BY <1>1, <1>4, <2>2
      <3> QED BY <3>1 DEF Walk
    <2>3. CASE ~(i < p) /\ i # p
      <3>1. v[i] = w[i-1] /\ i-1 \in 0..(m-1) /\ v[i+1] = w[i] /\ i-1 # p-1 /\ (i-1)+1 = i
        BY <1>1, <1>4, <2>3
      <3>2. next'[w[i-1]] = next[w[i-1]]
        BY <3>1
      <3>3. next[w[i-1]] = w[(i-1)+1]
        BY <3>1 DEF Walk
      <3> QED BY <3>1, <3>2, <3>3
    <2> QED BY <2>1, <2>2, <2>3
  <1>11. ASSUME NEW i \in 0..m PROVE prev'[v[i]] = IF i = 0 THEN NULL ELSE v[i-1]
    <2>1. CASE i = p
      <3>1. v[i] = n /\ (i # 0 => v[i-1] = w[i-1])
        BY <1>1, <1>4, <2>1
      <3> QED BY <2>1, <3>1
    <2>2. CASE i < p
      <3>1. v[i] = w[i] /\ i \in 0..(m-1) /\ (i # 0 => v[i-1] = w[i-1]) /\ i # p
        BY <1>1, <1>4, <2>2
      <3> QED BY <3>1 DEF Walk
    <2>3. CASE ~(i < p) /\ i # p
      <3>1. v[i] = w[i-1] /\ i-1 \in 0..(m-1) /\ i # 0
            /\ v[i-1] = IF i-1 = p THEN n ELSE w[(i-1)-1]
        BY <1>1, <1>4, <2>3
      <3>2. CASE i-1 = p
        BY <3>1, <3>2
      <3>3. CASE i-1 # p
        <4>1. prev'[w[i-1]] = prev[w[i-1]] /\ i-1 # 0
          BY <1>1, <2>3, <3>1, <3>3
        <4>2. prev[w[i-1]] = w[(i-1)-1]
          BY <3>1, <4>1 DEF Walk
        <4> QED BY <3>1, <3>3, <4>1, <4>2
      <3> QED BY <3>2, <3>3
    <2> QED BY <2>1, <2>2, <2>3
  <1> QED BY <1>1, <1>5, <1>6, <1>7, <1>8, <1>9, <1>10, <1>11 DEF Walk, v

\* Links that are changed like this leave out the node at position p.
LEMMA Drop ==
    ASSUME NEW m, NEW w, Walk(m, w), NEW p \in 0..(m-1),
           live' = live \ {w[p]},
           head' = IF p = 0 THEN w[1] ELSE head,
           \A i \in 0..(m-1) : i # p =>
               next'[w[i]] = IF i = p-1 THEN w[p+1] ELSE next[w[i]],
           \A i \in 0..(m-1) : i # p =>
               prev'[w[i]] = IF i = p+1 THEN prev[w[p]] ELSE prev[w[i]]
    PROVE  Walk(m-1, Dropped(w, p))'
  <1> DEFINE v == Dropped(w, p)
             old(l) == IF l < p THEN l ELSE l+1
  <1>1. m \in Nat /\ p \in Nat /\ p < m /\ m-1 \in Nat /\ w \in [Nat -> Addr]
    BY DEF Walk
  <1>2. \A i \in Nat : v[i] = w[old(i)] /\ old(i) \in Nat /\ old(i) # p
    BY <1>1 DEF Dropped
  <1>3. \A i \in Nat : (m <= old(i) <=> m-1 <= i)
    BY <1>1
  <1>4. \A i \in 0..((m-1)-1) : i \in Nat /\ old(i) \in 0..(m-1) /\ old(i) # p
    BY <1>1
  <1>5. \A i, j \in Nat : old(i) = old(j) => i = j
    BY <1>1
  <1>6. \A l \in 0..(m-1) : l # p => \E i \in 0..((m-1)-1) : l = old(i)
    <2> TAKE l \in 0..(m-1)
    <2> HAVE l # p
    <2>1. CASE l < p
      BY <1>1, <2>1
    <2>2. CASE ~(l < p)
      <3>1. l-1 \in 0..((m-1)-1) /\ ~(l-1 < p) /\ l = (l-1)+1
        BY <1>1, <2>2
      <3> QED BY <3>1
    <2> QED BY <2>1, <2>2
  <1>7. v \in [Nat -> Addr]
    <2>1. v = [i \in Nat |-> w[old(i)]]
      <3>1. \A i \in Nat : (IF i < p THEN w[i] ELSE w[i+1]) = w[old(i)]
        OBVIOUS
      <3> QED BY <3>1, Zenon DEF Dropped
    <2> HIDE DEF v, old
    <2> QED BY <1>1, <1>2, <2>1
  <1>8. ASSUME NEW i \in 0..((m-1)-1)
        PROVE  /\ i+1 \in Nat /\ v[i+1] = w[old(i+1)]
               /\ old(i+1) = IF old(i) = p-1 THEN p+1 ELSE old(i)+1
               /\ i # 0 => /\ i-1 \in Nat /\ v[i-1] = w[old(i-1)]
                           /\ old(i-1) = IF old(i) = p+1 THEN p-1 ELSE old(i)-1
                           /\ old(i) # 0
                           /\ old(i) = p+1 => p # 0
               /\ old(i) = 0 => i = 0
               /\ (i = 0 /\ old(i) # 0) => (p = 0 /\ old(i) = p+1)
    <2>1. i \in Nat /\ i+1 \in Nat /\ (i # 0 => i-1 \in Nat)
      BY <1>1
    <2>2. v[i+1] = w[old(i+1)] /\ (i # 0 => v[i-1] = w[old(i-1)])
      <3> HIDE DEF v, old
      <3> QED BY <1>2, <2>1
    <2>3. old(i+1) = IF old(i) = p-1 THEN p+1 ELSE old(i)+1
      BY <1>1, <2>1
    <2>4. i # 0 => /\ old(i-1) = IF old(i) = p+1 THEN p-1 ELSE old(i)-1
                   /\ old(i) # 0
                   /\ old(i) = p+1 => p # 0
      BY <1>1, <2>1
    <2>5. /\ old(i) = 0 => i = 0
          /\ (i = 0 /\ old(i) # 0) => (p = 0 /\ old(i) = p+1)
      BY <1>1, <2>1
    <2> HIDE DEF v, old
    <2> QED BY <2>1, <2>2, <2>3, <2>4, <2>5
  <1>9. head' = v[0]
    BY <1>1 DEF Walk, Dropped
  <1> HIDE DEF v, old
  <1>10. \A i \in Nat : v[i] = NULL <=> m-1 <= i
    BY <1>2, <1>3 DEF Walk
  <1>11. \A i, j \in 0..((m-1)-1) : v[i] = v[j] => i = j
    <2> SUFFICES ASSUME NEW i \in 0..((m-1)-1), NEW j \in 0..((m-1)-1), v[i] = v[j]
                 PROVE  i = j
      OBVIOUS
    <2>1. w[old(i)] = w[old(j)] /\ old(i) \in 0..(m-1) /\ old(j) \in 0..(m-1)
      BY <1>2, <1>4
    <2>2. old(i) = old(j)
      BY <2>1 DEF Walk
    <2> QED BY <1>4, <1>5, <2>2
  <1>12. live' = {v[i] : i \in 0..((m-1)-1)}
    <2>1. ASSUME NEW x \in live' PROVE \E i \in 0..((m-1)-1) : x = v[i]
      <3>1. PICK l \in 0..(m-1) : x = w[l]
        BY DEF Walk
      <3>2. l # p
        BY <3>1
      <3>3. PICK i \in 0..((m-1)-1) : l = old(i)
        BY <1>6, <3>2
      <3> QED BY <1>2, <1>4, <3>1, <3>3
    <2>2. ASSUME NEW i \in 0..((m-1)-1) PROVE v[i] \in live'
      <3>1. v[i] = w[old(i)] /\ old(i) \in 0..(m-1) /\ old(i) # p
        BY <1>2, <1>4
      <3>2. w[old(i)] \in live
        BY <3>1 DEF Walk
      <3>3. w[old(i)] # w[p]
        BY <3>1 DEF Walk
      <3> QED BY <3>1, <3>2, <3>3
    <2> QED BY <2>1, <2>2
  <1>13. ASSUME NEW i \in 0..((m-1)-1) PROVE next'[v[i]] = v[i+1]
    <2>1. v[i] = w[old(i)] /\ old(i) \in 0..(m-1) /\ old(i) # p
      BY <1>2, <1>4
    <2>2. next'[w[old(i)]] = IF old(i) = p-1 THEN w[p+1] ELSE next[w[old(i)]]
      BY <2>1
    <2>3. next[w[old(i)]] = w[old(i)+1]
      BY <2>1 DEF Walk
    <2> QED BY <1>8, <2>1, <2>2, <2>3
  <1>14. ASSUME NEW i \in 0..((m-1)-1) PROVE prev'[v[i]] = IF i = 0 THEN NULL ELSE v[i-1]
    <2>1. v[i] = w[old(i)] /\ old(i) \in 0..(m-1) /\ old(i) # p
      BY <1>2, <1>4
    <2>2. prev'[w[old(i)]] = IF old(i) = p+1 THEN prev[w[p]] ELSE prev[w[old(i)]]
      BY <2>1
    <2>3. prev[w[old(i)]] = IF old(i) = 0 THEN NULL ELSE w[old(i)-1]
      BY <2>1 DEF Walk
    <2>4. prev[w[p]] = IF p = 0 THEN NULL ELSE w[p-1]
      BY DEF Walk
    <2>5. CASE i = 0
      BY <1>8, <2>1, <2>2, <2>3, <2>4, <2>5
    <2>6. CASE i # 0
      BY <1>8, <2>1, <2>2, <2>3, <2>4, <2>6
    <2> QED BY <2>5, <2>6
  <1> QED BY <1>1, <1>7, <1>9, <1>10, <1>11, <1>12, <1>13, <1>14 DEF Walk, v

-----------------------------------------------------------------------------
(* The operations.                                                         *)

\* An index is found where dplist.h says.
LEMMA Reference ==
    ASSUME NEW m, NEW w, Walk(m, w), NEW i \in Int
    PROVE  /\ Clamped(i, m) \in 0..m
           /\ head = NULL <=> m = 0
           /\ m # 0 => /\ Clamped(i, m-1) \in 0..(m-1)
                       /\ dpl_get_reference_at_index(i) = w[Clamped(i, m-1)]
  <1>1. m \in Nat /\ dpl_size = m /\ Nth = w
    BY WalkFits, WalkIsList
  <1>2. head = NULL <=> m = 0
    BY <1>1 DEF Walk
  <1> QED BY <1>1, <1>2 DEF Clamped, dpl_get_reference_at_index

\* Both assertions hold, and a node is taken in where the index says.
LEMMA InsertStep ==
    ASSUME Types, NEW m, NEW w, Walk(m, w),
           NEW i \in Int, NEW k \in Key, dpl_insert_at_index(i, k)
    PROVE  \E n \in Node \ live :
             /\ Walk(m+1, Spliced(w, Clamped(i, m), n))'
             /\ key' = [key EXCEPT ![n] = k]
             /\ Types' /\ UNCHANGED <<state, size, turn>>
  <1> DEFINE r == dpl_get_reference_at_index(i)
             p == Clamped(i, m)
  <1>1. PICK n \in Node \ live :
          /\ key' = [key EXCEPT ![n] = k]
          /\ live' = live \cup {n}
          /\ IF head # NULL /\ i > 0 /\ ~Asserted(i, r)
               THEN state' = "aborted" /\ UNCHANGED <<head, prev, next>>
               ELSE Link(n, i) /\ UNCHANGED state
    BY DEF dpl_insert_at_index
  <1>2. /\ m \in Nat /\ dpl_size = m /\ p \in 0..m /\ (head = NULL <=> m = 0)
        /\ m # 0 => Clamped(i, m-1) \in 0..(m-1) /\ r = w[Clamped(i, m-1)]
    BY Reference, WalkFits, WalkIsList
  <1>3. /\ \A l \in 0..(m-1) : w[l] \in Node /\ w[l] # n
        /\ \A l, j \in 0..(m-1) : w[l] = w[j] => l = j
        /\ \A l \in Nat : w[l] = NULL <=> m <= l
        /\ head = w[0] /\ NULL \notin Node
        /\ \A l \in 0..(m-1) : /\ next[w[l]] = w[l+1]
                               /\ prev[w[l]] = IF l = 0 THEN NULL ELSE w[l-1]
    BY WalkFits, ListAssumption DEF Walk
  <1>4. prev \in [Node -> Addr] /\ next \in [Node -> Addr]
        /\ \A l \in Nat : w[l] \in Addr
    BY DEF Types, Walk
  <1>5. Addr = Node \cup {NULL}
    BY DEF Addr
  <1>6. head # NULL /\ i > 0 => Asserted(i, r)
    <2> SUFFICES ASSUME head # NULL, i > 0 PROVE Asserted(i, r)
      OBVIOUS
    <2>1. Clamped(i, m-1) \in 0..(m-1) /\ r = w[Clamped(i, m-1)]
      BY <1>2
    <2>2. r # NULL
      BY <1>3, <2>1
    <2>3. i >= m => next[r] = NULL
      <3> SUFFICES ASSUME i >= m PROVE next[r] = NULL
        OBVIOUS
      <3>1. Clamped(i, m-1) = m-1
        BY <1>2 DEF Clamped
      <3>2. next[w[m-1]] = w[(m-1)+1] /\ (m-1)+1 = m
        BY <1>2, <1>3, <2>1, <3>1
      <3> QED BY <1>2, <1>3, <2>1, <3>1, <3>2
    <2> QED BY <1>2, <2>2, <2>3 DEF Asserted
  <1>7. Link(n, i) /\ UNCHANGED state
    BY <1>1, <1>6
  <1>0. live' = live \cup {n}
    BY <1>1
  <1> DEFINE Ok == /\ prev' \in [Node -> Addr] /\ next' \in [Node -> Addr]
                   /\ Walk(m+1, Spliced(w, p, n))'
  <1>8. ASSUME head = NULL /\ LinkAlone(n) PROVE Ok
    <2>1. m = 0 /\ p = 0
      BY <1>2, <1>8
    <2>2. next'[n] = w[p] /\ prev'[n] = NULL /\ head' = n
      BY <1>3, <1>4, <1>8, <2>1 DEF LinkAlone
    <2>3. Walk(m+1, Spliced(w, p, n))'
      <3>1. \A l \in 0..(m-1) : FALSE
        BY <2>1
      <3>2. head' = (IF p = 0 THEN n ELSE head) /\ prev'[n] = IF p = 0 THEN NULL ELSE w[p-1]
        BY <2>1, <2>2
      <3>3. p \in 0..m /\ next'[n] = w[p]
        BY <1>2, <2>2
      <3> HIDE DEF p
      <3> QED BY <1>0, <3>1, <3>2, <3>3, Splice
    <2> QED BY <1>4, <1>5, <1>8, <2>3 DEF LinkAlone
  <1>9. ASSUME head # NULL /\ i <= 0 /\ LinkFirst(n) PROVE Ok
    <2>1. m > 0 /\ p = 0 /\ head = w[0] /\ 0 \in 0..(m-1) /\ w[0] \in Node /\ w[0] # n
      BY <1>2, <1>3, <1>9 DEF Clamped
    <2>2. next'[n] = w[p] /\ prev'[n] = NULL /\ head' = n
      BY <1>3, <1>4, <1>9, <2>1 DEF LinkFirst
    <2>3. \A l \in 0..(m-1) : next'[w[l]] = next[w[l]]
      BY <1>3, <1>4, <1>9 DEF LinkFirst
    <2>4. \A l \in 0..(m-1) : prev'[w[l]] = IF l = p THEN n ELSE prev[w[l]]
      BY <1>3, <1>4, <1>9, <2>1 DEF LinkFirst
    <2>5. Walk(m+1, Spliced(w, p, n))'
      <3>1. \A l \in 0..(m-1) : next'[w[l]] = IF l = p-1 THEN n ELSE next[w[l]]
        BY <2>1, <2>3
      <3>2. head' = (IF p = 0 THEN n ELSE head) /\ prev'[n] = IF p = 0 THEN NULL ELSE w[p-1]
        BY <2>1, <2>2
      <3>3. p \in 0..m /\ next'[n] = w[p]
        BY <1>2, <2>2
      <3> HIDE DEF p
      <3> QED BY <1>0, <2>4, <3>1, <3>2, <3>3, Splice
    <2> QED BY <1>4, <1>5, <1>9, <2>1, <2>5 DEF LinkFirst
  <1>10. ASSUME head # NULL /\ i > 0 /\ i < dpl_size /\ LinkBefore(n, r) PROVE Ok
    <2>1. p = i /\ r = w[i] /\ i \in 0..(m-1) /\ i-1 \in 0..(m-1) /\ p # 0
      BY <1>2, <1>10 DEF Clamped
    <2>2. prev[r] = w[i-1] /\ r \in Node /\ r # n /\ w[i-1] \in Node /\ w[i-1] # n
          /\ w[i-1] # r
      BY <1>3, <2>1
    <2>3. /\ prev' = [prev EXCEPT ![n] = w[i-1], ![r] = n]
          /\ next' = [next EXCEPT ![n] = r, ![w[i-1]] = n]
          /\ head' = head
      BY <1>10, <2>2 DEF LinkBefore
    <2>4. next'[n] = w[p] /\ prev'[n] = w[p-1]
      BY <1>4, <2>1, <2>2, <2>3
    <2>5. \A l \in 0..(m-1) : next'[w[l]] = IF l = p-1 THEN n ELSE next[w[l]]
      BY <1>3, <1>4, <2>1, <2>2, <2>3
    <2>6. \A l \in 0..(m-1) : prev'[w[l]] = IF l = p THEN n ELSE prev[w[l]]
      BY <1>3, <1>4, <2>1, <2>2, <2>3
    <2>7. Walk(m+1, Spliced(w, p, n))'
      <3>1. head' = (IF p = 0 THEN n ELSE head) /\ prev'[n] = IF p = 0 THEN NULL ELSE w[p-1]
        BY <2>1, <2>3, <2>4
      <3>2. p \in 0..m /\ next'[n] = w[p]
        BY <1>2, <2>3, <2>4
      <3> HIDE DEF p
      <3> QED BY <1>0, <2>5, <2>6, <3>1, <3>2, Splice
    <2> QED BY <1>4, <1>5, <2>2, <2>3, <2>7
  <1>11. ASSUME head # NULL /\ i > 0 /\ i >= dpl_size /\ LinkLast(n, r) PROVE Ok
    <2>1. p = m /\ r = w[m-1] /\ m-1 \in 0..(m-1) /\ p # 0 /\ r \in Node /\ r # n
      BY <1>2, <1>3, <1>11 DEF Clamped
    <2>2. next'[n] = w[p] /\ prev'[n] = w[p-1] /\ head' = head
      <3>1. w[p] = NULL
        BY <1>2, <1>3, <2>1
      <3> QED BY <1>3, <1>4, <1>11, <2>1, <3>1 DEF LinkLast
    <2>3. \A l \in 0..(m-1) : next'[w[l]] = IF l = p-1 THEN n ELSE next[w[l]]
      BY <1>3, <1>4, <1>11, <2>1 DEF LinkLast
    <2>4. \A l \in 0..(m-1) : prev'[w[l]] = IF l = p THEN n ELSE prev[w[l]]
      BY <1>2, <1>3, <1>4, <1>11, <2>1 DEF LinkLast
    <2>5. Walk(m+1, Spliced(w, p, n))'
      <3>1. head' = (IF p = 0 THEN n ELSE head) /\ prev'[n] = IF p = 0 THEN NULL ELSE w[p-1]
        BY <2>1, <2>2
      <3>2. p \in 0..m /\ next'[n] = w[p]
        BY <1>2, <2>2
      <3> HIDE DEF p
      <3> QED BY <1>0, <2>3, <2>4, <3>1, <3>2, Splice
    <2> QED BY <1>4, <1>5, <1>11, <2>1, <2>5 DEF LinkLast
  <1>12. Ok
    BY <1>7, <1>8, <1>9, <1>10, <1>11 DEF Link
  <1>13. UNCHANGED <<state, size, turn>>
    BY <1>7 DEF dpl_insert_at_index
  <1>14. key' \in [Node -> Key \cup {NONE}]
    BY <1>1 DEF Types
  <1> QED BY <1>1, <1>12, <1>13, <1>14 DEF Types

\* A removal takes out the node that the index says.
LEMMA RemovedStep ==
    ASSUME Types, NEW m, NEW w, Walk(m, w), NEW i \in Int, Removed(i)
    PROVE  /\ prev' \in [Node -> Addr] /\ next' \in [Node -> Addr]
           /\ m = 0 => Walk(m, w)'
           /\ m # 0 => Walk(m-1, Dropped(w, Clamped(i, m-1)))'
  <1> DEFINE p == Clamped(i, m-1)
             n == w[p]
  <1>1. /\ m \in Nat /\ dpl_size = m /\ Nth = w /\ (m # 0 => p \in 0..(m-1))
    BY Reference, WalkFits, WalkIsList
  <1>2. /\ \A l \in 0..(m-1) : w[l] \in Node
        /\ \A l, j \in 0..(m-1) : w[l] = w[j] => l = j
        /\ \A l \in Nat : (w[l] = NULL <=> m <= l) /\ w[l] \in Addr
        /\ head = w[0] /\ NULL \notin Node
        /\ \A l \in 0..(m-1) : /\ next[w[l]] = w[l+1]
                               /\ prev[w[l]] = IF l = 0 THEN NULL ELSE w[l-1]
    BY WalkFits, ListAssumption DEF Walk
  <1>3. prev \in [Node -> Addr] /\ next \in [Node -> Addr]
    BY DEF Types
  <1>4. Addr = Node \cup {NULL}
    BY DEF Addr
  <1>5. CASE m = 0
    <2>1. UNCHANGED <<head, prev, next, live>>
      BY <1>1, <1>5 DEF Removed
    <2> QED BY <1>3, <1>5, <2>1 DEF Walk
  <1>6. CASE m # 0
    <2>1. /\ \/ p = 0 /\ UnlinkHead(n)
             \/ p # 0 /\ p = m-1 /\ UnlinkLast(n)
             \/ p # 0 /\ p # m-1 /\ UnlinkInner(n)
          /\ live' = live \ {n}
      BY <1>1, <1>6 DEF Removed, RemovedIndex
    <2>2. p \in 0..(m-1) /\ n \in Node
      BY <1>1, <1>2, <1>6
    <2> DEFINE Ok ==
                 /\ prev' \in [Node -> Addr] /\ next' \in [Node -> Addr]
                 /\ head' = IF p = 0 THEN w[1] ELSE head
                 /\ \A l \in 0..(m-1) : l # p =>
                      next'[w[l]] = IF l = p-1 THEN w[p+1] ELSE next[w[l]]
                 /\ \A l \in 0..(m-1) : l # p =>
                      prev'[w[l]] = IF l = p+1 THEN prev[w[p]] ELSE prev[w[l]]
    <2>3. ASSUME p = 0, UnlinkHead(n) PROVE Ok
      <3>1. next[n] = w[1] /\ prev[n] = NULL /\ 1 \in Nat
        BY <1>2, <2>2, <2>3
      <3>2. head' = w[1] /\ next' = [next EXCEPT ![n] = NULL]
            /\ prev' = IF w[1] = NULL THEN prev ELSE [prev EXCEPT ![w[1]] = NULL]
        BY <2>3, <3>1 DEF UnlinkHead
      <3>3. w[1] = NULL \/ (w[1] \in Node /\ 1 \in 0..(m-1))
        BY <1>1, <1>2, <3>1
      <3>4. \A l \in 0..(m-1) : l # p => next'[w[l]] = next[w[l]] /\ l # p-1
        BY <1>2, <1>3, <2>2, <2>3, <3>2
      <3>5. \A l \in 0..(m-1) : l # p =>
                prev'[w[l]] = IF l = p+1 THEN NULL ELSE prev[w[l]]
        <4>1. CASE w[1] = NULL
          <5>1. \A l \in 0..(m-1) : l = p
            BY <1>1, <1>2, <2>3, <3>1, <4>1
          <5> QED BY <5>1
        <4>2. CASE w[1] # NULL
          <5>1. prev' = [prev EXCEPT ![w[1]] = NULL] /\ w[1] \in Node /\ 1 \in 0..(m-1)
            BY <3>2, <3>3, <4>2
          <5>2. \A l \in 0..(m-1) : w[l] = w[1] <=> l = 1
            BY <1>2, <5>1
          <5> QED BY <1>2, <1>3, <2>3, <5>1, <5>2
        <4> QED BY <4>1, <4>2
      <3>6. prev' \in [Node -> Addr] /\ next' \in [Node -> Addr]
        BY <1>3, <1>4, <3>2
      <3> QED BY <2>3, <3>1, <3>2, <3>4, <3>5, <3>6
    <2>4. ASSUME p # 0, p = m-1, UnlinkLast(n) PROVE Ok
      <3>1. p-1 \in 0..(m-1) /\ p-1 # p /\ prev[n] = w[p-1] /\ w[p-1] \in Node /\ w[p+1] = NULL
        BY <1>1, <1>2, <2>2, <2>4
      <3>2. prev' = [prev EXCEPT ![n] = NULL] /\ next' = [next EXCEPT ![w[p-1]] = NULL]
            /\ head' = head
        BY <2>4, <3>1 DEF UnlinkLast
      <3>3. \A l \in 0..(m-1) : w[l] = w[p-1] <=> l = p-1
        BY <1>2, <3>1
      <3>4. \A l \in 0..(m-1) : next'[w[l]] = IF l = p-1 THEN w[p+1] ELSE next[w[l]]
        BY <1>2, <1>3, <3>1, <3>2, <3>3
      <3>5. \A l \in 0..(m-1) : l # p => prev'[w[l]] = prev[w[l]] /\ l # p+1
        <4>1. \A l \in 0..(m-1) : l # p => w[l] # n
          BY <1>2, <2>2
        <4>2. \A l \in 0..(m-1) : l # p+1
          BY <1>1, <2>4
        <4> QED BY <1>2, <1>3, <3>2, <4>1, <4>2
      <3>6. prev' \in [Node -> Addr] /\ next' \in [Node -> Addr]
        BY <1>3, <1>4, <3>2
      <3> HIDE DEF p, n
      <3> QED BY <2>4, <3>2, <3>4, <3>5, <3>6
    <2>5. ASSUME p # 0, p # m-1, UnlinkInner(n) PROVE Ok
      <3>1. /\ p-1 \in 0..(m-1) /\ p+1 \in 0..(m-1) /\ p-1 # p /\ p+1 # p
            /\ prev[n] = w[p-1] /\ next[n] = w[p+1] /\ w[p-1] \in Node /\ w[p+1] \in Node
        BY <1>1, <1>2, <2>2, <2>5
      <3>2. w[p-1] # n /\ w[p+1] # n
        BY <1>2, <2>2, <3>1
      <3>3. prev' = [[prev EXCEPT ![w[p+1]] = prev[n]] EXCEPT ![n] = NULL]
            /\ next' = [next EXCEPT ![w[p-1]] = w[p+1], ![n] = NULL] /\ head' = head
        BY <2>5, <3>1 DEF UnlinkInner, NextPrev
      <3>4. \A l \in 0..(m-1) : /\ w[l] = w[p-1] <=> l = p-1
                                /\ w[l] = w[p+1] <=> l = p+1
                                /\ w[l] = n <=> l = p
        BY <1>2, <2>2, <3>1
      <3> HIDE DEF p, n
      <3>5. \A l \in 0..(m-1) : l # p =>
                next'[w[l]] = IF l = p-1 THEN w[p+1] ELSE next[w[l]]
        BY <1>2, <1>3, <2>2, <3>1, <3>3, <3>4
      <3>6. \A l \in 0..(m-1) : l # p =>
                prev'[w[l]] = IF l = p+1 THEN prev[n] ELSE prev[w[l]]
        BY <1>2, <1>3, <2>2, <3>1, <3>3, <3>4
      <3>7. prev' \in [Node -> Addr] /\ next' \in [Node -> Addr]
        BY <1>3, <1>4, <2>2, <3>1, <3>3
      <3> QED BY <2>5, <3>3, <3>5, <3>6, <3>7 DEF n
    <2>6. Ok
      <3> HIDE DEF p, n, Ok
      <3> QED BY <2>1, <2>3, <2>4, <2>5
    <2>7. Walk(m-1, Dropped(w, p))'
      <3>1. live' = live \ {w[p]}
        BY <2>1
      <3> HIDE DEF p
      <3> QED BY <2>2, <2>6, <3>1, Drop
    <2> QED BY <1>6, <2>6, <2>7
  <1> QED BY <1>5, <1>6

\* What is found by its element is found in the list, and the first of its kind.
LEMMA Found ==
    ASSUME NEW m, NEW w, Walk(m, w), NEW k
    PROVE  \/ /\ dpl_get_index_of_element(k) = -1
              /\ \A i \in 0..(m-1) : key[w[i]] # k
           \/ /\ dpl_get_index_of_element(k) \in 0..(m-1)
              /\ key[w[dpl_get_index_of_element(k)]] = k
              /\ \A i \in 0..(m-1) : key[w[i]] = k => dpl_get_index_of_element(k) <= i
  <1> DEFINE found == {i \in Positions : key[Nth[i]] = k}
  <1>1. Nth = w /\ Positions = 0..(m-1)
    BY WalkIsList
  <1>2. CASE found = {}
    <2>1. dpl_get_index_of_element(k) = -1
      BY <1>2 DEF dpl_get_index_of_element
    <2> QED BY <1>1, <1>2, <2>1
  <1>3. CASE found # {}
    <2>1. dpl_get_index_of_element(k) = Min(found)
      BY <1>3 DEF dpl_get_index_of_element
    <2>2. found \subseteq Nat
      BY <1>1, WalkFits
    <2>3. Min(found) \in found /\ \A i \in found : Min(found) <= i
      BY <1>3, <2>2, MinIsLeast
    <2> QED BY <1>1, <2>1, <2>3
  <1> QED BY <1>2, <1>3

\* Which operation on the list a step is.
LEMMA Families ==
    ASSUME PInv, [Next]_listVars
    PROVE  \/ \E i \in Int, k \in Key : dpl_insert_at_index(i, k)
           \/ \E i \in Int : dpl_remove_at_index(i)
           \/ FreeBegins \/ FreeOne \/ FreeEnds
           \/ UNCHANGED listVars
  <1>1. PICK m, w : Walk(m, w)
    BY DEF PInv
  <1>2. \A k : dpl_get_index_of_element(k) \in Int
    <2> TAKE k
    <2>1. m \in Nat
      BY <1>1, WalkFits
    <2> DEFINE x == dpl_get_index_of_element(k)
    <2>2. x = -1 \/ x \in 0..(m-1)
      BY <1>1, Found, Zenon
    <2> HIDE DEF x
    <2>3. x \in Int
      BY <2>1, <2>2
    <2> QED BY <2>3 DEF x
  <1>3. \A n : dpl_get_index_of_reference(n) \in Int
    BY <1>2, Zenon DEF dpl_get_index_of_reference
  <1>4. \A i \in Indices : i \in Int
    <2>1. Cardinality(Node) \in Nat
      BY <1>1, WalkFits
    <2> QED BY <2>1 DEF Indices
  <1>5. ASSUME NEW n \in Node, NEW k \in Key, dpl_insert_at_reference(n, k)
        PROVE  \E i \in Int : dpl_insert_at_index(i, k)
    BY <1>3, <1>5, Zenon DEF dpl_insert_at_reference
  <1>6. ASSUME NEW n \in Node, dpl_remove_at_reference(n)
        PROVE  \E i \in Int : dpl_remove_at_index(i)
    BY <1>3, <1>6, Zenon DEF dpl_remove_at_reference
  <1>7. ASSUME NEW k \in Key, dpl_remove_element(k)
        PROVE  \E i \in Int : dpl_remove_at_index(i)
    BY <1>2, <1>7, Zenon DEF dpl_remove_element
  <1> QED BY <1>4, <1>5, <1>6, <1>7, Zenon DEF Next, Over

\* The empty list is a walk of no steps.
LEMMA InitPInv == Init => PInv
  <1> SUFFICES ASSUME Init PROVE PInv
    OBVIOUS
  <1> DEFINE w == [i \in Nat |-> NULL]
  <1>1. Walk(0, w)
    <2>1. 0..(0-1) = {}
      OBVIOUS
    <2> QED BY <2>1 DEF Walk, Init, Addr
  <1>2. Types
    <2>1. Cardinality(Node) \in Nat
      BY ListAssumption, FS_CardinalityType
    <2> QED BY <2>1 DEF Types, Init, Addr
  <1>3. Remaining(0)
    BY DEF Remaining, Init
  <1> HIDE DEF w
  <1> QED BY <1>1, <1>2, <1>3 DEF PInv

\* Every step keeps a walk of the list.
LEMMA NextPInv == PInv /\ [Next]_listVars => PInv'
  <1> SUFFICES ASSUME PInv, [Next]_listVars PROVE PInv'
    OBVIOUS
  <1>1. PICK m, w : Walk(m, w) /\ Remaining(m)
    BY DEF PInv
  <1>2. Types /\ m \in Nat /\ dpl_size = m /\ m <= Cardinality(Node)
    BY <1>1, WalkFits, WalkIsList DEF PInv
  <1>3. ASSUME NEW i \in Int, NEW k \in Key, dpl_insert_at_index(i, k) PROVE PInv'
    <2>1. PICK n \in Node \ live :
            /\ Walk(m+1, Spliced(w, Clamped(i, m), n))'
            /\ Types' /\ UNCHANGED <<state, size, turn>>
      BY <1>1, <1>2, <1>3, InsertStep
    <2>2. state = "list"
      BY <1>3 DEF dpl_insert_at_index
    <2>3. Remaining(m+1)'
      BY <2>1, <2>2 DEF Remaining
    <2> QED BY <2>1, <2>3 DEF PInv
  <1>4. ASSUME NEW i \in Int, Removed(i), UNCHANGED key, 
               state' \in {"list", "freeing", "gone"},
               size' = size, turn' \in 0..size,
               m = 0 => Remaining(m)', m # 0 => Remaining(m-1)'
        PROVE  PInv'
    <2>1. /\ prev' \in [Node -> Addr] /\ next' \in [Node -> Addr]
          /\ m = 0 => Walk(m, w)'
          /\ m # 0 => Walk(m-1, Dropped(w, Clamped(i, m-1)))'
      BY <1>1, <1>2, <1>4, RemovedStep
    <2>2. Types'
      BY <1>2, <1>4, <2>1 DEF Types
    <2>3. CASE m = 0
      BY <1>4, <2>1, <2>2, <2>3 DEF PInv
    <2>4. CASE m # 0
      BY <1>4, <2>1, <2>2, <2>4 DEF PInv
    <2> QED BY <2>3, <2>4
  <1>5. ASSUME NEW i \in Int, dpl_remove_at_index(i) PROVE PInv'
    <2>1. Removed(i) /\ UNCHANGED <<key, state, size, turn>> /\ state = "list"
      BY <1>5 DEF dpl_remove_at_index
    <2>2. Remaining(m)' /\ Remaining(m-1)'
      BY <2>1 DEF Remaining
    <2> QED BY <1>2, <1>4, <2>1, <2>2 DEF Types
  <1>6. ASSUME UNCHANGED <<head, prev, next, live>>, Types', Remaining(m)' PROVE PInv'
    <2>1. Walk(m, w)'
      BY <1>1, <1>6 DEF Walk
    <2> QED BY <1>6, <2>1 DEF PInv
  <1>7. CASE FreeBegins
    <2>1. Types'
      BY <1>2, <1>7 DEF FreeBegins, Types
    <2>2. Remaining(m)'
      BY <1>2, <1>7 DEF FreeBegins, Remaining
    <2> QED BY <1>6, <1>7, <2>1, <2>2 DEF FreeBegins
  <1>8. CASE FreeOne
    <2>1. /\ Removed(size) /\ turn' = turn + 1 /\ UNCHANGED <<key, state, size>>
          /\ state = "freeing" /\ turn < size
      BY <1>8 DEF FreeOne, MoreToFree
    <2>2. size \in Nat /\ turn \in Nat /\ size \in Int
      BY <1>2, <2>1 DEF Types
    <2>3. m = size - turn /\ m # 0
      BY <1>1, <2>1, <2>2 DEF Remaining
    <2>4. turn' \in 0..size
      BY <2>1, <2>2
    <2>5. Remaining(m-1)'
      BY <2>1, <2>2, <2>3 DEF Remaining
    <2>6. state' \in {"list", "freeing", "gone"}
      BY <2>1
    <2> QED BY <1>4, <2>1, <2>2, <2>3, <2>4, <2>5, <2>6
  <1>9. CASE FreeEnds
    <2>1. state = "freeing" /\ ~(turn < size) /\ state' = "gone"
          /\ UNCHANGED <<head, prev, next, key, live, size, turn>>
      BY <1>9 DEF FreeEnds, MoreToFree
    <2>2. m = 0
      BY <1>1, <1>2, <2>1 DEF Remaining, Types
    <2>3. Types' /\ Remaining(m)'
      BY <1>2, <2>1, <2>2 DEF Types, Remaining
    <2> QED BY <1>6, <2>1, <2>3
  <1>10. CASE UNCHANGED listVars
    <2>1. Types' /\ Remaining(m)' /\ UNCHANGED <<head, prev, next, live>>
      BY <1>1, <1>2, <1>10 DEF Types, Remaining, listVars
    <2> QED BY <1>6, <2>1
  <1> QED BY <1>3, <1>5, <1>7, <1>8, <1>9, <1>10, Families

\* So there always is one.
LEMMA PInvHolds == Spec => []PInv
  <1> QED BY InitPInv, NextPInv, PTL DEF Spec

\* What a walk says of the links.
LEMMA PInvWellLinked == PInv => WellLinked
  <1> SUFFICES ASSUME PInv PROVE WellLinked
    OBVIOUS
  <1>1. PICK m, w : Walk(m, w) /\ Remaining(m)
    BY DEF PInv
  <1>2. /\ m \in Nat /\ dpl_size = m /\ Nth = w /\ Positions = 0..(m-1)
        /\ InList = live /\ live \subseteq Node
    BY <1>1, WalkFits, WalkIsList
  <1>3. TypeOK
    BY <1>1, <1>2 DEF PInv, Types, TypeOK, Walk
  <1>4. ASSUME NEW i \in Positions
        PROVE  /\ prev[Nth[i]] = (IF i = 0 THEN NULL ELSE Nth[i-1])
               /\ Nth[i+1] = NULL <=> i = dpl_size - 1
    BY <1>1, <1>2 DEF Walk
  <1>5. state = "gone" => live = {}
    BY <1>1, <1>2 DEF Walk, Remaining
  <1> QED BY <1>2, <1>3, <1>4, <1>5 DEF WellLinked

\* After any sequence of insertions and removals, at whatever index and on memory
\* that is used again, the links are whole, dplist.c's two assertions have held,
\* and after dpl_free no node is left.
THEOREM LinksStayWhole == Spec => []WellLinked
  <1> QED BY PInvHolds, PInvWellLinked, PTL

-----------------------------------------------------------------------------
(* References.                                                             *)

\* An element is found at the first place of its kind: at its own exactly if it has
\* no equal before it.
LEMMA FoundAgain ==
    ASSUME NEW m, NEW w, Walk(m, w), NEW i \in 0..(m-1)
    PROVE  /\ dpl_get_index_of_element(key[w[i]]) \in 0..i
           /\ dpl_get_index_of_element(key[w[i]]) = i <=> FirstOfKind(i)
  <1>1. PICK k : k = key[w[i]]
    OBVIOUS
  <1> DEFINE x == dpl_get_index_of_element(k)
  <1>2. \/ x = -1 /\ \A j \in 0..(m-1) : key[w[j]] # k
        \/ x \in 0..(m-1) /\ key[w[x]] = k /\ \A j \in 0..(m-1) : key[w[j]] = k => x <= j
    BY Found
  <1> HIDE DEF x
  <1>3. x \in 0..(m-1) /\ key[w[x]] = k /\ \A j \in 0..(m-1) : key[w[j]] = k => x <= j
    BY <1>1, <1>2
  <1>4. m \in Nat /\ Nth = w
    BY WalkFits, WalkIsList
  <1>5. x <= i /\ x \in 0..i
    BY <1>1, <1>3, <1>4
  <1>6. ASSUME x = i, NEW j \in 0..(i-1) PROVE key[w[j]] # k
    <2>1. j \in 0..(m-1) /\ ~(i <= j)
      BY <1>4
    <2> QED BY <1>3, <1>6, <2>1
  <1>7. ASSUME x # i PROVE \E j \in 0..(i-1) : key[w[j]] = k
    <2>1. x \in 0..(i-1)
      BY <1>4, <1>5, <1>7
    <2> QED BY <1>3, <2>1
  <1> QED BY <1>1, <1>4, <1>5, <1>6, <1>7 DEF x, FirstOfKind

\* The way from a node to its element, to an index and back ends at the first node
\* of its kind, and next and previous at that one's neighbours.
LEMMA PInvReferences == PInv => ReferencesWork
  <1> SUFFICES ASSUME PInv, NEW i \in Positions
               PROVE  LET n == Nth[i] IN
                      /\ dpl_get_index_of_reference(n) \in 0..i
                      /\ dpl_get_index_of_reference(n) = i <=> FirstOfKind(i)
                      /\ dpl_get_reference_of_element(key[n]) = n <=> FirstOfKind(i)
                      /\ dpl_get_element_at_index(i) = key[n]
                      /\ dpl_get_next_reference(n) = next[n]
                           <=> FirstOfKind(i) /\ next[n] # NULL
                      /\ FirstOfKind(i) =>
                           (dpl_get_previous_reference(n) = prev[n] <=> prev[n] # NULL)
                      /\ dpl_get_first_reference = head
                      /\ next[dpl_get_last_reference] = NULL
    BY DEF ReferencesWork
  <1>1. PICK m, w : Walk(m, w)
    BY DEF PInv
  <1> DEFINE n == w[i]
             f == dpl_get_index_of_reference(n)
  <1>2. /\ m \in Nat /\ dpl_size = m /\ Nth = w /\ Positions = 0..(m-1)
        /\ InList = live /\ n \in live /\ m # 0
    BY <1>1, WalkFits, WalkIsList
  <1>3. /\ head = w[0] /\ \A j \in Nat : w[j] = NULL <=> m <= j
        /\ \A j, l \in 0..(m-1) : w[j] = w[l] => j = l
        /\ next[n] = w[i+1] /\ prev[n] = IF i = 0 THEN NULL ELSE w[i-1]
        /\ next[w[m-1]] = w[(m-1)+1]
    BY <1>1, <1>2 DEF Walk
  <1>4. \A j \in Int : dpl_get_reference_at_index(j) = w[Clamped(j, m-1)]
    BY <1>1, <1>2, Reference
  <1>5. i \in 0..(m-1) /\ i \in Int /\ 0 \in Int /\ m \in Int
    BY <1>2
  <1>6. f = dpl_get_index_of_element(key[n])
    BY <1>2 DEF dpl_get_index_of_reference, dpl_get_element_at_reference
  <1>7. f \in 0..i /\ (f = i <=> FirstOfKind(i))
    BY <1>1, <1>2, <1>6, FoundAgain
  <1> HIDE DEF f
  <1>8. f \in Int /\ f+1 \in Int /\ f-1 \in Int /\ f \in 0..(m-1)
    BY <1>2, <1>5, <1>7
  <1>9. dpl_get_reference_of_element(key[n]) = n <=> FirstOfKind(i)
    <2>1. Clamped(f, m-1) = f
      BY <1>2, <1>8 DEF Clamped
    <2>2. dpl_get_reference_of_element(key[n]) = w[f]
      BY <1>4, <1>6, <1>8, <2>1 DEF dpl_get_reference_of_element
    <2> QED BY <1>3, <1>5, <1>7, <1>8, <2>2
  <1>10. dpl_get_element_at_index(i) = key[n]
    <2>1. Clamped(i, m-1) = i
      BY <1>2 DEF Clamped
    <2> QED BY <1>2, <2>1 DEF dpl_get_element_at_index
  <1>11. dpl_get_next_reference(n) = next[n] <=> FirstOfKind(i) /\ next[n] # NULL
    <2>1. dpl_get_next_reference(n) = w[Clamped(f+1, m-1)]
      BY <1>4, <1>8 DEF dpl_get_next_reference, f
    <2>2. Clamped(f+1, m-1) = IF m <= f+1 THEN m-1 ELSE f+1
      BY <1>2, <1>8 DEF Clamped
    <2>3. next[n] = NULL <=> m <= i+1
      BY <1>2, <1>3, <1>5
    <2>4. CASE m <= i+1
      <3>1. Clamped(f+1, m-1) \in Nat /\ ~(m <= Clamped(f+1, m-1))
        BY <1>2, <1>8, <2>2
      <3> QED BY <1>3, <2>1, <2>3, <2>4, <3>1
    <2>5. CASE ~(m <= i+1)
      <3>1. f+1 \in 0..(m-1) /\ i+1 \in 0..(m-1) /\ Clamped(f+1, m-1) = f+1
        BY <1>2, <1>5, <1>7, <2>2, <2>5
      <3>2. w[f+1] = w[i+1] <=> f+1 = i+1
        BY <1>3, <3>1
      <3>3. f+1 = i+1 <=> f = i
        BY <1>5, <1>8
      <3> QED BY <1>3, <1>7, <2>1, <2>3, <2>5, <3>1, <3>2, <3>3
    <2> QED BY <2>4, <2>5
  <1>12. ASSUME FirstOfKind(i)
         PROVE  dpl_get_previous_reference(n) = prev[n] <=> prev[n] # NULL
    <2>1. dpl_get_previous_reference(n) = w[Clamped(i-1, m-1)]
      BY <1>4, <1>7, <1>8, <1>12 DEF dpl_get_previous_reference, f
    <2>2. Clamped(i-1, m-1) = IF i = 0 THEN i ELSE i-1
      BY <1>2 DEF Clamped
    <2>3. w[Clamped(i-1, m-1)] # NULL
      BY <1>2, <1>3, <1>5, <2>2
    <2> QED BY <1>3, <2>1, <2>2, <2>3
  <1>13. dpl_get_first_reference = head
    <2>1. Clamped(0, m-1) = 0
      BY <1>2 DEF Clamped
    <2> QED BY <1>3, <1>4, <1>5, <2>1 DEF dpl_get_first_reference
  <1>14. next[dpl_get_last_reference] = NULL
    <2>1. Clamped(m, m-1) = m-1 /\ (m-1)+1 = m
      BY <1>2 DEF Clamped
    <2>2. dpl_get_last_reference = w[m-1]
      BY <1>2, <1>4, <1>5, <2>1 DEF dpl_get_last_reference
    <2> QED BY <1>2, <1>3, <2>1, <2>2
  <1> HIDE DEF n
  <1> QED BY <1>2, <1>7, <1>9, <1>10, <1>11, <1>12, <1>13, <1>14 DEF n, f

\* After any sequence of calls: the operators that take or return a reference agree
\* with the links exactly for a node that is the first of those with equal elements,
\* next and previous only where there is such a neighbour.
THEOREM ReferencesFindTheirNodes == Spec => []ReferencesWork
  <1> QED BY PInvHolds, PInvReferences, PTL

-----------------------------------------------------------------------------
(* The contract.                                                           *)

Elem == Key \cup {NONE}

\* An element more at place i of a sequence, element by element.
LEMMA InsertAtIs ==
    ASSUME NEW s \in Seq(Elem), NEW e \in Elem, NEW i \in 1..Len(s)+1
    PROVE  /\ InsertAt(s, i, e) \in Seq(Elem)
           /\ Len(InsertAt(s, i, e)) = Len(s) + 1
           /\ \A j \in 1..Len(s)+1 : InsertAt(s, i, e)[j] =
                IF j < i THEN s[j] ELSE IF j = i THEN e ELSE s[j-1]
  <1> DEFINE a == SubSeq(s, 1, i-1)
             b == SubSeq(s, i, Len(s))
             c == <<e>>
  <1>1. Len(s) \in Nat /\ i \in Nat /\ 1 \in Int /\ i-1 \in Int /\ i \in Int /\ Len(s) \in Int
        /\ \A j \in 1..Len(s) : s[j] \in Elem
    OBVIOUS
  <1>2. /\ a \in Seq(Elem) /\ Len(a) = i-1
        /\ \A j \in 1..(i-1) : a[j] = s[j]
    <2>1. \A j \in 1..(i-1) : s[j] \in Elem
      BY <1>1
    <2>2. /\ a \in Seq(Elem) /\ Len(a) = IF 1 <= i-1 THEN (i-1)-1+1 ELSE 0
          /\ \A j \in 1..(i-1)-1+1 : a[j] = s[1+j-1]
      BY <1>1, <2>1, SubSeqProperties
    <2> HIDE DEF a
    <2> QED BY <1>1, <2>2
  <1>3. /\ b \in Seq(Elem) /\ Len(b) = Len(s)-i+1
        /\ \A j \in 1..(Len(s)-i+1) : b[j] = s[i+j-1]
    <2>1. \A j \in i..Len(s) : s[j] \in Elem
      BY <1>1
    <2>2. /\ b \in Seq(Elem) /\ Len(b) = IF i <= Len(s) THEN Len(s)-i+1 ELSE 0
          /\ \A j \in 1..Len(s)-i+1 : b[j] = s[i+j-1]
      BY <1>1, <2>1, SubSeqProperties
    <2> HIDE DEF b
    <2> QED BY <1>1, <2>2
  <1>4. c \in Seq(Elem) /\ Len(c) = 1 /\ c[1] = e
    OBVIOUS
  <1>5. InsertAt(s, i, e) = (a \o c) \o b
    BY DEF InsertAt
  <1> HIDE DEF a, b, c
  <1> DEFINE d == a \o c
  <1>6. /\ d \in Seq(Elem) /\ Len(d) = Len(a) + Len(c)
        /\ \A j \in 1..Len(a)+Len(c) : d[j] = IF j <= Len(a) THEN a[j] ELSE c[j-Len(a)]
    BY <1>2, <1>4, ConcatProperties
  <1> HIDE DEF d
  <1>7. /\ d \o b \in Seq(Elem) /\ Len(d \o b) = Len(d) + Len(b)
        /\ \A j \in 1..Len(d)+Len(b) : (d \o b)[j] = IF j <= Len(d) THEN d[j] ELSE b[j-Len(d)]
    <2>1. d \in Seq(Elem) /\ b \in Seq(Elem)
      BY <1>3, <1>6
    <2> QED BY <2>1, ConcatProperties
  <1> DEFINE f == d \o b
  <1>8. f \in Seq(Elem) /\ Len(f) = Len(d) + Len(b)
        /\ \A j \in 1..Len(d)+Len(b) : f[j] = IF j <= Len(d) THEN d[j] ELSE b[j-Len(d)]
    BY <1>7
  <1>9. InsertAt(s, i, e) = f
    BY <1>5 DEF d
  <1> HIDE DEF f
  <1>10. Len(f) = Len(s)+1 /\ Len(d) = i
    BY <1>1, <1>2, <1>3, <1>4, <1>6, <1>8
  <1>11. ASSUME NEW j \in 1..Len(s)+1
         PROVE  f[j] = IF j < i THEN s[j] ELSE IF j = i THEN e ELSE s[j-1]
    <2>1. f[j] = IF j <= i THEN d[j] ELSE b[j-i]
      BY <1>1, <1>8, <1>10
    <2>2. CASE j < i
      BY <1>1, <1>2, <1>4, <1>6, <2>1, <2>2
    <2>3. CASE j = i
      <3>1. j-Len(a) = 1 /\ ~(j <= Len(a)) /\ j \in 1..Len(a)+Len(c)
        BY <1>1, <1>2, <1>4, <2>3
      <3> QED BY <1>1, <1>4, <1>6, <2>1, <2>3, <3>1
    <2>4. CASE j > i
      <3>1. j-i \in 1..(Len(s)-i+1) /\ i+(j-i)-1 = j-1
        BY <1>1, <2>4
      <3>2. b[j-i] = s[j-1]
        BY <1>3, <3>1
      <3> QED BY <1>1, <2>1, <2>4, <3>2
    <2> QED BY <1>1, <2>2, <2>3, <2>4
  <1> QED BY <1>8, <1>9, <1>10, <1>11

\* One less.
LEMMA RemoveAtIs ==
    ASSUME NEW s \in Seq(Elem), NEW i \in 1..Len(s)
    PROVE  /\ RemoveAt(s, i) \in Seq(Elem)
           /\ Len(RemoveAt(s, i)) = Len(s) - 1
           /\ \A j \in 1..Len(s)-1 : RemoveAt(s, i)[j] = IF j < i THEN s[j] ELSE s[j+1]
  <1> DEFINE a == SubSeq(s, 1, i-1)
             b == SubSeq(s, i+1, Len(s))
  <1>1. /\ Len(s) \in Nat /\ i \in Nat /\ i <= Len(s) /\ 1 <= i
        /\ 1 \in Int /\ i-1 \in Int /\ i+1 \in Int /\ Len(s) \in Int
        /\ \A j \in 1..Len(s) : s[j] \in Elem
    OBVIOUS
  <1>2. /\ a \in Seq(Elem) /\ Len(a) = i-1
        /\ \A j \in 1..(i-1) : a[j] = s[j]
    <2>1. \A j \in 1..(i-1) : s[j] \in Elem
      BY <1>1
    <2>2. /\ a \in Seq(Elem) /\ Len(a) = IF 1 <= i-1 THEN (i-1)-1+1 ELSE 0
          /\ \A j \in 1..(i-1)-1+1 : a[j] = s[1+j-1]
      BY <1>1, <2>1, SubSeqProperties
    <2> HIDE DEF a
    <2> QED BY <1>1, <2>2
  <1>3. /\ b \in Seq(Elem) /\ Len(b) = Len(s)-i
        /\ \A j \in 1..(Len(s)-i) : b[j] = s[i+j]
    <2>1. \A j \in i+1..Len(s) : s[j] \in Elem
      BY <1>1
    <2>2. /\ b \in Seq(Elem) /\ Len(b) = IF i+1 <= Len(s) THEN Len(s)-(i+1)+1 ELSE 0
          /\ \A j \in 1..Len(s)-(i+1)+1 : b[j] = s[(i+1)+j-1]
      BY <1>1, <2>1, SubSeqProperties
    <2> HIDE DEF b
    <2> QED BY <1>1, <2>2
  <1>4. RemoveAt(s, i) = a \o b
    BY DEF RemoveAt
  <1> HIDE DEF a, b
  <1> DEFINE f == a \o b
  <1>5. /\ f \in Seq(Elem) /\ Len(f) = Len(a) + Len(b)
        /\ \A j \in 1..Len(a)+Len(b) : f[j] = IF j <= Len(a) THEN a[j] ELSE b[j-Len(a)]
    <2>1. a \in Seq(Elem) /\ b \in Seq(Elem)
      BY <1>2, <1>3
    <2> QED BY <2>1, ConcatProperties
  <1>6. RemoveAt(s, i) = f
    BY <1>4
  <1> HIDE DEF f
  <1>7. Len(f) = Len(s)-1
    BY <1>1, <1>2, <1>3, <1>5
  <1>8. ASSUME NEW j \in 1..Len(s)-1 PROVE f[j] = IF j < i THEN s[j] ELSE s[j+1]
    <2>1. f[j] = IF j <= i-1 THEN a[j] ELSE b[j-(i-1)]
      BY <1>1, <1>2, <1>3, <1>5
    <2>2. CASE j < i
      BY <1>1, <1>2, <2>1, <2>2
    <2>3. CASE ~(j < i)
      <3>1. j-(i-1) \in 1..(Len(s)-i) /\ i+(j-(i-1)) = j+1
        BY <1>1, <2>3
      <3>2. b[j-(i-1)] = s[j+1]
        BY <1>3, <3>1
      <3> QED BY <1>1, <2>1, <2>3, <3>2
    <2> QED BY <2>2, <2>3
  <1> QED BY <1>5, <1>6, <1>7, <1>8

\* The list, as its users see it, along a walk.
ElementsAlong ==
    \A m, w : Types /\ Walk(m, w) =>
        /\ Elements \in Seq(Elem) /\ Len(Elements) = m
        /\ \A j \in 1..m : Elements[j] = key[w[j-1]]

\* In every state the elements are those of the nodes of the walk.
LEMMA ElementsAre == ElementsAlong
  <1> SUFFICES ASSUME NEW m, NEW w, Types, Walk(m, w)
               PROVE  /\ Elements \in Seq(Elem) /\ Len(Elements) = m
                      /\ \A j \in 1..m : Elements[j] = key[w[j-1]]
    BY DEF ElementsAlong
  <1>1. m \in Nat /\ dpl_size = m /\ Nth = w /\ \A j \in 1..m : key[w[j-1]] \in Elem
    BY WalkFits, WalkIsList DEF Types, Elem
  <1>2. Elements = [j \in 1..m |-> key[w[j-1]]]
    BY <1>1 DEF Elements
  <1> QED BY <1>1, <1>2

\* An insertion is an insertion in the sequence.
LEMMA InsertContract ==
    ASSUME PInv, NEW i \in Int, NEW k \in Key, dpl_insert_at_index(i, k)
    PROVE  Elements' = InsertAt(Elements, Clamped(i, Len(Elements)) + 1, k)
  <1>1. PICK m, w : Walk(m, w)
    BY DEF PInv
  <1>2. Types /\ m \in Nat
    BY <1>1, WalkFits DEF PInv
  <1> DEFINE p == Clamped(i, m)
  <1>3. PICK n \in Node \ live :
          Walk(m+1, Spliced(w, p, n))' /\ key' = [key EXCEPT ![n] = k] /\ Types'
    BY <1>1, <1>2, InsertStep
  <1> DEFINE s == Elements
             t == Elements'
             v == Spliced(w, p, n)
             u == InsertAt(s, p+1, k)
  <1>4. p \in 0..m
    BY <1>1, Reference
  <1>5. s \in Seq(Elem) /\ Len(s) = m /\ \A j \in 1..m : s[j] = key[w[j-1]]
    BY <1>1, <1>2, ElementsAre DEF ElementsAlong
  <1>6. t \in Seq(Elem) /\ Len(t) = m+1 /\ \A j \in 1..m+1 : t[j] = key'[v[j-1]]
    <2>1. ElementsAlong'
      BY ElementsAre, PTL
    <2> HIDE DEF v
    <2> QED BY <1>3, <2>1 DEF ElementsAlong, v
  <1>7. \A j \in Nat : v[j] = IF j < p THEN w[j] ELSE IF j = p THEN n ELSE w[j-1]
    BY DEF Spliced
  <1>8. \A j \in 0..(m-1) : w[j] \in Node /\ w[j] # n
    BY <1>1, WalkFits
  <1>9. \A j \in 0..(m-1) : key'[w[j]] = key[w[j]]
    BY <1>2, <1>3, <1>8 DEF Types
  <1>10. key'[n] = k /\ k \in Elem
    BY <1>2, <1>3 DEF Types, Elem
  <1> HIDE DEF p, s, t, v
  <1>11. /\ u \in Seq(Elem) /\ Len(u) = m+1
         /\ \A j \in 1..m+1 : u[j] = IF j < p+1 THEN s[j] ELSE IF j = p+1 THEN k ELSE s[j-1]
    <2>1. p+1 \in 1..Len(s)+1
      BY <1>2, <1>4, <1>5
    <2> QED BY <1>5, <1>10, <2>1, InsertAtIs
  <1> HIDE DEF u
  <1>12. ASSUME NEW j \in 1..m+1 PROVE t[j] = u[j]
    <2>1. j-1 \in Nat /\ t[j] = key'[v[j-1]]
      BY <1>2, <1>6
    <2>2. CASE j < p+1
      <3>1. v[j-1] = w[j-1] /\ j-1 \in 0..(m-1) /\ j \in 1..m
        BY <1>2, <1>4, <1>7, <2>1, <2>2
      <3>2. u[j] = s[j]
        BY <1>11, <2>2
      <3> QED BY <1>5, <1>9, <2>1, <3>1, <3>2
    <2>3. CASE j = p+1
      <3>1. v[j-1] = n
        BY <1>4, <1>7, <2>1, <2>3
      <3>2. u[j] = k
        BY <1>4, <1>11, <2>3
      <3> QED BY <1>10, <2>1, <3>1, <3>2
    <2>4. CASE j > p+1
      <3>1. v[j-1] = w[(j-1)-1] /\ (j-1)-1 \in 0..(m-1) /\ j-1 \in 1..m
        BY <1>2, <1>4, <1>7, <2>1, <2>4
      <3>2. u[j] = s[j-1]
        BY <1>4, <1>11, <2>4
      <3> QED BY <1>5, <1>9, <2>1, <3>1, <3>2
    <2> QED BY <1>4, <2>2, <2>3, <2>4
  <1>13. t = u
    BY <1>6, <1>11, <1>12, SeqEqual
  <1> QED BY <1>5, <1>13 DEF p, s, t, u

\* A removal is a removal from the sequence.
LEMMA RemoveContract ==
    ASSUME PInv, NEW i \in Int, dpl_remove_at_index(i)
    PROVE  Elements' = IF Elements = <<>> THEN <<>>
                       ELSE RemoveAt(Elements, Clamped(i, Len(Elements) - 1) + 1)
  <1>1. PICK m, w : Walk(m, w)
    BY DEF PInv
  <1>2. Types /\ m \in Nat /\ Removed(i) /\ UNCHANGED <<key, state, size, turn>>
    BY <1>1, WalkFits DEF PInv, dpl_remove_at_index
  <1> DEFINE p == Clamped(i, m-1)
             s == Elements
             t == Elements'
             v == Dropped(w, p)
             u == RemoveAt(s, p+1)
  <1>3. /\ m = 0 => Walk(m, w)'
        /\ m # 0 => Walk(m-1, v)'
        /\ Types'
    BY <1>1, <1>2, RemovedStep DEF Types
  <1>4. s \in Seq(Elem) /\ Len(s) = m /\ \A j \in 1..m : s[j] = key[w[j-1]]
    BY <1>1, <1>2, ElementsAre DEF ElementsAlong
  <1>5. CASE m = 0
    <2>1. Len(t) = 0 /\ t \in Seq(Elem)
      <3>1. ElementsAlong'
        BY ElementsAre, PTL
      <3> QED BY <1>3, <1>5, <3>1 DEF ElementsAlong
    <2> HIDE DEF s, t
    <2>2. s = <<>> /\ t = <<>>
      BY <1>4, <1>5, <2>1
    <2> QED BY <2>2 DEF s, t
  <1>6. CASE m # 0
    <2>1. p \in 0..(m-1)
      BY <1>1, <1>6, Reference
    <2>2. t \in Seq(Elem) /\ Len(t) = m-1 /\ \A j \in 1..m-1 : t[j] = key[v[j-1]]
      <3>1. t \in Seq(Elem) /\ Len(t) = m-1 /\ \A j \in 1..m-1 : t[j] = key'[v[j-1]]
        <4>1. ElementsAlong'
          BY ElementsAre, PTL
        <4> HIDE DEF v
        <4> QED BY <1>3, <1>6, <4>1 DEF ElementsAlong
      <3> QED BY <1>2, <3>1
    <2>3. \A j \in Nat : v[j] = IF j < p THEN w[j] ELSE w[j+1]
      BY DEF Dropped
    <2> HIDE DEF p, s, t, v
    <2>4. /\ u \in Seq(Elem) /\ Len(u) = m-1
          /\ \A j \in 1..m-1 : u[j] = IF j < p+1 THEN s[j] ELSE s[j+1]
      <3>1. p+1 \in 1..Len(s)
        BY <1>2, <1>4, <2>1
      <3> QED BY <1>4, <3>1, RemoveAtIs
    <2> HIDE DEF u
    <2>5. ASSUME NEW j \in 1..m-1 PROVE t[j] = u[j]
      <3>1. j-1 \in Nat /\ t[j] = key[v[j-1]] /\ j \in 1..m /\ j+1 \in 1..m /\ (j+1)-1 = j
            /\ (j-1)+1 = j
        BY <1>2, <2>2
      <3>2. CASE j < p+1
        <4>1. v[j-1] = w[j-1]
          BY <2>1, <2>3, <3>1, <3>2
        <4>2. u[j] = s[j]
          BY <2>4, <3>2
        <4> QED BY <1>4, <3>1, <4>1, <4>2
      <3>3. CASE ~(j < p+1)
        <4>1. v[j-1] = w[j]
          BY <2>1, <2>3, <3>1, <3>3
        <4>2. u[j] = s[j+1]
          BY <2>4, <3>3
        <4>3. s[j+1] = key[w[j]]
          BY <1>4, <3>1
        <4> QED BY <3>1, <4>1, <4>2, <4>3
      <3> QED BY <3>2, <3>3
    <2>6. t = u
      BY <2>2, <2>4, <2>5, SeqEqual
    <2>7. s # <<>>
      BY <1>4, <1>6
    <2> QED BY <1>4, <2>6, <2>7 DEF p, s, t, u
  <1> QED BY <1>5, <1>6

\* A removal at a reference takes out the first node of its kind.
LEMMA RemoveAtReference ==
    ASSUME PInv, NEW i \in Positions, dpl_remove_at_reference(Nth[i])
    PROVE  live' = live \ {Nth[i]} <=> FirstOfKind(i)
  <1>1. PICK m, w : Walk(m, w)
    BY DEF PInv
  <1> DEFINE f == dpl_get_index_of_reference(w[i])
  <1>2. /\ m \in Nat /\ dpl_size = m /\ Nth = w /\ i \in 0..(m-1)
        /\ InList = live /\ w[i] \in live /\ m # 0
    BY <1>1, WalkFits, WalkIsList
  <1>3. f = dpl_get_index_of_element(key[w[i]])
    BY <1>2 DEF dpl_get_index_of_reference, dpl_get_element_at_reference
  <1>4. f \in 0..i /\ (f = i <=> FirstOfKind(i))
    BY <1>1, <1>2, <1>3, FoundAgain
  <1>5. Removed(f)
    BY <1>2 DEF dpl_remove_at_reference, dpl_remove_at_index
  <1> HIDE DEF f
  <1>6. f \in 0..(m-1) /\ Clamped(f, m-1) = f
    BY <1>2, <1>4 DEF Clamped
  <1>7. live' = live \ {w[f]}
    BY <1>2, <1>5, <1>6 DEF Removed, RemovedIndex
  <1>8. w[f] \in live /\ (w[f] = w[i] <=> f = i)
    BY <1>1, <1>2, <1>6, WalkFits DEF Walk
  <1> QED BY <1>2, <1>4, <1>7, <1>8

\* dplist.h's contract: an insertion puts the element where the index says, the
\* first place if it is negative and the last if it is beyond the list, a removal
\* takes that one out, and all others keep their order.  A removal at a reference takes
\* out the node referred to exactly if it is the first of its kind.
THEOREM ContractIsKept == Spec => KeepsContract
  <1>1. \A i \in Indices : i \in Int
    <2>1. Cardinality(Node) \in Nat
      BY ListAssumption, FS_CardinalityType
    <2> QED BY <2>1 DEF Indices
  <1> DEFINE A == /\ \A i \in Indices, k \in Key : dpl_insert_at_index(i, k) =>
                       Elements' = InsertAt(Elements, Clamped(i, Len(Elements)) + 1, k)
                  /\ \A i \in Indices : dpl_remove_at_index(i) =>
                       Elements' =
                         IF Elements = <<>> THEN <<>>
                         ELSE RemoveAt(Elements, Clamped(i, Len(Elements) - 1) + 1)
                  /\ \A i \in Positions : dpl_remove_at_reference(Nth[i]) =>
                       (live' = live \ {Nth[i]} <=> FirstOfKind(i))
  <1>2. ASSUME PInv PROVE A
    BY <1>1, <1>2, InsertContract, RemoveContract, RemoveAtReference
  <1>3. PInv /\ [Next]_listVars => [A]_listVars
    BY <1>2
  <1> HIDE DEF A
  <1>4. Spec => [][A]_listVars
    BY <1>3, PInvHolds, PTL DEF Spec
  <1> QED BY <1>4 DEF A, KeepsContract
=============================================================================
