------------------------- MODULE DataManager_proofs -------------------------
(***************************************************************************)
(* Proofs about module DataManager, for any sensor map, any length of the  *)
(* running average that an uint16_t counts to, and whatever malloc         *)
(* returned.                                                               *)
(*                                                                         *)
(* The idea: element k of the list, counted from its end, was made from    *)
(* piece k of the file, and every line of the file is in one piece or two; *)
(* the circular buffer of an element holds the last values of its sensor,  *)
(* the one of age d being d slots behind buffer_position, so that a full   *)
(* buffer is the last RUN_AVG_LENGTH values turned, and has their sum.     *)
(***************************************************************************)
EXTENDS DataManager, FiniteSetTheorems, SequenceTheorems, WellFoundedInduction, TLAPS

-----------------------------------------------------------------------------
(* Sums.                                                                   *)

\* A set of numbers that has a member has a least one.
LEMMA LeastNat ==
    ASSUME NEW T, T \subseteq Nat, T # {}
    PROVE  \E x \in T : \A y \in T : x <= y
  <1> DEFINE R == OpToRel(<, Nat)
  <1>1. IsWellFoundedOn(R, Nat)
    BY NatLessThanWellFounded
  <1> HIDE DEF R
  <1>2. PICK x \in T : \A y \in T : ~ (<<y, x>> \in R)
    BY <1>1, WFMin
  <1>3. ASSUME NEW y \in T PROVE x <= y
    <2>1. x \in Nat /\ y \in Nat
      OBVIOUS
    <2>2. y < x => <<y, x>> \in R
      BY <2>1 DEF R, OpToRel
    <2> QED BY <1>2, <2>1, <2>2
  <1> QED BY <1>3

Chosen(s) == CHOOSE x \in s : TRUE

\* How FoldFunction adds up the values of f: the partial sums over subsets.
Sums(f, S, g) ==
    g = [s \in SUBSET S |-> IF s = {} THEN 0 ELSE f[Chosen(s)] + g[s \ {Chosen(s)}]]

\* There are such partial sums: extend them from the smaller sets to the larger.
LEMMA SumsExist ==
    ASSUME NEW f, NEW S, IsFiniteSet(S)
    PROVE  \E g : Sums(f, S, g)
  <1> DEFINE small(n) == {s \in SUBSET S : Cardinality(s) <= n}
             good(n) == \E g : g = [s \in small(n) |->
                          IF s = {} THEN 0 ELSE f[Chosen(s)] + g[s \ {Chosen(s)}]]
  <1>1. \A s \in SUBSET S : IsFiniteSet(s) /\ Cardinality(s) \in Nat
                            /\ Cardinality(s) <= Cardinality(S)
    BY FS_Subset, FS_CardinalityType
  <1>2. \A s \in SUBSET S : s # {} =>
          /\ Chosen(s) \in s /\ s \ {Chosen(s)} \in SUBSET S
          /\ Cardinality(s \ {Chosen(s)}) = Cardinality(s) - 1
    <2> TAKE s \in SUBSET S
    <2> HAVE s # {}
    <2>1. Chosen(s) \in s
      BY DEF Chosen
    <2> QED BY <1>1, <2>1, FS_RemoveElement
  <1>3. good(0)
    <2>1. \A s \in small(0) : s = {}
      BY <1>1, FS_EmptySet
    <2> DEFINE g == [s \in small(0) |-> 0]
    <2>2. g = [s \in small(0) |-> IF s = {} THEN 0 ELSE f[Chosen(s)] + g[s \ {Chosen(s)}]]
      BY <2>1
    <2> QED BY <2>2
  <1>4. ASSUME NEW n \in Nat, good(n) PROVE good(n+1)
    <2>1. PICK g : g = [s \in small(n) |->
                          IF s = {} THEN 0 ELSE f[Chosen(s)] + g[s \ {Chosen(s)}]]
      BY <1>4
    <2> DEFINE h == [s \in small(n+1) |->
                          IF s = {} THEN 0 ELSE f[Chosen(s)] + g[s \ {Chosen(s)}]]
    <2>2. \A s \in small(n) : h[s] = g[s] /\ s \in small(n+1)
      <3>1. \A s \in small(n) : s \in small(n+1)
        BY <1>1
      <3> HIDE DEF small
      <3> QED BY <2>1, <3>1
    <2>3. \A s \in small(n+1) : s # {} => s \ {Chosen(s)} \in small(n)
      BY <1>1, <1>2
    <2>4. \A s \in small(n+1) : s # {} => h[s \ {Chosen(s)}] = g[s \ {Chosen(s)}]
      BY <2>2, <2>3
    <2> HIDE DEF small
    <2>5. h = [s \in small(n+1) |->
                          IF s = {} THEN 0 ELSE f[Chosen(s)] + h[s \ {Chosen(s)}]]
      BY <2>4
    <2> QED BY <2>5
  <1>5. \A n \in Nat : good(n)
    <2> DEFINE T == {n \in Nat : ~good(n)}
    <2> SUFFICES ASSUME T # {} PROVE FALSE
      OBVIOUS
    <2> HIDE DEF good
    <2>1. PICK n \in T : \A k \in T : n <= k
      <3>1. T \subseteq Nat
        OBVIOUS
      <3> HIDE DEF T
      <3> QED BY <3>1, LeastNat
    <2>2. n # 0
      BY <1>3
    <2>3. n-1 \in Nat /\ n-1 \notin T /\ (n-1)+1 = n
      BY <2>1, <2>2
    <2> QED BY <1>4, <2>3
  <1>6. S \in SUBSET S /\ Cardinality(S) \in Nat
    BY <1>1
  <1>7. small(Cardinality(S)) = SUBSET S
    BY <1>1
  <1>8. good(Cardinality(S))
    BY <1>5, <1>6
  <1> QED BY <1>7, <1>8 DEF Sums

\* What FoldFunction returns is one.
LEMMA FoldIsSum ==
    ASSUME NEW f, IsFiniteSet(DOMAIN f)
    PROVE  \E g : Sums(f, DOMAIN f, g) /\ SumOf(f) = g[DOMAIN f]
  <1>1. SumOf(f) = (CHOOSE g : Sums(f, DOMAIN f, g))[DOMAIN f]
    BY DEF SumOf, FoldFunction, FoldFunctionOnSet, MapThenFoldSet, Sums, Chosen
  <1>2. \E g : Sums(f, DOMAIN f, g)
    BY SumsExist
  <1> QED BY <1>1, <1>2

\* A sum can be taken apart at any of its values.
Adds(f, S, g) ==
    /\ g[{}] = 0
    /\ \A s \in SUBSET S : /\ g[s] \in Int
                           /\ \A x \in s : g[s] = f[x] + g[s \ {x}]

\* It does not depend on which value is added first.
LEMMA SumPick ==
    ASSUME NEW S, IsFiniteSet(S), NEW f \in [S -> Int], NEW g, Sums(f, S, g)
    PROVE  Adds(f, S, g)
  <1> DEFINE Right(s) == /\ g[s] \in Int
                         /\ \A x \in s : g[s] = f[x] + g[s \ {x}]
             T == {n \in Nat : \E s \in SUBSET S : Cardinality(s) = n /\ ~Right(s)}
  <1>1. \A s \in SUBSET S :
          g[s] = IF s = {} THEN 0 ELSE f[Chosen(s)] + g[s \ {Chosen(s)}]
    BY DEF Sums
  <1>2. \A s \in SUBSET S : IsFiniteSet(s) /\ Cardinality(s) \in Nat
    <2> TAKE s \in SUBSET S
    <2>1. IsFiniteSet(s)
      BY FS_Subset
    <2>2. Cardinality(s) \in Nat
      BY <2>1, FS_CardinalityType
    <2> QED BY <2>1, <2>2
  <1>3. \A s \in SUBSET S : \A x \in s :
          /\ s \ {x} \in SUBSET S /\ f[x] \in Int
          /\ Cardinality(s \ {x}) = Cardinality(s) - 1
    <2> TAKE s \in SUBSET S
    <2> TAKE x \in s
    <2>1. Cardinality(s \ {x}) = Cardinality(s) - 1
      BY <1>2, FS_RemoveElement
    <2> QED BY <2>1
  <1>4. ASSUME T # {} PROVE FALSE
    <2>1. PICK n \in T : \A k \in T : n <= k
      <3>1. T \subseteq Nat
        OBVIOUS
      <3> HIDE DEF T
      <3> QED BY <1>4, <3>1, LeastNat
    <2>2. PICK s \in SUBSET S : Cardinality(s) = n /\ ~Right(s)
      BY <2>1
    <2>3. \A r \in SUBSET S : Cardinality(r) = n-1 => Right(r)
      <3> SUFFICES ASSUME NEW r \in SUBSET S, Cardinality(r) = n-1, ~Right(r) PROVE FALSE
        OBVIOUS
      <3> HIDE DEF Right
      <3>1. n-1 \in Nat
        BY <1>2
      <3>2. n-1 \in T
        BY <3>1
      <3> QED BY <2>1, <3>1, <3>2
    <2>4. s # {}
      <3> SUFFICES ASSUME s = {} PROVE FALSE
        OBVIOUS
      <3>1. g[s] = 0
        BY <1>1
      <3> QED BY <2>2, <3>1
    <2> DEFINE c == Chosen(s)
    <2>5. c \in s
      BY <2>4 DEF Chosen
    <2> HIDE DEF c
    <2>6. g[s] = f[c] + g[s \ {c}]
      BY <1>1, <2>4 DEF c
    <2>7. Right(s \ {c})
      BY <1>3, <2>2, <2>3, <2>5
    <2>8. g[s] \in Int
      BY <1>3, <2>5, <2>6, <2>7
    <2>9. ASSUME NEW x \in s PROVE g[s] = f[x] + g[s \ {x}]
      <3>1. CASE x = c
        BY <2>6, <3>1
      <3>2. CASE x # c
        <4>1. x \in s \ {c} /\ c \in s \ {x} /\ (s \ {c}) \ {x} = (s \ {x}) \ {c}
          BY <2>5, <3>2
        <4>2. Right(s \ {x})
          BY <1>3, <2>2, <2>3
        <4>3. g[s \ {c}] = f[x] + g[(s \ {c}) \ {x}]
          BY <2>7, <4>1
        <4>4. g[s \ {x}] = f[c] + g[(s \ {c}) \ {x}]
          BY <4>1, <4>2
        <4>5. (s \ {c}) \ {x} \in SUBSET S
          OBVIOUS
        <4>6. g[(s \ {c}) \ {x}] \in Int
          <5> DEFINE r == (s \ {c}) \ {x}
          <5>1. r \in SUBSET S
            BY <4>5
          <5>2. Cardinality(r) = (n-1)-1 /\ (n-1)-1 \in Nat
            <6>1. Cardinality(s \ {c}) = n-1 /\ Cardinality(r) = Cardinality(s \ {c}) - 1
              BY <1>3, <2>2, <2>5, <4>1
            <6>2. Cardinality(r) \in Nat /\ n \in Nat
              BY <1>2, <5>1, <2>1
            <6> QED BY <6>1, <6>2
          <5> HIDE DEF r
          <5>3. Right(r)
            <6> SUFFICES ASSUME ~Right(r) PROVE FALSE
              OBVIOUS
            <6> HIDE DEF Right
            <6>1. (n-1)-1 \in T
              BY <5>1, <5>2
            <6>2. n <= (n-1)-1 /\ n \in Nat
              BY <2>1, <6>1
            <6> QED BY <6>2
          <5> QED BY <5>3 DEF r
        <4>7. f[x] \in Int /\ f[c] \in Int
          BY <2>5
        <4> QED BY <2>6, <4>3, <4>4, <4>6, <4>7
      <3> QED BY <3>1, <3>2
    <2> QED BY <2>2, <2>8, <2>9
  <1>5. ASSUME NEW s \in SUBSET S PROVE Right(s)
    <2> SUFFICES ASSUME ~Right(s) PROVE FALSE
      OBVIOUS
    <2> HIDE DEF Right
    <2>1. Cardinality(s) \in T
      BY <1>2
    <2> QED BY <1>4, <2>1
  <1> QED BY <1>1, <1>5 DEF Adds

\* Nor does what FoldFunction returns.
LEMMA FoldPick ==
    ASSUME NEW S, IsFiniteSet(S), NEW f \in [S -> Int]
    PROVE  \E g : SumOf(f) = g[S] /\ Adds(f, S, g)
  <1>1. DOMAIN f = S
    OBVIOUS
  <1>2. PICK g : Sums(f, S, g) /\ SumOf(f) = g[S]
    BY <1>1, FoldIsSum
  <1>3. Adds(f, S, g)
    BY <1>2, SumPick
  <1> QED BY <1>2, <1>3

\* Nor on where the values are: a buffer and a sequence that hold the same values,
\* each as often, have the same sum.
Rearranges(b, S, f, T, h) ==
    /\ IsFiniteSet(S) /\ f \in [S -> Int]
    /\ IsFiniteSet(T) /\ h \in [T -> Int]
    /\ b \in [S -> T]
    /\ \A x, y \in S : b[x] = b[y] => x = y
    /\ \A z \in T : \E x \in S : b[x] = z
    /\ \A x \in S : h[b[x]] = f[x]

\* So it is.
LEMMA SumMoves ==
    ASSUME NEW S, NEW T, NEW f, NEW h, NEW b, Rearranges(b, S, f, T, h)
    PROVE  SumOf(f) = SumOf(h)
  <1>0. /\ IsFiniteSet(S) /\ f \in [S -> Int]
        /\ IsFiniteSet(T) /\ h \in [T -> Int]
        /\ b \in [S -> T]
        /\ \A x, y \in S : b[x] = b[y] => x = y
        /\ \A z \in T : \E x \in S : b[x] = z
        /\ \A x \in S : h[b[x]] = f[x]
    BY DEF Rearranges
  <1> USE <1>0
  <1>1. PICK g : SumOf(f) = g[S] /\ Adds(f, S, g)
    BY FoldPick
  <1>2. PICK k : SumOf(h) = k[T] /\ Adds(h, T, k)
    BY FoldPick
  <1> DEFINE Image(s) == {b[x] : x \in s}
             Bad == {n \in Nat : \E s \in SUBSET S :
                                   Cardinality(s) = n /\ g[s] # k[Image(s)]}
  <1>5. ASSUME Bad # {} PROVE FALSE
    <2>1. PICK n \in Bad : \A j \in Bad : n <= j
      <3>1. Bad \subseteq Nat
        OBVIOUS
      <3> HIDE DEF Bad
      <3> QED BY <1>5, <3>1, LeastNat
    <2>2. PICK s \in SUBSET S : Cardinality(s) = n /\ g[s] # k[Image(s)]
      BY <2>1
    <2>3. s # {}
      <3> SUFFICES ASSUME s = {} PROVE FALSE
        OBVIOUS
      <3>1. Image(s) = {}
        OBVIOUS
      <3> QED BY <1>1, <1>2, <2>2, <3>1 DEF Adds
    <2>4. PICK x : x \in s
      BY <2>3
    <2>5. Image(s \ {x}) = Image(s) \ {b[x]} /\ Image(s) \in SUBSET T /\ b[x] \in Image(s)
      BY <2>4
    <2>6. g[s] = f[x] + g[s \ {x}] /\ k[Image(s)] = h[b[x]] + k[Image(s \ {x})]
      <3>1. g[s] = f[x] + g[s \ {x}]
        BY <1>1, <2>4 DEF Adds
      <3> HIDE DEF Image
      <3>2. k[Image(s)] = h[b[x]] + k[Image(s) \ {b[x]}]
        BY <1>2, <2>5 DEF Adds
      <3> QED BY <2>5, <3>1, <3>2
    <2>7. g[s \ {x}] # k[Image(s \ {x})]
      <3> HIDE DEF Image
      <3> QED BY <2>2, <2>4, <2>6
    <2>8. Cardinality(s \ {x}) = n-1 /\ n-1 \in Nat /\ n \in Nat
      <3>1. IsFiniteSet(s)
        BY FS_Subset
      <3>2. Cardinality(s \ {x}) = Cardinality(s) - 1 /\ IsFiniteSet(s \ {x})
        BY <2>4, <3>1, FS_RemoveElement
      <3>3. Cardinality(s \ {x}) \in Nat
        BY <3>2, FS_CardinalityType
      <3> QED BY <2>1, <2>2, <3>2, <3>3
    <2>9. n-1 \in Bad
      <3>1. s \ {x} \in SUBSET S
        OBVIOUS
      <3>2. PICK r \in SUBSET S : r = s \ {x}
        BY <3>1
      <3> HIDE DEF Image
      <3>3. Cardinality(r) = n-1 /\ g[r] # k[Image(r)]
        BY <2>7, <2>8, <3>2
      <3>4. \E q \in SUBSET S : Cardinality(q) = n-1 /\ g[q] # k[Image(q)]
        BY <3>3
      <3> QED BY <2>8, <3>4
    <2> HIDE DEF Bad
    <2> QED BY <2>1, <2>8, <2>9
  <1>6. Cardinality(S) \in Nat /\ S \in SUBSET S
    BY FS_CardinalityType
  <1>7. g[S] = k[Image(S)]
    <2> SUFFICES ASSUME g[S] # k[Image(S)] PROVE FALSE
      OBVIOUS
    <2> HIDE DEF Image
    <2>1. Cardinality(S) \in Bad
      BY <1>6
    <2> HIDE DEF Bad
    <2> QED BY <1>5, <2>1
  <1>8. Image(S) = T
    OBVIOUS
  <1> QED BY <1>1, <1>2, <1>6, <1>7, <1>8 DEF Adds

-----------------------------------------------------------------------------
(* The map.                                                                *)

MapLine == [room : Number, id : Number, end : BOOLEAN]

\* The values of an uint16_t.
LEMMA NumberIs == \A i : i \in Number <=> i \in Nat /\ i <= 65535
  <1>1. PICK k : k = 65535
    OBVIOUS
  <1>2. Number = 0..k
    BY <1>1 DEF Number
  <1>3. k \in Nat
    BY <1>1
  <1>4. \A i : i \in 0..k <=> i \in Nat /\ i <= k
    BY <1>3
  <1> TAKE i
  <1>5. i \in Number <=> i \in Nat /\ i <= k
    BY <1>2, <1>4, Zenon
  <1> HIDE DEF Number
  <1> QED BY <1>1, <1>5

\* A number of at most 65535 has one to five digits.
LEMMA DigitsAre == ASSUME NEW n \in Number PROVE Digits(n) \in 1..5
  <1> DEFINE D == {d \in 1..4 : n >= 10^d}
  <1>1. IsFiniteSet(1..4) /\ Cardinality(1..4) = 4
    <2>1. 1 \in Int /\ 4 \in Int /\ ~(1 > 4) /\ 4-1+1 = 4
      OBVIOUS
    <2> QED BY <2>1, FS_Interval
  <1>2. D \subseteq 1..4
    OBVIOUS
  <1> HIDE DEF D
  <1>3. IsFiniteSet(D) /\ Cardinality(D) <= Cardinality(1..4)
    BY <1>1, <1>2, FS_Subset
  <1>4. Cardinality(D) \in Nat
    BY <1>3, FS_CardinalityType
  <1>5. Cardinality(D) \in 0..4
    BY <1>1, <1>3, <1>4
  <1>6. Digits(n) = 1 + Cardinality(D)
    BY DEF Digits, D
  <1> QED BY <1>5, <1>6

\* A number whose last digits are cut off, and those digits.
LEMMA Shifted ==
    ASSUME NEW i \in Number, NEW z \in {1, 10, 100, 1000, 10000}
    PROVE  i \div z \in Number /\ i % z \in Number /\ (z = 1 => i \div z = i)
  <1>1. i \in Nat /\ i <= 65535
    BY NumberIs
  <1>2. /\ i \div z \in Nat /\ i \div z <= 65535
        /\ i % z \in Nat /\ i % z <= 65535 /\ (z = 1 => i \div z = i)
    <2>1. CASE z = 1
      BY <1>1, <2>1
    <2>2. CASE z = 10
      BY <1>1, <2>2
    <2>3. CASE z = 100
      BY <1>1, <2>3
    <2>4. CASE z = 1000
      BY <1>1, <2>4
    <2>5. CASE z = 10000
      BY <1>1, <2>5
    <2> QED BY <2>1, <2>2, <2>3, <2>4, <2>5
  <1> QED BY <1>2, NumberIs

\* A line comes in one piece or two.  If it loses no digit of its id, the first
\* holds both numbers, and the second, if there is one, none.
LEMMA PiecesAre ==
    ASSUME NEW line \in MapLine
    PROVE  /\ Pieces(line) \in Seq(Seq(Number)) /\ Len(Pieces(line)) \in {1, 2}
           /\ Behind(line) = 0 =>
                /\ Pieces(line)[1] = <<line.room, line.id>>
                /\ Len(Pieces(line)) = 2 => Pieces(line)[2] = <<>>
  <1>1. /\ line.room \in Nat /\ line.id \in Nat
        /\ line.room <= 65535 /\ line.id <= 65535
        /\ line.room \in Number /\ line.id \in Number
    <2>1. line.room \in Number /\ line.id \in Number
      BY DEF MapLine
    <2> QED BY <2>1, NumberIs
  <1>2. Digits(line.room) \in 1..5 /\ Digits(line.id) \in 1..5
    BY <1>1, DigitsAre
  <1> DEFINE b == Behind(line)
             z == 10^b
  <1>3. b \in 0..4
    BY <1>2 DEF Behind
  <1> HIDE DEF b
  <1>4. z \in {1, 10, 100, 1000, 10000} /\ (b = 0 => z = 1)
    <2>1. 10^0 = 1 /\ 10^1 = 10 /\ 10^2 = 100 /\ 10^3 = 1000 /\ 10^4 = 10000
      OBVIOUS
    <2>2. b = 0 \/ b = 1 \/ b = 2 \/ b = 3 \/ b = 4
      BY <1>3
    <2>3. CASE b = 0
      BY <2>1, <2>3
    <2>4. CASE b = 1
      BY <2>1, <2>4
    <2>5. CASE b = 2
      BY <2>1, <2>5
    <2>6. CASE b = 3
      BY <2>1, <2>6
    <2>7. CASE b = 4
      BY <2>1, <2>7
    <2> QED BY <2>2, <2>3, <2>4, <2>5, <2>6, <2>7
  <1> HIDE DEF z
  <1> DEFINE x == line.id \div z
             y == line.id % z
  <1>5. x \in Number /\ y \in Number /\ (z = 1 => x = line.id)
    BY <1>1, <1>4, Shifted
  <1> HIDE DEF x, y
  <1> DEFINE first == <<line.room, x>>
             second == IF b > 0 THEN << <<y>> >>
                       ELSE IF Overflows(line) /\ line.end THEN << <<>> >> ELSE <<>>
  <1>6. first \in Seq(Number)
    BY <1>1, <1>5
  <1>7. second \in Seq(Seq(Number)) /\ Len(second) \in {0, 1}
        /\ (b = 0 /\ Len(second) = 1 => second[1] = <<>>)
    <2>1. <<>> \in Seq(Number) /\ <<y>> \in Seq(Number)
      BY <1>5
    <2>2. CASE b > 0
      <3>1. second = << <<y>> >>
        BY <2>2
      <3> HIDE DEF second
      <3> QED BY <1>3, <2>1, <2>2, <3>1
    <2>3. CASE ~(b > 0) /\ Overflows(line) /\ line.end
      <3>1. second = << <<>> >>
        BY <2>3
      <3> HIDE DEF second
      <3> QED BY <2>1, <3>1
    <2>4. CASE ~(b > 0) /\ ~(Overflows(line) /\ line.end)
      <3>1. second = <<>>
        BY <2>4
      <3> HIDE DEF second
      <3> QED BY <3>1
    <2> QED BY <2>2, <2>3, <2>4
  <1>8. Pieces(line) = <<first>> \o second
    BY DEF Pieces, FirstPiece, SecondPiece, first, second, x, y, z, b
  <1> HIDE DEF first, second
  <1>9. /\ <<first>> \in Seq(Seq(Number)) /\ Len(<<first>>) = 1
        /\ <<first>>[1] = first
    BY <1>6
  <1>10. /\ <<first>> \o second \in Seq(Seq(Number))
         /\ Len(<<first>> \o second) = 1 + Len(second)
         /\ (<<first>> \o second)[1] = first
         /\ Len(second) = 1 => (<<first>> \o second)[2] = second[1]
    <2> DEFINE a == <<first>>
               c == a \o second
    <2>1. a \in Seq(Seq(Number)) /\ Len(a) = 1 /\ a[1] = first /\ second \in Seq(Seq(Number))
      BY <1>7, <1>9
    <2> HIDE DEF a
    <2>2. c \in Seq(Seq(Number)) /\ Len(c) = Len(a) + Len(second)
          /\ \A i \in 1..Len(a)+Len(second) : c[i] = IF i <= Len(a) THEN a[i] ELSE second[i-Len(a)]
      BY <2>1, ConcatProperties
    <2> HIDE DEF c
    <2>3. Len(second) \in {0, 1}
      BY <1>7
    <2>4. c[1] = first
      BY <2>1, <2>2, <2>3
    <2>5. Len(second) = 1 => c[2] = second[1]
      <3> SUFFICES ASSUME Len(second) = 1 PROVE c[2] = second[1]
        OBVIOUS
      <3>1. 2 \in 1..Len(a)+Len(second) /\ ~(2 <= Len(a)) /\ 2 - Len(a) = 1
        BY <2>1
      <3> QED BY <2>2, <3>1
    <2>6. Len(c) = 1 + Len(second)
      BY <2>1, <2>2
    <2> QED BY <2>2, <2>4, <2>5, <2>6 DEF c, a
  <1>11. b = 0 => first = <<line.room, line.id>>
    BY <1>4, <1>5 DEF first
  <1> DEFINE all == <<first>> \o second
  <1> HIDE DEF all
  <1>12. Pieces(line) = all
    BY <1>8, Zenon DEF all
  <1>13. all \in Seq(Seq(Number)) /\ Len(all) \in {1, 2}
    <2>1. all \in Seq(Seq(Number)) /\ Len(all) = 1 + Len(second)
      BY <1>10 DEF all
    <2>2. \A k \in {0, 1} : 1 + k \in {1, 2}
      OBVIOUS
    <2> QED BY <1>7, <2>1, <2>2
  <1>14. ASSUME b = 0
         PROVE  all[1] = <<line.room, line.id>> /\ (Len(all) = 2 => all[2] = <<>>)
    BY <1>7, <1>10, <1>11, <1>14 DEF all
  <1> QED BY <1>12, <1>13, <1>14, Zenon DEF b

\* How FlattenSeq joins sequences: the partial results.
Joins(seqs, n, f) ==
    f = [i \in 1..n |-> IF i = 1 THEN seqs[i] ELSE f[i-1] \o seqs[i]]

\* There are such partial results.
LEMMA JoinsExist ==
    ASSUME NEW seqs, NEW n \in Nat
    PROVE  \E f : Joins(seqs, n, f)
  <1> DEFINE Bad == {j \in Nat : ~\E f : Joins(seqs, j, f)}
  <1> SUFFICES ASSUME Bad # {} PROVE FALSE
    OBVIOUS
  <1>1. PICK j \in Bad : \A l \in Bad : j <= l
    <2>1. Bad \subseteq Nat
      OBVIOUS
    <2> HIDE DEF Bad
    <2> QED BY <2>1, LeastNat
  <1>2. CASE j = 0
    <2> DEFINE f == [i \in 1..0 |-> 0]
    <2>1. f = [i \in 1..0 |-> IF i = 1 THEN seqs[i] ELSE f[i-1] \o seqs[i]]
      OBVIOUS
    <2>2. Joins(seqs, j, f)
      BY <1>2, <2>1, Zenon DEF Joins
    <2> QED BY <2>2
  <1>3. CASE j # 0
    <2>1. j-1 \in Nat /\ j-1 \notin Bad /\ j \in Nat
      <3>1. j \in Nat /\ j-1 \in Nat /\ ~(j <= j-1)
        BY <1>3
      <3> HIDE DEF Bad
      <3> QED BY <1>1, <3>1
    <2>2. PICK f : Joins(seqs, j-1, f)
      BY <2>1
    <2> DEFINE g == [i \in 1..j |-> IF i = 1 THEN seqs[i] ELSE f[i-1] \o seqs[i]]
    <2>3. \A i \in 1..j-1 : g[i] = f[i]
      <3> TAKE i \in 1..j-1
      <3>1. i \in 1..j
        BY <2>1
      <3>2. g[i] = IF i = 1 THEN seqs[i] ELSE f[i-1] \o seqs[i]
        BY <3>1
      <3>3. f[i] = IF i = 1 THEN seqs[i] ELSE f[i-1] \o seqs[i]
        BY <2>2, Zenon DEF Joins
      <3> HIDE DEF g
      <3> QED BY <3>2, <3>3, Zenon
    <2>4. \A i \in 1..j : i # 1 => g[i-1] = f[i-1]
      <3> TAKE i \in 1..j
      <3> HAVE i # 1
      <3>1. i-1 \in 1..j-1
        BY <2>1
      <3> HIDE DEF g
      <3> QED BY <2>3, <3>1
    <2>5. g = [i \in 1..j |-> IF i = 1 THEN seqs[i] ELSE g[i-1] \o seqs[i]]
      BY <2>4
    <2> HIDE DEF g
    <2>6. Joins(seqs, j, g)
      BY <2>5 DEF Joins
    <2> QED BY <2>6
  <1> QED BY <1>2, <1>3

\* What comes of the lines of the map before one: on[k] is the line that piece k
\* is of.
Covers(m, n, s, on) ==
    /\ s \in Seq(Seq(Number)) /\ on \in [1..Len(s) -> 1..n]
    /\ \A j, k \in 1..Len(s) : j <= k => on[j] <= on[k]
    /\ \A l \in 1..n : \E k \in 1..Len(s) : on[k] = l
    /\ \A j, k \in 1..Len(s) : on[j] = on[k] /\ j # k => Len(Pieces(m[on[k]])) # 1
    /\ \A l \in 1..n : Len(Pieces(m[l])) # 1 =>
         \E j, k \in 1..Len(s) : j # k /\ on[j] = l /\ on[k] = l
    /\ \A k \in 1..Len(s) : Behind(m[on[k]]) = 0 =>
         \/ s[k] = <<m[on[k]].room, m[on[k]].id>>
         \/ s[k] = <<>> /\ k > 1 /\ on[k-1] = on[k]

\* The pieces of one line more.
LEMMA CoverNext ==
    ASSUME NEW m \in Seq(MapLine), NEW n \in Nat, n+1 \in 1..Len(m),
           NEW s, NEW on, Covers(m, n, s, on)
    PROVE  \E to : Covers(m, n+1, s \o Pieces(m[n+1]), to)
  <1> DEFINE t == Pieces(m[n+1])
             u == s \o t
             to == [k \in 1..Len(s)+Len(t) |-> IF k <= Len(s) THEN on[k] ELSE n+1]
  <1>1. m[n+1] \in MapLine
    OBVIOUS
  <1>2. /\ t \in Seq(Seq(Number)) /\ Len(t) \in {1, 2}
        /\ Behind(m[n+1]) = 0 => /\ t[1] = <<m[n+1].room, m[n+1].id>>
                                 /\ Len(t) = 2 => t[2] = <<>>
    BY <1>1, PiecesAre
  <1> HIDE DEF t
  <1>3. s \in Seq(Seq(Number)) /\ Len(s) \in Nat
    BY DEF Covers
  <1>4. u \in Seq(Seq(Number)) /\ Len(u) = Len(s) + Len(t)
        /\ \A i \in 1..Len(s)+Len(t) : u[i] = IF i <= Len(s) THEN s[i] ELSE t[i-Len(s)]
    BY <1>2, <1>3, ConcatProperties
  <1> HIDE DEF u
  <1>5. Len(s) \in Nat /\ (Len(t) = 1 \/ Len(t) = 2) /\ Len(u) = Len(s) + Len(t)
    BY <1>2, <1>3, <1>4
  <1>6. \A k \in 1..Len(u) :
           k <= Len(s) \/ k = Len(s)+1 \/ (k = Len(s)+2 /\ Len(t) = 2)
    <2>1. \A a \in Nat, b \in {1, 2} : \A k \in 1..a+b :
            k <= a \/ k = a+1 \/ (k = a+2 /\ b = 2)
      OBVIOUS
    <2>2. Len(t) \in {1, 2}
      BY <1>5
    <2> QED BY <1>5, <2>1, <2>2, Zenon
  <1>7. Len(s)+1 \in 1..Len(u)
    <2>1. \A a \in Nat, b \in {1, 2} : a+1 \in 1..a+b
      OBVIOUS
    <2>2. Len(t) \in {1, 2}
      BY <1>5
    <2> QED BY <1>5, <2>1, <2>2, Zenon
  <1>8. on \in [1..Len(s) -> 1..n]
    BY DEF Covers
  <1>9. \A k \in 1..Len(s) : on[k] \in 1..n
    BY <1>8
  <1>10. to \in [1..Len(u) -> 1..n+1]
    BY <1>2, <1>3, <1>4, <1>9
  <1>11. \A k \in 1..Len(u) : to[k] = IF k <= Len(s) THEN on[k] ELSE n+1
    BY <1>4
  <1> HIDE DEF to
  <1>12. ASSUME NEW j \in 1..Len(u), NEW k \in 1..Len(u), j <= k PROVE to[j] <= to[k]
    <2>1. CASE k <= Len(s)
      <3>1. j \in 1..Len(s) /\ k \in 1..Len(s) /\ j <= Len(s)
        BY <1>3, <1>12, <2>1
      <3> QED BY <1>11, <1>12, <2>1, <3>1 DEF Covers
    <2>2. CASE ~(k <= Len(s))
      <3>1. CASE j <= Len(s)
        <4>1. j \in 1..Len(s)
          BY <1>3, <3>1
        <4>2. on[j] \in 1..n /\ to[j] = on[j] /\ to[k] = n+1
          BY <1>9, <1>11, <2>2, <3>1, <4>1
        <4> QED BY <4>2
      <3>2. CASE ~(j <= Len(s))
        BY <1>11, <2>2, <3>2
      <3> QED BY <3>1, <3>2
    <2> QED BY <2>1, <2>2
  <1>13. ASSUME NEW l \in 1..n+1 PROVE \E k \in 1..Len(u) : to[k] = l
    <2>1. CASE l = n+1
      <3>1. Len(s)+1 \in 1..Len(u) /\ ~(Len(s)+1 <= Len(s))
        BY <1>3, <1>7
      <3> QED BY <1>11, <2>1, <3>1
    <2>2. CASE l # n+1
      <3>1. l \in 1..n
        BY <2>2
      <3>2. PICK k \in 1..Len(s) : on[k] = l
        BY <3>1 DEF Covers
      <3>3. k \in 1..Len(u) /\ k <= Len(s)
        BY <1>2, <1>3, <1>4
      <3> QED BY <1>11, <3>2, <3>3
    <2> QED BY <2>1, <2>2
  <1>14. ASSUME NEW k \in 1..Len(u), Behind(m[to[k]]) = 0
         PROVE  \/ u[k] = <<m[to[k]].room, m[to[k]].id>>
                \/ u[k] = <<>> /\ k > 1 /\ to[k-1] = to[k]
    <2>1. CASE k <= Len(s)
      <3>1. k \in 1..Len(s) /\ to[k] = on[k] /\ u[k] = s[k]
        BY <1>3, <1>4, <1>11, <2>1
      <3>2. k > 1 => k-1 \in 1..Len(u) /\ k-1 <= Len(s)
        BY <1>3, <2>1
      <3>3. k > 1 => to[k-1] = on[k-1]
        BY <1>11, <3>2
      <3>4. \/ s[k] = <<m[on[k]].room, m[on[k]].id>>
            \/ s[k] = <<>> /\ k > 1 /\ on[k-1] = on[k]
        BY <1>14, <3>1 DEF Covers
      <3> QED BY <3>1, <3>3, <3>4
    <2>2. CASE k = Len(s)+1
      <3>2. ~(k <= Len(s)) /\ k-Len(s) = 1 /\ k \in 1..Len(s)+Len(t)
        BY <1>5, <2>2
      <3>1. to[k] = n+1 /\ u[k] = t[1]
        BY <1>4, <1>11, <3>2
      <3> QED BY <1>2, <1>14, <3>1
    <2>3. CASE k = Len(s)+2
      <3>1. to[k] = n+1 /\ to[k-1] = n+1 /\ u[k] = t[2] /\ Len(t) = 2 /\ k > 1
        <4>1. /\ ~(k <= Len(s)) /\ k-Len(s) = 2 /\ k \in 1..Len(s)+Len(t)
              /\ k-1 \in 1..Len(u) /\ ~(k-1 <= Len(s)) /\ k > 1 /\ Len(t) = 2
          <5>1. Len(t) = 2
            BY <1>3, <1>6, <2>3
          <5> QED BY <1>5, <2>3, <5>1
        <4> QED BY <1>4, <1>11, <4>1
      <3> QED BY <1>2, <1>14, <3>1
    <2>4. k <= Len(s) \/ k = Len(s)+1 \/ k = Len(s)+2
      BY <1>6
    <2> QED BY <2>1, <2>2, <2>3, <2>4
  <1>15. ASSUME NEW j \in 1..Len(u), NEW k \in 1..Len(u), to[j] = to[k], j # k
         PROVE  Len(Pieces(m[to[k]])) # 1
    <2>1. CASE k <= Len(s)
      <3>1. k \in 1..Len(s) /\ to[k] = on[k] /\ on[k] \in 1..n
        BY <1>3, <1>9, <1>11, <2>1
      <3>2. j <= Len(s)
        BY <1>11, <1>15, <3>1
      <3>3. j \in 1..Len(s) /\ to[j] = on[j]
        BY <1>3, <1>11, <3>2
      <3>4. on[j] = on[k]
        BY <1>15, <3>1, <3>3
      <3> QED BY <1>15, <3>1, <3>3, <3>4 DEF Covers
    <2>2. CASE ~(k <= Len(s))
      <3>1. to[k] = n+1
        BY <1>11, <2>2
      <3>2. ~(j <= Len(s))
        <4> SUFFICES ASSUME j <= Len(s) PROVE FALSE
          OBVIOUS
        <4>1. j \in 1..Len(s) /\ to[j] = on[j] /\ on[j] \in 1..n
          BY <1>3, <1>9, <1>11
        <4> QED BY <1>15, <3>1, <4>1
      <3>3. Len(t) = 2
        BY <1>6, <1>15, <2>2, <3>2
      <3> QED BY <3>1, <3>3 DEF t
    <2> QED BY <2>1, <2>2
  <1>16. ASSUME NEW l \in 1..n+1, Len(Pieces(m[l])) # 1
         PROVE  \E j, k \in 1..Len(u) : j # k /\ to[j] = l /\ to[k] = l
    <2>1. CASE l = n+1
      <3>1. Len(t) = 2
        BY <1>5, <1>16, <2>1 DEF t
      <3>2. /\ Len(s)+1 \in 1..Len(u) /\ ~(Len(s)+1 <= Len(s))
            /\ Len(s)+2 \in 1..Len(u) /\ ~(Len(s)+2 <= Len(s)) /\ Len(s)+1 # Len(s)+2
        BY <1>3, <1>5, <3>1
      <3> QED BY <1>11, <2>1, <3>2
    <2>2. CASE l # n+1
      <3>1. l \in 1..n
        BY <2>2
      <3>2. PICK j \in 1..Len(s), k \in 1..Len(s) : j # k /\ on[j] = l /\ on[k] = l
        BY <1>16, <3>1 DEF Covers
      <3>3. j \in 1..Len(u) /\ j <= Len(s) /\ k \in 1..Len(u) /\ k <= Len(s)
        BY <1>3, <1>5
      <3> QED BY <1>11, <3>2, <3>3
    <2> QED BY <2>1, <2>2
  <1>17. Covers(m, n+1, u, to)
    BY <1>4, <1>10, <1>12, <1>13, <1>14, <1>15, <1>16 DEF Covers
  <1> QED BY <1>17 DEF u, t

\* What fgets returns of a map.
AllPieces(m) == FlattenSeq([i \in 1..Len(m) |-> Pieces(m[i])])

\* Every line of the map comes in, in the order of the file.
LEMMA MapCovered ==
    ASSUME NEW m \in Seq(MapLine)
    PROVE  \E on : Covers(m, Len(m), AllPieces(m), on)
  <1> DEFINE seqs == [i \in 1..Len(m) |-> Pieces(m[i])]
             N == Len(m)
  <1>1. N \in Nat /\ Len(seqs) = N /\ \A i \in 1..N : m[i] \in MapLine
    OBVIOUS
  <1>2. \A i \in 1..N : seqs[i] = Pieces(m[i]) /\ Pieces(m[i]) \in Seq(Seq(Number))
    BY <1>1, PiecesAre
  <1>3. Covers(m, 0, <<>>, <<>>)
    BY DEF Covers
  <1>4. CASE N = 0
    <2>1. AllPieces(m) = <<>>
      <3>1. AllPieces(m) = seqs
        BY <1>1, <1>4, Zenon DEF AllPieces, FlattenSeq
      <3> QED BY <1>4, <3>1
    <2> QED BY <1>3, <1>4, <2>1
  <1>5. CASE N # 0
    <2> DEFINE f == CHOOSE g : Joins(seqs, N, g)
    <2>1. AllPieces(m) = f[N]
      <3>1. Len(seqs) = N /\ N # 0
        BY <1>1, <1>5
      <3> HIDE DEF N
      <3>2. FlattenSeq(seqs) = (CHOOSE g : Joins(seqs, Len(seqs), g))[Len(seqs)]
        <4> HIDE DEF seqs
        <4> QED BY <3>1 DEF FlattenSeq, Joins
      <3> QED BY <3>1, <3>2 DEF AllPieces, N
    <2>2. Joins(seqs, N, f)
      <3>1. \E g : Joins(seqs, N, g)
        BY <1>1, JoinsExist
      <3> HIDE DEF seqs, N
      <3> QED BY <3>1
    <2> HIDE DEF f, seqs, N
    <2> DEFINE Bad == {n \in Nat : n \in 1..N /\ ~\E on : Covers(m, n, f[n], on)}
    <2>3. ASSUME Bad # {} PROVE FALSE
      <3>1. PICK n \in Bad : \A l \in Bad : n <= l
        <4>1. Bad \subseteq Nat
          OBVIOUS
        <4> HIDE DEF Bad
        <4> QED BY <2>3, <4>1, LeastNat
      <3>2. CASE n = 1
        <4>1. f[1] = <<>> \o Pieces(m[1])
          <5>1. f[1] = Pieces(m[1]) /\ Pieces(m[1]) \in Seq(Seq(Number))
            BY <1>1, <1>2, <1>5, <2>2 DEF Joins
          <5> QED BY <5>1, ConcatEmptySeq
        <4>2. 0+1 = 1 /\ 0+1 \in 1..Len(m)
          BY <1>1, <1>5 DEF N
        <4>3. \E on : Covers(m, 0+1, <<>> \o Pieces(m[0+1]), on)
          BY <1>3, <4>2, CoverNext
        <4> QED BY <3>1, <3>2, <4>1, <4>2, <4>3
      <3>3. CASE n # 1
        <4>1. n-1 \in Nat /\ n-1 \in 1..N /\ n \in 1..N /\ (n-1)+1 = n /\ ~(n <= n-1)
          BY <1>1, <3>1, <3>3
        <4>2. n-1 \notin Bad
          <5> HIDE DEF Bad
          <5> QED BY <3>1, <4>1
        <4>3. PICK on : Covers(m, n-1, f[n-1], on)
          BY <4>1, <4>2
        <4>4. f[n] = f[n-1] \o Pieces(m[n])
          BY <1>2, <2>2, <3>3, <4>1 DEF Joins
        <4>5. \E to : Covers(m, (n-1)+1, f[n-1] \o Pieces(m[(n-1)+1]), to)
          <5>1. (n-1)+1 \in 1..Len(m)
            BY <4>1 DEF N
          <5> QED BY <4>1, <4>3, <5>1, CoverNext
        <4> QED BY <3>1, <4>1, <4>4, <4>5
      <3> QED BY <3>2, <3>3
    <2>4. N \in Nat /\ N \in 1..N /\ N \notin Bad
      <3>1. N \in Nat /\ N \in 1..N
        BY <1>1, <1>5
      <3> HIDE DEF Bad
      <3> QED BY <2>3, <3>1
    <2>5. \E on : Covers(m, N, f[N], on)
      BY <2>4
    <2> QED BY <2>1, <2>5 DEF N
  <1> QED BY <1>4, <1>5

\* The line of the map that a piece is of.
LineOf(m) == CHOOSE on : Covers(m, Len(m), AllPieces(m), on)

\* The lines of a map are found in its pieces.
LEMMA LineOfCovers ==
    ASSUME NEW m \in Seq(MapLine)
    PROVE  Covers(m, Len(m), AllPieces(m), LineOf(m))
  <1>1. \E on : Covers(m, Len(m), AllPieces(m), on)
    BY MapCovered
  <1> QED BY <1>1, Zenon DEF LineOf

-----------------------------------------------------------------------------
(* The invariant: what the file still says of the elements that it is made  *)
(* into (Reading), what their buffers hold (Buffers, Inside), and the types.*)

N == RUN_AVG_LENGTH

SensorRec ==
    [room_id : Number, sensor_id : Number, sum : Int,
     last_modified : Times \cup {0}, data_buffer : [0..(N-1) -> Int],
     buffer_position : Number, take_avg : BOOLEAN, from : Fresh]

Types ==
    /\ map \in Maps /\ pieces \in Seq(Seq(Number))
    /\ r_id \in Number /\ s_id \in Number
    /\ sensor_list \in Seq(SensorRec)
    /\ logged \subseteq {"TOO HOT", "TOO COOL"}
    /\ state \in {"map", "run", "freed", "wild"}
    /\ recent \in [Ids -> Seq(Values)] /\ \A id \in Ids : Len(recent[id]) <= N
    /\ lastTs \in [Ids -> Times \cup {0}]

\* No line loses a digit of its id.
Whole(m) == \A i \in 1..Len(m) : Behind(m[i]) = 0

\* The element made from piece k, and the line it was made from.
Made(k) == sensor_list[Len(sensor_list) + 1 - k]
From(k) == map[LineOf(map)[k]]

Reading ==
    /\ state = "map" =>
         /\ Len(sensor_list) + Len(pieces) = Len(AllPieces(map))
         /\ \A k \in 1..Len(pieces) : pieces[k] = AllPieces(map)[Len(sensor_list) + k]
    /\ state = "run" => Len(sensor_list) = Len(AllPieces(map))
    /\ Whole(map) /\ state \in {"map", "run"} =>
         \A k \in 1..Len(sensor_list) :
           Made(k).room_id = From(k).room /\ Made(k).sensor_id = From(k).id
    /\ Whole(map) /\ state = "map" /\ Len(sensor_list) > 0 =>
         r_id = From(Len(sensor_list)).room /\ s_id = From(Len(sensor_list)).id

\* The slot that is d slots behind p.
Slot(p, d) == IF d <= p THEN p - d ELSE p - d + N

\* An element whose sensor's last values are r.
Buffer(s, r) ==
    LET q == Len(r)
        p == s.buffer_position
    IN  /\ q > 0 => p < N
        /\ \A d \in 1..q : s.data_buffer[Slot(p, d)] = r[q + 1 - d]
        /\ ~s.take_avg => ~s.from.full /\ s.sum = 0 /\ p = s.from.position + q
        /\ s.take_avg /\ q > 0 => s.sum = SumOf(s.data_buffer)
        /\ q = 0 => s.sum = 0
        /\ Zeroed(s) /\ q < N => ~s.take_avg

Buffers ==
    /\ \A i \in Entries :
         sensor_list[i].sensor_id \in Ids =>
           Buffer(sensor_list[i], recent[sensor_list[i].sensor_id])
    /\ state = "map" => \A id \in Ids : recent[id] = <<>>

Inside ==
    /\ \A i \in Entries :
         sensor_list[i].from.position < N => sensor_list[i].buffer_position < N
    /\ state = "wild" => \E j \in Entries : sensor_list[j].from.position >= N

DInv == Types /\ Reading /\ Buffers /\ Inside

\* The constants.
LEMMA Constants ==
    /\ N \in Nat /\ N > 0 /\ N <= 65535 /\ RUN_AVG_LENGTH = N
    /\ Values \subseteq Int /\ Times \subseteq Nat \ {0}
    /\ \A m \in Maps : m \in Seq(MapLine)
    /\ \A f \in Fresh : /\ f.data \in [0..(N-1) -> Int]
                        /\ f.position \in Number /\ f.full \in BOOLEAN
  <1>1. N \in Nat /\ N > 0 /\ N <= 65535
    <2>1. N \in Number /\ N # 0
      BY DataAssumption, Zenon DEF N
    <2>2. N \in Nat /\ N <= 65535
      BY <2>1, NumberIs
    <2>3. \A k \in Nat : k # 0 => k > 0
      OBVIOUS
    <2> QED BY <2>1, <2>2, <2>3
  <1>2. Values \subseteq Int /\ Times \subseteq Nat \ {0}
    BY DataAssumption, Zenon
  <1>3. \A m \in Maps : m \in Seq(MapLine)
    BY DataAssumption, Zenon DEF MapLine
  <1>4. \A f \in Fresh : /\ f.data \in [0..(N-1) -> Int]
                         /\ f.position \in Number /\ f.full \in BOOLEAN
    BY DataAssumption, Zenon DEF N
  <1>5. RUN_AVG_LENGTH = N
    BY DEF N
  <1> QED BY <1>1, <1>2, <1>3, <1>4, <1>5

-----------------------------------------------------------------------------
(* One record.                                                             *)

\* The sum of a buffer is a number.
LEMMA SumIsInt ==
    ASSUME NEW S, IsFiniteSet(S), NEW f \in [S -> Int]
    PROVE  SumOf(f) \in Int
  <1>1. PICK g : SumOf(f) = g[S] /\ Adds(f, S, g)
    BY FoldPick
  <1> QED BY <1>1 DEF Adds

\* An element with other contents.
Changed(s, data, at, full, ts, sum) ==
    [s EXCEPT !.data_buffer = data, !.buffer_position = at,
              !.take_avg = full, !.last_modified = ts, !.sum = sum]

\* The position after p, as the uint16_t counts it.
After(p) == (p + 1) % 65536

\* Which it is.
IsChanged(new, s, data, at, full, ts, sum) ==
    /\ new \in SensorRec
    /\ new.room_id = s.room_id /\ new.sensor_id = s.sensor_id
    /\ new.from = s.from
    /\ new.last_modified = ts /\ new.data_buffer = data
    /\ new.buffer_position = at /\ new.sum = sum /\ new.take_avg = full

\* An element with other contents is an element.
LEMMA ChangedSensor ==
    ASSUME NEW s \in SensorRec, NEW data \in [0..(N-1) -> Int], NEW at \in Number,
           NEW full \in BOOLEAN, NEW ts \in Times \cup {0}, NEW sum \in Int
    PROVE  IsChanged(Changed(s, data, at, full, ts, sum), s, data, at, full, ts, sum)
  <1>1. PICK new : new = Changed(s, data, at, full, ts, sum)
    OBVIOUS
  <1>2. new = [s EXCEPT !.data_buffer = data, !.buffer_position = at,
                        !.take_avg = full, !.last_modified = ts, !.sum = sum]
    BY <1>1, Zenon DEF Changed
  <1>3. new = [room_id |-> s.room_id, sensor_id |-> s.sensor_id, sum |-> sum,
               last_modified |-> ts, data_buffer |-> data,
               buffer_position |-> at, take_avg |-> full, from |-> s.from]
    BY <1>2 DEF SensorRec
  <1>4. /\ s.room_id \in Number /\ s.sensor_id \in Number /\ s.from \in Fresh
    BY DEF SensorRec
  <1>5. new \in SensorRec
    BY <1>3, <1>4 DEF SensorRec
  <1>6. /\ new.room_id = s.room_id /\ new.sensor_id = s.sensor_id
        /\ new.from = s.from
        /\ new.last_modified = ts /\ new.data_buffer = data
        /\ new.buffer_position = at /\ new.sum = sum
    BY <1>3
  <1>7. new.take_avg = full
    BY <1>3, Zenon
  <1> QED BY <1>1, <1>5, <1>6, <1>7, Zenon DEF IsChanged

\* What datamgr_add_sensor_data does to an element.
IsAdded(new, s, value, ts) ==
    /\ new \in SensorRec
    /\ new.room_id = s.room_id /\ new.sensor_id = s.sensor_id
    /\ new.from = s.from /\ new.last_modified = ts
    /\ new.data_buffer = [s.data_buffer EXCEPT ![s.buffer_position] = value]
    /\ new.buffer_position =
         IF After(s.buffer_position) = N THEN 0 ELSE After(s.buffer_position)
    /\ new.take_avg = (s.take_avg \/ After(s.buffer_position) = N)
    /\ new.sum = IF s.take_avg \/ After(s.buffer_position) = N
                 THEN SumOf(new.data_buffer) ELSE s.sum

\* It does.
LEMMA AddedIs ==
    ASSUME NEW s \in SensorRec, NEW value \in Values, NEW ts \in Times
    PROVE  IsAdded(Added(s, value, ts), s, value, ts)
  <1> DEFINE p == After(s.buffer_position)
             data == [s.data_buffer EXCEPT ![s.buffer_position] = value]
             full == s.take_avg \/ p = N
             at == IF p = N THEN 0 ELSE p
             sum == IF full THEN SumOf(data) ELSE s.sum
             new == Changed(s, data, at, full, ts, sum)
  <1>1. Added(s, value, ts) = new
    BY DEF Added, AtEnd, Full, N, Changed, After
  <1>2. /\ s.room_id \in Number /\ s.sensor_id \in Number /\ s.sum \in Int
        /\ s.data_buffer \in [0..(N-1) -> Int] /\ s.buffer_position \in Number
        /\ s.take_avg \in BOOLEAN /\ s.from \in Fresh
    BY DEF SensorRec
  <1>3. data \in [0..(N-1) -> Int]
    <2>1. value \in Int
      BY Constants
    <2> QED BY <1>2, <2>1
  <1>4. p \in Number /\ at \in Number
    <2>1. s.buffer_position \in Nat
      BY <1>2, NumberIs
    <2>2. p \in Nat /\ p <= 65535 /\ 0 \in Nat /\ 0 <= 65535
      BY <2>1 DEF After
    <2> HIDE DEF p
    <2> QED BY <2>2, NumberIs
  <1>5. full \in BOOLEAN
    BY <1>2
  <1>6. sum \in Int
    <2>1. IsFiniteSet(0..(N-1))
      <3>1. 0 \in Int /\ N-1 \in Int
        BY Constants
      <3> QED BY <3>1, FS_Interval
    <2> HIDE DEF data, full
    <2>2. SumOf(data) \in Int
      BY <1>3, <2>1, SumIsInt
    <2> QED BY <1>2, <2>2
  <1>7. ts \in Times \cup {0}
    OBVIOUS
  <1> HIDE DEF data, full, at, sum, p
  <1> HIDE DEF new
  <1>8. /\ new \in SensorRec
        /\ new.room_id = s.room_id /\ new.sensor_id = s.sensor_id
        /\ new.from = s.from
        /\ new.last_modified = ts /\ new.data_buffer = data
        /\ new.buffer_position = at /\ new.sum = sum /\ new.take_avg = full
    <2>1. IsChanged(new, s, data, at, full, ts, sum)
      BY <1>3, <1>4, <1>5, <1>6, <1>7, ChangedSensor, Zenon DEF new
    <2> QED BY <2>1, Zenon DEF IsChanged
  <1>9. /\ new.data_buffer = [s.data_buffer EXCEPT ![s.buffer_position] = value]
        /\ new.buffer_position = IF p = N THEN 0 ELSE p
        /\ new.sum = IF s.take_avg \/ p = N THEN SumOf(new.data_buffer) ELSE s.sum
    <2>1. new.data_buffer = [s.data_buffer EXCEPT ![s.buffer_position] = value]
      BY <1>8, Zenon DEF data
    <2>2. new.buffer_position = IF p = N THEN 0 ELSE p
      BY <1>8, Zenon DEF at
    <2>3. new.sum = IF s.take_avg \/ p = N THEN SumOf(new.data_buffer) ELSE s.sum
      BY <1>8, Zenon DEF sum, full
    <2> QED BY <2>1, <2>2, <2>3
  <1>10. new.take_avg = (s.take_avg \/ p = N)
    BY <1>8, Zenon DEF full
  <1>11. IsAdded(new, s, value, ts)
    BY <1>8, <1>9, <1>10, Zenon DEF p, IsAdded
  <1> QED BY <1>1, <1>11, Zenon


\* The position after p in the buffer.
Turned(p) == IF p + 1 = N THEN 0 ELSE p + 1

\* The count does not wrap where the buffer ends.
LEMMA AfterIs ==
    ASSUME NEW p \in Nat, p < 65535
    PROVE  After(p) = p + 1
  BY DEF After

\* The slots behind a position, and behind the one after it.
LEMMA Slots ==
    ASSUME NEW p \in Nat, p < N
    PROVE  /\ Slot(Turned(p), 1) = p
           /\ \A d \in 2..N : /\ Slot(Turned(p), d) = Slot(p, d-1)
                              /\ Slot(p, d-1) # p
           /\ \A d \in 1..N : Slot(p, d) \in 0..(N-1)
           /\ \A d, e \in 1..N : Slot(p, d) = Slot(p, e) => d = e
           /\ \A z \in 0..(N-1) : \E d \in 1..N : Slot(p, d) = z
  <1>0. N \in Nat /\ N > 0
    BY Constants
  <1>1. /\ Slot(Turned(p), 1) = p
        /\ \A d \in 2..N : /\ Slot(Turned(p), d) = Slot(p, d-1)
                           /\ Slot(p, d-1) # p
    BY <1>0 DEF Slot, Turned
  <1>2. \A d \in 1..N : Slot(p, d) \in 0..(N-1)
    BY <1>0 DEF Slot
  <1>3. \A d, e \in 1..N : Slot(p, d) = Slot(p, e) => d = e
    BY <1>0 DEF Slot
  <1>4. ASSUME NEW z \in 0..(N-1) PROVE \E d \in 1..N : Slot(p, d) = z
    <2>1. CASE z < p
      <3>1. p - z \in 1..N /\ Slot(p, p - z) = z
        BY <1>0, <2>1 DEF Slot
      <3> QED BY <3>1
    <2>2. CASE ~(z < p)
      <3>1. p - z + N \in 1..N /\ Slot(p, p - z + N) = z
        BY <1>0, <2>2 DEF Slot
      <3> QED BY <3>1
    <2> QED BY <2>1, <2>2
  <1> QED BY <1>1, <1>2, <1>3, <1>4

\* The last values of a sensor after one more.
Remembered(r, value) ==
    LET all == Append(r, value)
    IN  IF Len(all) > RUN_AVG_LENGTH THEN Tail(all) ELSE all

\* They are counted from the newest.
IsRemembered(t, r, value) ==
    /\ t \in Seq(Values)
    /\ Len(t) = IF Len(r) = N THEN N ELSE Len(r) + 1
    /\ \A d \in 1..Len(t) :
         t[Len(t) + 1 - d] = IF d = 1 THEN value ELSE r[Len(r) + 1 - (d-1)]

\* So they are.
LEMMA RememberedIs ==
    ASSUME NEW r \in Seq(Values), Len(r) <= N, NEW value \in Values
    PROVE  IsRemembered(Remembered(r, value), r, value)
  <1> DEFINE all == Append(r, value)
             q == Len(r)
  <1>0. PICK t : t = Remembered(r, value)
    OBVIOUS
  <1>1. /\ all \in Seq(Values) /\ Len(all) = q + 1 /\ q \in Nat
        /\ all[q+1] = value /\ \A i \in 1..q : all[i] = r[i]
    BY AppendProperties
  <1>2. N \in Nat /\ N > 0 /\ RUN_AVG_LENGTH = N
    BY Constants
  <1>3. t = IF Len(all) > N THEN Tail(all) ELSE all
    BY <1>0, <1>2 DEF Remembered
  <1> HIDE DEF all
  <1>4. ASSUME q = N PROVE IsRemembered(t, r, value)
    <2>1. t = Tail(all)
      BY <1>1, <1>2, <1>3, <1>4
    <2>2. all # <<>>
      BY <1>1
    <2>3. /\ t \in Seq(Values) /\ Len(t) = Len(all) - 1
          /\ \A i \in 1..Len(t) : t[i] = all[i+1]
      BY <1>1, <2>1, <2>2, HeadTailProperties
    <2>4. Len(t) = q
      BY <1>1, <2>3
    <2>5. ASSUME NEW d \in 1..Len(t)
          PROVE  t[Len(t) + 1 - d] = IF d = 1 THEN value ELSE r[q + 1 - (d-1)]
      <3>1. q + 1 - d \in 1..Len(t) /\ d \in 1..q
        BY <1>1, <2>4
      <3>2. t[Len(t) + 1 - d] = all[q + 1 - d + 1]
        BY <2>3, <2>4, <3>1
      <3>3. CASE d = 1
        <4>1. q + 1 - d + 1 = q + 1
          BY <1>1, <3>3
        <4> QED BY <1>1, <3>2, <3>3, <4>1
      <3>4. CASE d # 1
        <4>1. q + 1 - d + 1 = q + 1 - (d-1) /\ q + 1 - d + 1 \in 1..q
          BY <1>1, <3>1, <3>4
        <4> QED BY <1>1, <3>2, <3>4, <4>1
      <3> QED BY <3>3, <3>4
    <2> QED BY <1>4, <2>3, <2>4, <2>5 DEF IsRemembered
  <1>5. ASSUME q # N PROVE IsRemembered(t, r, value)
    <2>1. t = all
      BY <1>1, <1>2, <1>3, <1>5
    <2>2. t \in Seq(Values) /\ Len(t) = q + 1
      BY <1>1, <2>1
    <2>3. ASSUME NEW d \in 1..Len(t)
          PROVE  t[Len(t) + 1 - d] = IF d = 1 THEN value ELSE r[q + 1 - (d-1)]
      <3>1. t[Len(t) + 1 - d] = all[q + 1 + 1 - d]
        BY <2>1, <2>2
      <3>2. CASE d = 1
        <4>1. q + 1 + 1 - d = q + 1
          BY <1>1, <3>2
        <4> QED BY <1>1, <3>1, <3>2, <4>1
      <3>3. CASE d # 1
        <4>1. q + 1 + 1 - d = q + 1 - (d-1) /\ q + 1 + 1 - d \in 1..q
          BY <1>1, <2>2, <3>3
        <4> QED BY <1>1, <3>1, <3>3, <4>1
      <3> QED BY <3>2, <3>3
    <2> QED BY <1>5, <2>2, <2>3 DEF IsRemembered
  <1>6. IsRemembered(t, r, value)
    BY <1>4, <1>5
  <1> QED BY <1>0, <1>6, Zenon

\* A record leaves the element that it updates with the last values of its sensor.
LEMMA BufferAdds ==
    ASSUME NEW s \in SensorRec, NEW value \in Values, NEW ts \in Times,
           NEW r \in Seq(Values), Len(r) <= N, Buffer(s, r), s.buffer_position < N
    PROVE  Buffer(Added(s, value, ts), Remembered(r, value))
  <1> DEFINE p == s.buffer_position
             q == Len(r)
             new == Added(s, value, ts)
             t == Remembered(r, value)
             at == Turned(p)
  <1>1. /\ p \in Nat /\ p < N /\ q \in Nat /\ q <= N
        /\ s.data_buffer \in [0..(N-1) -> Int]
    <2>1. p \in Number /\ s.data_buffer \in [0..(N-1) -> Int]
      BY DEF SensorRec
    <2> QED BY <2>1, NumberIs, LenProperties
  <1>2. N \in Nat /\ N > 0 /\ N <= 65535 /\ Values \subseteq Int
    BY Constants
  <1>3. After(p) = p + 1
    <2>1. p \in Nat /\ p < 65535
      BY <1>1, <1>2
    <2> QED BY <2>1, AfterIs
  <1>0. IsAdded(new, s, value, ts)
    BY AddedIs, Zenon
  <1>4. /\ new.from = s.from
        /\ new.data_buffer = [s.data_buffer EXCEPT ![p] = value]
        /\ new.buffer_position = at
        /\ new.sum = IF s.take_avg \/ p + 1 = N THEN SumOf(new.data_buffer) ELSE s.sum
    BY <1>0, <1>3 DEF Turned, IsAdded
  <1>5. new.take_avg <=> (s.take_avg \/ p + 1 = N)
    <2>1. new.take_avg = (s.take_avg \/ After(p) = N)
      BY <1>0, Zenon DEF IsAdded
    <2> QED BY <1>3, <2>1, Zenon
  <1>6. /\ Len(t) = IF q = N THEN N ELSE q + 1
        /\ \A d \in 1..Len(t) :
             t[Len(t) + 1 - d] = IF d = 1 THEN value ELSE r[q + 1 - (d-1)]
    <2>1. IsRemembered(t, r, value)
      BY RememberedIs, Zenon
    <2> QED BY <2>1, Zenon DEF IsRemembered
  <1>7. /\ \A d \in 1..q : s.data_buffer[Slot(p, d)] = r[q + 1 - d]
        /\ (~s.take_avg => ~s.from.full /\ s.sum = 0 /\ p = s.from.position + q)
        /\ (Zeroed(s) /\ q < N => ~s.take_avg)
    BY Zenon DEF Buffer
  <1>8. /\ Slot(at, 1) = p
        /\ \A d \in 2..N : Slot(at, d) = Slot(p, d-1) /\ Slot(p, d-1) # p
        /\ \A d \in 1..N : Slot(p, d) \in 0..(N-1)
    <2>1. p \in Nat /\ p < N
      BY <1>1
    <2> QED BY <2>1, Slots, Zenon
  <1>9. s.from.position \in Nat
    <2>1. s.from \in Fresh
      BY DEF SensorRec
    <2> QED BY <2>1, Constants, NumberIs
  <1> HIDE DEF new, t, at, q
  <1>10. Len(t) \in 1..N
    BY <1>1, <1>2, <1>6
  <1>11. at < N /\ at \in Nat
    BY <1>1, <1>2 DEF at, Turned
  <1>12. ASSUME NEW d \in 1..Len(t)
         PROVE  new.data_buffer[Slot(at, d)] = t[Len(t) + 1 - d]
    <2>1. CASE d = 1
      <3>1. new.data_buffer[p] = value
        BY <1>1, <1>2, <1>4
      <3> QED BY <1>6, <1>8, <2>1, <3>1
    <2>2. CASE d # 1
      <3>1. d \in 2..N /\ d-1 \in 1..q /\ d-1 \in 1..N
        BY <1>1, <1>2, <1>6, <1>10, <2>2
      <3>2. Slot(at, d) = Slot(p, d-1) /\ Slot(p, d-1) # p /\ Slot(p, d-1) \in 0..(N-1)
        BY <1>8, <3>1
      <3>3. new.data_buffer[Slot(at, d)] = s.data_buffer[Slot(p, d-1)]
        BY <1>1, <1>4, <3>2
      <3> QED BY <1>6, <1>7, <2>2, <3>1, <3>3
    <2> QED BY <2>1, <2>2
  <1>13. ~new.take_avg =>
           ~new.from.full /\ new.sum = 0 /\ at = new.from.position + Len(t)
    <2> SUFFICES ASSUME ~new.take_avg
                 PROVE  ~new.from.full /\ new.sum = 0 /\ at = new.from.position + Len(t)
      OBVIOUS
    <2>1. ~s.take_avg /\ p + 1 # N
      BY <1>5, Zenon
    <2>2. ~s.from.full /\ s.sum = 0 /\ p = s.from.position + q
      BY <1>7, <2>1, Zenon
    <2>3. new.sum = 0 /\ at = p + 1
      BY <1>4, <2>1, <2>2 DEF at, Turned
    <2>4. q # N
      BY <1>1, <1>2, <1>9, <2>2
    <2>5. at = s.from.position + Len(t)
      <3>1. Len(t) = q + 1
        BY <1>6, <2>4
      <3>2. \A a, c \in Nat : (a + c) + 1 = a + (c + 1)
        OBVIOUS
      <3> QED BY <1>1, <1>9, <2>2, <2>3, <3>1, <3>2, Zenon
    <2>6. ~new.from.full
      BY <1>4, <2>2, Zenon
    <2> QED BY <1>4, <2>3, <2>5, <2>6, Zenon
  <1>14. new.take_avg => new.sum = SumOf(new.data_buffer)
    <2>1. new.take_avg => s.take_avg \/ p + 1 = N
      BY <1>5, Zenon
    <2> QED BY <1>4, <2>1, Zenon
  <1>15. ASSUME Zeroed(new), Len(t) < N PROVE ~new.take_avg
    <2>1. Zeroed(s)
      BY <1>4, <1>15, Zenon DEF Zeroed
    <2>2. q < N /\ q + 1 < N
      BY <1>1, <1>2, <1>6, <1>15
    <2>3. ~s.take_avg
      BY <1>7, <2>1, <2>2, Zenon
    <2>4. p = q
      <3>1. s.from.position = 0
        BY <2>1 DEF Zeroed
      <3>2. p = s.from.position + q
        BY <1>7, <2>3, Zenon
      <3> QED BY <1>1, <3>1, <3>2
    <2>5. p + 1 # N
      BY <1>1, <1>2, <2>2, <2>4
    <2> QED BY <1>5, <2>3, <2>5, Zenon
  <1>16. Len(t) # 0
    BY <1>10
  <1> QED BY <1>4, <1>11, <1>12, <1>13, <1>14, <1>15, <1>16, Zenon DEF Buffer, new, t

\* A sensor of which N values came in: the sum of an element is that of the last N.
LEMMA FullSum ==
    ASSUME NEW s \in SensorRec, NEW r \in Seq(Values), Len(r) = N, Buffer(s, r)
    PROVE  s.take_avg /\ s.sum = SumOf(r)
  <1> DEFINE p == s.buffer_position
             data == s.data_buffer
  <1>1. N \in Nat /\ N > 0 /\ Values \subseteq Int
    BY Constants
  <1>2. /\ (Len(r) > 0 => p < N)
        /\ \A d \in 1..Len(r) : data[Slot(p, d)] = r[Len(r) + 1 - d]
        /\ (~s.take_avg => p = s.from.position + Len(r))
        /\ (s.take_avg /\ Len(r) > 0 => s.sum = SumOf(data))
    BY Zenon DEF Buffer
  <1>3. p \in Nat /\ p < N /\ data \in [0..(N-1) -> Int] /\ s.from.position \in Nat
    <2>1. p \in Number /\ data \in [0..(N-1) -> Int] /\ s.from \in Fresh
      BY DEF SensorRec
    <2> QED BY <1>1, <1>2, <2>1, NumberIs, Constants
  <1> HIDE DEF p, data
  <1>4. s.take_avg
    <2>1. p # s.from.position + Len(r)
      BY <1>1, <1>3
    <2> QED BY <1>2, <2>1, Zenon
  <1>5. s.sum = SumOf(data)
    BY <1>1, <1>2, <1>4
  <1> DEFINE b == [i \in 1..N |-> Slot(p, N + 1 - i)]
  <1>6. /\ \A d \in 1..N : Slot(p, d) \in 0..(N-1)
        /\ \A d, e \in 1..N : Slot(p, d) = Slot(p, e) => d = e
        /\ \A z \in 0..(N-1) : \E d \in 1..N : Slot(p, d) = z
    <2>1. N > 0 /\ p < N /\ N \in Nat /\ p \in Nat
      BY <1>1, <1>3
    <2> QED BY <2>1, Slots
  <1>7. \A i \in 1..N : N + 1 - i \in 1..N /\ N + 1 - (N + 1 - i) = i
    BY <1>1
  <1>8. b \in [1..N -> 0..(N-1)]
    BY <1>6, <1>7
  <1>9. \A x, y \in 1..N : b[x] = b[y] => x = y
    <2> TAKE x \in 1..N, y \in 1..N
    <2> HAVE b[x] = b[y]
    <2>1. N + 1 - x = N + 1 - y
      BY <1>6, <1>7
    <2> QED BY <1>1, <2>1
  <1>10. \A z \in 0..(N-1) : \E x \in 1..N : b[x] = z
    <2> TAKE z \in 0..(N-1)
    <2>1. PICK d \in 1..N : Slot(p, d) = z
      BY <1>6
    <2>2. b[N + 1 - d] = z
      BY <1>7, <2>1
    <2> QED BY <1>7, <2>2
  <1>11. \A x \in 1..N : data[b[x]] = r[x]
    <2> TAKE x \in 1..N
    <2>1. data[Slot(p, N + 1 - x)] = r[N + 1 - (N + 1 - x)]
      BY <1>2, <1>7 DEF p, data
    <2> QED BY <1>7, <2>1
  <1>12. r \in [1..N -> Int]
    <2>1. r \in [1..N -> Values]
      BY LenProperties
    <2> QED BY <1>1, <2>1
  <1>13. IsFiniteSet(1..N) /\ IsFiniteSet(0..(N-1))
    <2>1. 0 \in Int /\ 1 \in Int /\ N \in Int /\ N-1 \in Int
      BY <1>1
    <2> QED BY <2>1, FS_Interval
  <1> HIDE DEF b
  <1>14. SumOf(r) = SumOf(data)
    <2> DEFINE S == 1..N
               T == 0..(N-1)
    <2>1. IsFiniteSet(S) /\ IsFiniteSet(T)
      BY <1>13
    <2>2. r \in [S -> Int] /\ data \in [T -> Int] /\ b \in [S -> T]
      BY <1>3, <1>8, <1>12
    <2>3. \A x, y \in S : b[x] = b[y] => x = y
      BY <1>9
    <2>4. \A z \in T : \E x \in S : b[x] = z
      BY <1>10
    <2>5. \A x \in S : data[b[x]] = r[x]
      BY <1>11
    <2> HIDE DEF S, T
    <2>6. Rearranges(b, S, r, T, data)
      BY <2>1, <2>2, <2>3, <2>4, <2>5 DEF Rearranges
    <2> QED BY <2>6, SumMoves
  <1> QED BY <1>4, <1>5, <1>14


\* It stays in the buffer.
LEMMA AddedInside ==
    ASSUME NEW s \in SensorRec, NEW value \in Values, NEW ts \in Times,
           s.buffer_position < N
    PROVE  Added(s, value, ts).buffer_position < N
  <1>1. N \in Nat /\ N > 0 /\ N <= 65535
    BY Constants
  <1>2. s.buffer_position \in Nat
    <2>1. s.buffer_position \in Number
      BY DEF SensorRec
    <2> QED BY <2>1, NumberIs
  <1>3. After(s.buffer_position) = s.buffer_position + 1
    <2>1. s.buffer_position < 65535
      BY <1>1, <1>2
    <2> QED BY <1>2, <2>1, AfterIs
  <1>4. IsAdded(Added(s, value, ts), s, value, ts)
    BY AddedIs, Zenon
  <1>5. Added(s, value, ts).buffer_position =
          IF After(s.buffer_position) = N THEN 0 ELSE After(s.buffer_position)
    BY <1>4, Zenon DEF IsAdded
  <1> QED BY <1>1, <1>2, <1>3, <1>5

\* A new element is an element of a sensor that no value came from.
LEMMA FreshSensor ==
    ASSUME NEW room \in Number, NEW id \in Number, NEW f \in Fresh, NEW s,
           s = Sensor(room, id, f)
    PROVE  /\ s \in SensorRec /\ Buffer(s, <<>>)
           /\ s.room_id = room /\ s.sensor_id = id
           /\ s.from = f /\ s.buffer_position = f.position
  <1>1. s = [room_id |-> room, sensor_id |-> id, sum |-> 0, last_modified |-> 0,
             data_buffer |-> f.data, buffer_position |-> f.position,
             take_avg |-> f.full, from |-> f]
    BY DEF Sensor, CopiedTime
  <1>2. f.data \in [0..(N-1) -> Int] /\ f.position \in Number /\ f.full \in BOOLEAN
    BY Constants
  <1>3. s \in SensorRec
    BY <1>1, <1>2 DEF SensorRec
  <1>4. /\ s.room_id = room /\ s.sensor_id = id /\ s.sum = 0
        /\ s.from = f /\ s.buffer_position = f.position
    BY <1>1
  <1>5. s.take_avg = f.full
    BY <1>1
  <1>6. f.position \in Nat
    BY <1>2, NumberIs
  <1>7. Len(<<>>) = 0 /\ ~(0 > 0) /\ f.position = f.position + 0
        /\ \A d \in 1..0 : FALSE
    BY <1>6
  <1>8. Buffer(s, <<>>)
    BY <1>4, <1>5, <1>7, Zenon DEF Buffer, Zeroed
  <1> QED BY <1>3, <1>4, <1>8

-----------------------------------------------------------------------------
(* The steps.                                                              *)

\* At first the list is empty, and all pieces are still to be read.
LEMMA InitHolds == Init => DInv
  <1> SUFFICES ASSUME Init PROVE DInv
    OBVIOUS
  <1>1. map \in Maps /\ map \in Seq(MapLine)
    BY Constants DEF Init
  <1>2. pieces = AllPieces(map)
    BY Zenon DEF Init, AllPieces
  <1>3. AllPieces(map) \in Seq(Seq(Number))
    BY <1>1, LineOfCovers DEF Covers
  <1>4. 0 \in Number
    BY NumberIs
  <1>5. sensor_list = <<>> /\ Len(sensor_list) = 0 /\ Entries = {}
    BY DEF Init, Entries
  <1>6. Types
    <2>1. recent \in [Ids -> Seq(Values)] /\ \A id \in Ids : Len(recent[id]) <= N
      BY Constants DEF Init
    <2>2. lastTs \in [Ids -> Times \cup {0}]
      BY DEF Init
    <2> QED BY <1>1, <1>2, <1>3, <1>4, <1>5, <2>1, <2>2 DEF Init, Types
  <1>7. Reading
    <2>1. state = "map"
      BY DEF Init
    <2>2. Len(AllPieces(map)) \in Nat
      BY <1>3
    <2> HIDE DEF Init
    <2> QED BY <1>2, <1>5, <2>1, <2>2 DEF Reading
  <1>8. Buffers
    BY <1>5 DEF Buffers, Init
  <1>9. Inside
    BY <1>5 DEF Inside, Init
  <1> QED BY <1>6, <1>7, <1>8, <1>9 DEF DInv

\* A piece makes the element of its line.
LEMMA ReadPieceHolds ==
    ASSUME DInv, ReadPiece
    PROVE  DInv'
  <1> DEFINE L == Len(sensor_list)
             e(f) == Sensor(r_id', s_id', f)
  <1>1. PICK f \in Fresh : sensor_list' = <<e(f)>> \o sensor_list
    BY DEF ReadPiece, ListWith
  <1>2. Types /\ Reading /\ Buffers /\ Inside
    BY DEF DInv
  <1>3. /\ pieces \in Seq(Seq(Number)) /\ pieces # <<>> /\ pieces' = Tail(pieces)
        /\ state = "map" /\ state' = "map" /\ map' = map /\ recent' = recent
        /\ lastTs' = lastTs /\ logged' = logged
    BY <1>2 DEF ReadPiece, Types
  <1>4. /\ pieces[1] \in Seq(Number) /\ Head(pieces) = pieces[1] /\ Len(pieces) \in Nat
        /\ Len(pieces) > 0 /\ pieces' \in Seq(Seq(Number))
        /\ Len(pieces') = Len(pieces) - 1
        /\ \A i \in 1..Len(pieces') : pieces'[i] = pieces[i+1]
    <2>1. Len(pieces) \in Nat \ {0}
      BY <1>3, EmptySeq
    <2>2. 1 \in 1..Len(pieces)
      BY <2>1
    <2>3. pieces[1] \in Seq(Number)
      BY <1>3, <2>2, ElementOfSeq
    <2>4. Head(pieces) = pieces[1]
      BY <1>3
    <2> QED BY <1>3, <2>1, <2>3, <2>4, HeadTailProperties
  <1> DEFINE h == pieces[1]
  <1>5. /\ r_id' = IF Len(h) > 0 THEN h[1] ELSE r_id
        /\ s_id' = IF Len(h) > 1 THEN h[2] ELSE s_id
    BY <1>4 DEF ReadPiece
  <1>6. r_id' \in Number /\ s_id' \in Number
    <2>1. r_id \in Number /\ s_id \in Number
      BY <1>2 DEF Types
    <2>2. \A i \in 1..Len(h) : h[i] \in Number
      BY <1>4, ElementOfSeq
    <2>3. Len(h) \in Nat
      BY <1>4
    <2> HIDE DEF h
    <2>4. Len(h) > 0 => 1 \in 1..Len(h)
      BY <2>3
    <2>5. Len(h) > 1 => 2 \in 1..Len(h)
      BY <2>3
    <2> QED BY <1>5, <2>1, <2>2, <2>4, <2>5
  <1>7. PICK s : s = e(f)
    OBVIOUS
  <1>8. /\ s \in SensorRec /\ Buffer(s, <<>>)
        /\ s.room_id = r_id' /\ s.sensor_id = s_id'
        /\ s.from = f /\ s.buffer_position = f.position
    BY <1>6, <1>7, FreshSensor
  <1>9. /\ sensor_list' \in Seq(SensorRec) /\ L \in Nat /\ Len(sensor_list') = L + 1
        /\ sensor_list'[1] = s /\ \A i \in 2..(L+1) : sensor_list'[i] = sensor_list[i-1]
    <2> DEFINE a == <<s>>
    <2>1. /\ a \in Seq(SensorRec) /\ Len(a) = 1 /\ a[1] = s
          /\ sensor_list \in Seq(SensorRec) /\ L \in Nat
      <3>1. sensor_list \in Seq(SensorRec)
        BY <1>2 DEF Types
      <3>2. L \in Nat
        BY <3>1, LenProperties
      <3> HIDE DEF L
      <3> QED BY <1>8, <3>1, <3>2
    <2>2. sensor_list' = a \o sensor_list
      BY <1>1, <1>7
    <2> HIDE DEF a
    <2>3. /\ a \o sensor_list \in Seq(SensorRec)
          /\ Len(a \o sensor_list) = Len(a) + L
          /\ \A i \in 1..(Len(a) + L) : (a \o sensor_list)[i] =
                IF i <= Len(a) THEN a[i] ELSE sensor_list[i - Len(a)]
      BY <2>1, ConcatProperties
    <2> QED BY <2>1, <2>2, <2>3
  <1>10. Types'
    BY <1>2, <1>3, <1>4, <1>6, <1>9 DEF Types
  <1>11. Buffers'
    <2>1. \A id \in Ids : recent'[id] = <<>>
      BY <1>2, <1>3 DEF Buffers
    <2>2. ASSUME NEW i \in 1..(L+1), sensor_list'[i].sensor_id \in Ids
          PROVE  Buffer(sensor_list'[i], recent'[sensor_list'[i].sensor_id])
      <3>1. CASE i = 1
        BY <1>8, <1>9, <2>1, <2>2, <3>1
      <3>2. CASE i # 1
        <4>1. i \in 2..(L+1) /\ i-1 \in 1..L
          BY <1>9, <3>2
        <4> QED BY <1>2, <1>3, <1>9, <2>2, <4>1 DEF Buffers, Entries
      <3> QED BY <3>1, <3>2
    <2> QED BY <1>9, <2>1, <2>2 DEF Buffers, Entries
  <1>12. Inside'
    <2>1. ASSUME NEW i \in 1..(L+1), sensor_list'[i].from.position < N
          PROVE  sensor_list'[i].buffer_position < N
      <3>1. CASE i = 1
        BY <1>8, <1>9, <2>1, <3>1
      <3>2. CASE i # 1
        <4>1. i \in 2..(L+1) /\ i-1 \in 1..L
          BY <1>9, <3>2
        <4> QED BY <1>2, <1>9, <2>1, <4>1 DEF Inside, Entries
      <3> QED BY <3>1, <3>2
    <2> QED BY <1>3, <1>9, <2>1 DEF Inside, Entries
  <1> DEFINE on == LineOf(map)
             all == AllPieces(map)
  <1>13. /\ all \in Seq(Seq(Number)) /\ on \in [1..Len(all) -> 1..Len(map)]
         /\ \A k \in 1..Len(all) : Behind(map[on[k]]) = 0 =>
              \/ all[k] = <<map[on[k]].room, map[on[k]].id>>
              \/ all[k] = <<>> /\ k > 1 /\ on[k-1] = on[k]
    <2>1. map \in Seq(MapLine)
      <3>1. map \in Maps
        BY <1>2 DEF Types
      <3> QED BY <3>1, Constants
    <2>2. Covers(map, Len(map), all, on)
      BY <2>1, LineOfCovers
    <2> QED BY <2>2 DEF Covers
  <1> HIDE DEF on, all
  <1>14. L + Len(pieces) = Len(all) /\ \A k \in 1..Len(pieces) : pieces[k] = all[L + k]
    BY <1>2, <1>3 DEF Reading, all
  <1>15. L + 1 \in 1..Len(all) /\ all[L+1] = h
    BY <1>4, <1>9, <1>14
  <1>16. ASSUME Whole(map)
         PROVE  r_id' = map[on[L+1]].room /\ s_id' = map[on[L+1]].id
    <2>1. Behind(map[on[L+1]]) = 0
      BY <1>13, <1>15, <1>16 DEF Whole
    <2>2. CASE all[L+1] = <<map[on[L+1]].room, map[on[L+1]].id>>
      <3>1. Len(h) = 2 /\ h[1] = map[on[L+1]].room /\ h[2] = map[on[L+1]].id
        BY <1>15, <2>2
      <3> HIDE DEF h
      <3> QED BY <1>5, <3>1
    <2>3. CASE all[L+1] = <<>> /\ L+1 > 1 /\ on[L+1-1] = on[L+1]
      <3>1. Len(h) = 0 /\ L > 0 /\ on[L] = on[L+1]
        BY <1>9, <1>15, <2>3
      <3>2. r_id = map[on[L]].room /\ s_id = map[on[L]].id
        BY <1>2, <1>3, <1>16, <3>1 DEF Reading, From, on
      <3> HIDE DEF h
      <3> QED BY <1>5, <3>1, <3>2
    <2> QED BY <1>13, <1>15, <2>1, <2>2, <2>3
  <1>17. ASSUME Whole(map), NEW k \in 1..(L+1)
         PROVE  /\ sensor_list'[L+1+1-k].room_id = map[on[k]].room
                /\ sensor_list'[L+1+1-k].sensor_id = map[on[k]].id
    <2>1. CASE k = L+1
      <3>1. L+1+1-k = 1
        BY <1>9, <2>1
      <3> QED BY <1>8, <1>9, <1>16, <1>17, <2>1, <3>1
    <2>2. CASE k # L+1
      <3>1. k \in 1..L /\ L+1+1-k \in 2..(L+1) /\ L+1+1-k-1 = L+1-k
        BY <1>9, <2>2
      <3>2. sensor_list'[L+1+1-k] = sensor_list[L+1-k]
        BY <1>9, <3>1
      <3>3. Made(k).room_id = map[on[k]].room /\ Made(k).sensor_id = map[on[k]].id
        BY <1>2, <1>3, <1>17, <3>1 DEF Reading, From, on
      <3> QED BY <3>2, <3>3 DEF Made
    <2> QED BY <2>1, <2>2
  <1>18. Reading'
    <2>1. Len(sensor_list') + Len(pieces') = Len(all)
      <3>1. \A a, b \in Nat : (a + 1) + (b - 1) = a + b
        OBVIOUS
      <3> QED BY <1>4, <1>9, <1>14, <3>1
    <2>2. \A k \in 1..Len(pieces') : pieces'[k] = all[Len(sensor_list') + k]
      <3> TAKE k \in 1..Len(pieces')
      <3>1. k+1 \in 1..Len(pieces) /\ Len(sensor_list') + k = L + (k+1)
        BY <1>4, <1>9
      <3> QED BY <1>4, <1>14, <3>1
    <2>3. Len(sensor_list') = L+1
      BY <1>9
    <2>4. ASSUME Whole(map)
          PROVE  /\ \A k \in 1..Len(sensor_list') :
                     /\ sensor_list'[Len(sensor_list')+1-k].room_id = map[on[k]].room
                     /\ sensor_list'[Len(sensor_list')+1-k].sensor_id = map[on[k]].id
                 /\ r_id' = map[on[Len(sensor_list')]].room
                 /\ s_id' = map[on[Len(sensor_list')]].id
      BY <1>16, <1>17, <2>3, <2>4
    <2> QED BY <1>3, <2>1, <2>2, <2>4, Zenon DEF Reading, Made, From, on, all
  <1> QED BY <1>10, <1>11, <1>12, <1>18 DEF DInv


\* What a step leaves alone.
LEMMA SameHolds ==
    ASSUME DInv, UNCHANGED dataVars
    PROVE  DInv'
  <1>1. /\ map' = map /\ pieces' = pieces /\ r_id' = r_id /\ s_id' = s_id
        /\ sensor_list' = sensor_list /\ logged' = logged /\ state' = state
        /\ recent' = recent /\ lastTs' = lastTs
    BY DEF dataVars
  <1>2. Types' <=> Types
    BY <1>1, Zenon DEF Types
  <1>3. Reading' <=> Reading
    BY <1>1, Zenon DEF Reading, Made, From
  <1>4. Buffers' <=> Buffers
    BY <1>1, Zenon DEF Buffers, Entries
  <1>5. Inside' <=> Inside
    BY <1>1, Zenon DEF Inside, Entries
  <1> QED BY <1>2, <1>3, <1>4, <1>5 DEF DInv

\* When nothing is left to read, there is an element for every piece.
LEMMA MapReadHolds ==
    ASSUME DInv, MapRead
    PROVE  DInv'
  <1>1. /\ map' = map /\ pieces' = pieces /\ r_id' = r_id /\ s_id' = s_id
        /\ sensor_list' = sensor_list /\ logged' = logged /\ state' = "run"
        /\ recent' = recent /\ lastTs' = lastTs /\ state = "map" /\ pieces = <<>>
    BY DEF MapRead
  <1>2. Types /\ Reading /\ Buffers /\ Inside
    BY DEF DInv
  <1>3. Types'
    BY <1>1, <1>2 DEF Types
  <1>4. Len(sensor_list) = Len(AllPieces(map))
    <2>1. sensor_list \in Seq(SensorRec) /\ Len(pieces) = 0
      BY <1>1, <1>2 DEF Types
    <2>2. Len(sensor_list) \in Nat
      BY <2>1, LenProperties
    <2>3. Len(sensor_list) + Len(pieces) = Len(AllPieces(map))
      BY <1>1, <1>2 DEF Reading
    <2> QED BY <2>1, <2>2, <2>3
  <1>5. Reading'
    <2>1. Whole(map) => \A k \in 1..Len(sensor_list) :
            Made(k).room_id = From(k).room /\ Made(k).sensor_id = From(k).id
      BY <1>1, <1>2 DEF Reading
    <2> QED BY <1>1, <1>4, <2>1 DEF Reading, Made, From
  <1>6. Buffers'
    BY <1>1, <1>2 DEF Buffers, Entries
  <1>7. Inside'
    BY <1>1, <1>2 DEF Inside, Entries
  <1> QED BY <1>3, <1>5, <1>6, <1>7 DEF DInv

\* The elements after a record, and the memory of the sensor's values.
AfterRecord(id, value, ts) ==
    /\ Len(sensor_list') = Len(sensor_list)
    /\ \A i \in Entries :
         /\ sensor_list[i] \in SensorRec /\ sensor_list'[i] \in SensorRec
         /\ sensor_list'[i].room_id = sensor_list[i].room_id
         /\ sensor_list'[i].sensor_id = sensor_list[i].sensor_id
         /\ sensor_list'[i].from = sensor_list[i].from
         /\ IF sensor_list[i].sensor_id = id
            THEN /\ sensor_list[i].buffer_position < N
                 /\ sensor_list'[i] = Added(sensor_list[i], value, ts)
            ELSE sensor_list'[i] = sensor_list[i]

\* So they are.
LEMMA AfterRecordIs ==
    ASSUME DInv, NEW id \in Ids, NEW value \in Values, NEW ts \in Times,
           AddSensorData(id, value, ts)
    PROVE  AfterRecord(id, value, ts) /\ sensor_list' \in Seq(SensorRec)
  <1>1. /\ \A i \in Updated(id) : sensor_list[i].buffer_position < RUN_AVG_LENGTH
        /\ sensor_list' = [i \in Entries |->
             IF i \in Updated(id) THEN Added(sensor_list[i], value, ts)
                                  ELSE sensor_list[i]]
    BY DEF AddSensorData
  <1>2. sensor_list \in Seq(SensorRec) /\ Len(sensor_list) \in Nat
    <2>1. sensor_list \in Seq(SensorRec)
      BY DEF DInv, Types
    <2> QED BY <2>1, LenProperties
  <1>3. \A i \in Entries : i \in Updated(id) <=> sensor_list[i].sensor_id = id
    BY DEF Updated, Matches
  <1>4. ASSUME NEW i \in Entries
        PROVE  /\ sensor_list[i] \in SensorRec /\ sensor_list'[i] \in SensorRec
               /\ sensor_list'[i].room_id = sensor_list[i].room_id
               /\ sensor_list'[i].sensor_id = sensor_list[i].sensor_id
               /\ sensor_list'[i].from = sensor_list[i].from
               /\ IF sensor_list[i].sensor_id = id
                  THEN /\ sensor_list[i].buffer_position < N
                       /\ sensor_list'[i] = Added(sensor_list[i], value, ts)
                  ELSE sensor_list'[i] = sensor_list[i]
    <2>1. sensor_list[i] \in SensorRec
      BY <1>2 DEF Entries
    <2>2. CASE sensor_list[i].sensor_id = id
      <3>1. sensor_list'[i] = Added(sensor_list[i], value, ts)
        BY <1>1, <1>3, <2>2
      <3>2. IsAdded(sensor_list'[i], sensor_list[i], value, ts)
        BY <2>1, <3>1, AddedIs
      <3>3. sensor_list[i].buffer_position < N
        BY <1>1, <1>3, <2>2 DEF N
      <3> QED BY <2>1, <2>2, <3>1, <3>2, <3>3, Zenon DEF IsAdded
    <2>3. CASE sensor_list[i].sensor_id # id
      <3>1. sensor_list'[i] = sensor_list[i]
        BY <1>1, <1>3, <2>3
      <3> QED BY <2>1, <2>3, <3>1
    <2> QED BY <2>2, <2>3
  <1>5. sensor_list' \in Seq(SensorRec) /\ Len(sensor_list') = Len(sensor_list)
    <2>1. PICK n \in Nat : n = Len(sensor_list)
      BY <1>2
    <2>2. PICK g : g = sensor_list'
      OBVIOUS
    <2>3. g \in [1..n -> SensorRec]
      <3>1. DOMAIN g = 1..n /\ g = [i \in 1..n |-> g[i]]
        BY <1>1, <2>1, <2>2 DEF Entries
      <3>2. \A i \in 1..n : g[i] \in SensorRec
        BY <1>4, <2>1, <2>2 DEF Entries
      <3> QED BY <3>1, <3>2
    <2>4. g \in Seq(SensorRec) /\ Len(g) = n
      BY <2>3
    <2> QED BY <2>1, <2>2, <2>4
  <1>6. AfterRecord(id, value, ts)
    BY <1>4, <1>5, Zenon DEF AfterRecord
  <1> QED BY <1>5, <1>6

\* What is remembered of the sensors in the list.
LEMMA RecentAfter ==
    ASSUME DInv, NEW id \in Ids, NEW value \in Values, NEW ts \in Times,
           AddSensorData(id, value, ts)
    PROVE  /\ recent' \in [Ids -> Seq(Values)] /\ \A i \in Ids : Len(recent'[i]) <= N
           /\ lastTs' \in [Ids -> Times \cup {0}]
           /\ \A i \in Ids : i # id => recent'[i] = recent[i]
           /\ Matches(id) # {} => /\ recent'[id] = Remembered(recent[id], value)
                                  /\ lastTs'[id] = ts
  <1>1. /\ recent \in [Ids -> Seq(Values)] /\ \A i \in Ids : Len(recent[i]) <= N
        /\ lastTs \in [Ids -> Times \cup {0}]
    BY DEF DInv, Types
  <1>2. CASE Matches(id) = {}
    BY <1>1, <1>2 DEF AddSensorData, Remember
  <1>3. CASE Matches(id) # {}
    <2>1. /\ recent' = [recent EXCEPT ![id] = Remembered(recent[id], value)]
          /\ lastTs' = [lastTs EXCEPT ![id] = ts]
      BY <1>3, Zenon DEF AddSensorData, Remember, Remembered
    <2>2. IsRemembered(Remembered(recent[id], value), recent[id], value)
      BY <1>1, RememberedIs
    <2>3. /\ Remembered(recent[id], value) \in Seq(Values)
          /\ Len(Remembered(recent[id], value)) <= N
      <3>1. Len(recent[id]) \in Nat /\ Len(recent[id]) <= N
        BY <1>1, LenProperties
      <3>2. /\ Remembered(recent[id], value) \in Seq(Values)
            /\ Len(Remembered(recent[id], value)) =
                 IF Len(recent[id]) = N THEN N ELSE Len(recent[id]) + 1
        BY <2>2, Zenon DEF IsRemembered
      <3> QED BY <3>1, <3>2, Constants
    <2> QED BY <1>1, <1>3, <2>1, <2>3
  <1> QED BY <1>2, <1>3

\* A record.
LEMMA AddSensorDataHolds ==
    ASSUME DInv, NEW id \in Ids, NEW value \in Values, NEW ts \in Times,
           AddSensorData(id, value, ts)
    PROVE  DInv'
  <1> DEFINE L == Len(sensor_list)
  <1>1. /\ map' = map /\ pieces' = pieces /\ r_id' = r_id /\ s_id' = s_id
        /\ state = "run" /\ state' = "run"
    BY DEF AddSensorData
  <1>2. Types /\ Reading /\ Buffers /\ Inside
    BY DEF DInv
  <1>3. /\ sensor_list' \in Seq(SensorRec) /\ Len(sensor_list') = L
        /\ \A i \in 1..L :
             /\ sensor_list[i] \in SensorRec
             /\ sensor_list'[i].room_id = sensor_list[i].room_id
             /\ sensor_list'[i].sensor_id = sensor_list[i].sensor_id
             /\ sensor_list'[i].from = sensor_list[i].from
             /\ IF sensor_list[i].sensor_id = id
                THEN /\ sensor_list[i].buffer_position < N
                     /\ sensor_list'[i] = Added(sensor_list[i], value, ts)
                ELSE sensor_list'[i] = sensor_list[i]
    <2>1. AfterRecord(id, value, ts) /\ sensor_list' \in Seq(SensorRec)
      BY AfterRecordIs
    <2> QED BY <2>1, Zenon DEF AfterRecord, Entries
  <1>4. Types'
    <2>1. logged' \subseteq {"TOO HOT", "TOO COOL"}
      BY DEF AddSensorData, Warnings
    <2> QED BY <1>1, <1>2, <1>3, <2>1, RecentAfter DEF Types
  <1>5. Reading'
    <2>1. L \in Nat
      BY <1>2, LenProperties DEF Types
    <2>2. ASSUME Whole(map), NEW k \in 1..L
          PROVE  /\ sensor_list'[L+1-k].room_id = From(k).room
                 /\ sensor_list'[L+1-k].sensor_id = From(k).id
      <3>1. L+1-k \in 1..L
        BY <2>1
      <3>2. Made(k).room_id = From(k).room /\ Made(k).sensor_id = From(k).id
        BY <1>1, <1>2, <2>2 DEF Reading
      <3> QED BY <1>3, <3>1, <3>2 DEF Made
    <2>3. L = Len(AllPieces(map))
      BY <1>1, <1>2 DEF Reading
    <2> QED BY <1>1, <1>3, <2>2, <2>3 DEF Reading, Made, From
  <1>6. Buffers'
    <2>1. ASSUME NEW i \in 1..L, sensor_list'[i].sensor_id \in Ids
          PROVE  Buffer(sensor_list'[i], recent'[sensor_list'[i].sensor_id])
      <3> DEFINE k == sensor_list[i].sensor_id
      <3>1. k \in Ids /\ sensor_list'[i].sensor_id = k
        BY <1>3, <2>1
      <3>2. Buffer(sensor_list[i], recent[k])
        BY <1>2, <3>1 DEF Buffers, Entries
      <3> HIDE DEF k
      <3>3. CASE k = id
        <4>1. /\ sensor_list[i].buffer_position < N
              /\ sensor_list'[i] = Added(sensor_list[i], value, ts)
              /\ sensor_list[i] \in SensorRec
          BY <1>3, <3>3 DEF k
        <4>2. recent'[id] = Remembered(recent[id], value)
          <5>1. i \in Matches(id)
            BY <3>3 DEF Matches, Entries, k
          <5> QED BY <5>1, RecentAfter
        <4>3. recent[id] \in Seq(Values) /\ Len(recent[id]) <= N
          BY <1>2 DEF Types
        <4>4. Buffer(Added(sensor_list[i], value, ts), Remembered(recent[id], value))
          BY <3>2, <3>3, <4>1, <4>3, BufferAdds
        <4> QED BY <3>1, <3>3, <4>1, <4>2, <4>4
      <3>4. CASE k # id
        <4>1. sensor_list'[i] = sensor_list[i]
          BY <1>3, <3>4 DEF k
        <4>2. recent'[k] = recent[k]
          BY <3>1, <3>4, RecentAfter
        <4> QED BY <3>1, <3>2, <4>1, <4>2
      <3> QED BY <3>3, <3>4
    <2> QED BY <1>1, <1>3, <2>1 DEF Buffers, Entries
  <1>7. Inside'
    <2>1. ASSUME NEW i \in 1..L, sensor_list'[i].from.position < N
          PROVE  sensor_list'[i].buffer_position < N
      <3>1. CASE sensor_list[i].sensor_id = id
        <4>1. /\ sensor_list[i].buffer_position < N
              /\ sensor_list'[i] = Added(sensor_list[i], value, ts)
              /\ sensor_list[i] \in SensorRec
          BY <1>3, <3>1
        <4> QED BY <4>1, AddedInside
      <3>2. CASE sensor_list[i].sensor_id # id
        <4>1. sensor_list'[i] = sensor_list[i]
          BY <1>3, <3>2
        <4> QED BY <1>2, <2>1, <4>1 DEF Inside, Entries
      <3> QED BY <3>1, <3>2
    <2> QED BY <1>1, <1>3, <2>1 DEF Inside, Entries
  <1> QED BY <1>4, <1>5, <1>6, <1>7 DEF DInv

\* A write beyond a buffer.
LEMMA WriteOutsideHolds ==
    ASSUME DInv, NEW id \in Ids, WriteOutside(id)
    PROVE  DInv'
  <1>1. /\ map' = map /\ pieces' = pieces /\ r_id' = r_id /\ s_id' = s_id
        /\ sensor_list' = sensor_list /\ logged' = logged /\ state' = "wild"
        /\ recent' = recent /\ lastTs' = lastTs
    BY DEF WriteOutside
  <1>2. Types /\ Reading /\ Buffers /\ Inside
    BY DEF DInv
  <1>3. Types'
    BY <1>1, <1>2 DEF Types
  <1>4. Reading'
    BY <1>1 DEF Reading
  <1>5. Buffers'
    BY <1>1, <1>2 DEF Buffers, Entries
  <1>6. Inside'
    <2>1. PICK j \in Entries : sensor_list[j].buffer_position >= N
      BY DEF WriteOutside, Updated, Matches, N
    <2>2. sensor_list[j] \in SensorRec
      <3>1. sensor_list \in Seq(SensorRec)
        BY <1>2 DEF Types
      <3> QED BY <3>1, ElementOfSeq DEF Entries
    <2>3. sensor_list[j].buffer_position \in Nat /\ sensor_list[j].from.position \in Nat
      <3>1. sensor_list[j].buffer_position \in Number /\ sensor_list[j].from \in Fresh
        BY <2>2 DEF SensorRec
      <3> QED BY <3>1, NumberIs, Constants
    <2>4. sensor_list[j].from.position >= N
      <3>1. ~(sensor_list[j].buffer_position < N)
        BY <2>1, <2>3, Constants
      <3>2. ~(sensor_list[j].from.position < N)
        BY <1>2, <3>1 DEF Inside
      <3> QED BY <2>3, <3>2, Constants
    <2> QED BY <1>1, <1>2, <2>1, <2>4 DEF Inside, Entries
  <1> QED BY <1>3, <1>4, <1>5, <1>6 DEF DInv

\* A freed list has no element left to say anything of.
LEMMA FreeHolds ==
    ASSUME DInv, datamgr_free
    PROVE  DInv'
  <1>1. /\ map' = map /\ pieces' = pieces /\ r_id' = r_id /\ s_id' = s_id
        /\ sensor_list' = <<>> /\ logged' = logged /\ state' = "freed"
        /\ recent' = recent /\ lastTs' = lastTs
    BY DEF datamgr_free
  <1>2. Types'
    <2>1. <<>> \in Seq(SensorRec)
      BY EmptySeq
    <2> QED BY <1>1, <2>1 DEF DInv, Types
  <1>3. Reading'
    BY <1>1 DEF Reading
  <1>4. Entries' = {}
    BY <1>1 DEF Entries
  <1>5. Buffers' /\ Inside'
    BY <1>1, <1>4 DEF Buffers, Inside
  <1> QED BY <1>2, <1>3, <1>5 DEF DInv

\* The invariant is inductive.
LEMMA NextHolds == DInv /\ [Next]_dataVars => DInv'
  <1> SUFFICES ASSUME DInv, [Next]_dataVars PROVE DInv'
    OBVIOUS
  <1>1. CASE ReadPiece
    BY <1>1, ReadPieceHolds
  <1>2. CASE MapRead
    BY <1>2, MapReadHolds
  <1>3. CASE datamgr_free
    BY <1>3, FreeHolds
  <1>4. CASE Over \/ UNCHANGED dataVars
    <2>1. UNCHANGED dataVars
      BY <1>4 DEF Over
    <2> QED BY <2>1, SameHolds
  <1>5. ASSUME NEW id \in Ids, NEW value \in Values, NEW ts \in Times,
               AddSensorData(id, value, ts)
        PROVE  DInv'
    BY <1>5, AddSensorDataHolds
  <1>6. ASSUME NEW id \in Ids, WriteOutside(id) PROVE DInv'
    BY <1>6, WriteOutsideHolds
  <1> QED BY <1>1, <1>2, <1>3, <1>4, <1>5, <1>6 DEF Next

\* So it holds in every state of every run.
LEMMA DInvHolds == Spec => []DInv
  <1>1. Init => DInv
    BY InitHolds
  <1>2. DInv /\ [Next]_dataVars => DInv'
    BY NextHolds
  <1> QED BY <1>1, <1>2, PTL DEF Spec


-----------------------------------------------------------------------------
(* The theorems.                                                           *)

\* The values of any state of a run have their types, and a value is written
\* outside an element's buffer only if malloc returned a position that was outside
\* it: add_sensor_data itself never takes a position there.
THEOREM WritesStayInside == Spec => []StaysInside
  <1>1. ASSUME DInv PROVE StaysInside
    <2>1. Types /\ Inside
      BY <1>1 DEF DInv
    <2>2. N \in Nat /\ RUN_AVG_LENGTH = N
      BY Constants
    <2>3. ASSUME NEW i \in Entries
          PROVE  /\ DOMAIN sensor_list[i].data_buffer = 0..(N-1)
                 /\ sensor_list[i].buffer_position \in Number
                 /\ sensor_list[i].take_avg \in BOOLEAN
                 /\ sensor_list[i].last_modified \in Times \cup {0}
      <3>1. sensor_list \in Seq(SensorRec)
        BY <2>1 DEF Types
      <3>2. sensor_list[i] \in SensorRec
        BY <3>1, ElementOfSeq DEF Entries
      <3> QED BY <3>2 DEF SensorRec
    <2>4. recent \in [Ids -> BoundedSeq(Values, N)]
      <3>1. recent \in [Ids -> Seq(Values)] /\ \A id \in Ids : Len(recent[id]) <= N
        BY <2>1 DEF Types
      <3>2. ASSUME NEW id \in Ids PROVE recent[id] \in BoundedSeq(Values, N)
        <4>1. recent[id] \in Seq(Values) /\ Len(recent[id]) <= N
          BY <3>1
        <4>2. Len(recent[id]) \in 0..N /\ recent[id] \in [1..Len(recent[id]) -> Values]
          BY <2>2, <4>1, LenProperties
        <4>3. recent[id] \in UNION {[1..m -> Values] : m \in 0..N}
          BY <4>2, Zenon
        <4> QED BY <4>3 DEF BoundedSeq, SeqOf
      <3> QED BY <3>1, <3>2
    <2>5. TypeOK
      BY <2>1, <2>2, <2>3, <2>4, Zenon DEF TypeOK, Types
    <2>6. \A i \in Entries :
            /\ sensor_list[i].from.position < N => sensor_list[i].buffer_position < N
            /\ state = "wild" => \E j \in Entries : sensor_list[j].from.position >= N
      BY <2>1, Zenon DEF Inside
    <2> QED BY <2>2, <2>5, <2>6, Zenon DEF StaysInside
  <1> QED BY <1>1, DInvHolds, PTL

\* The first element for a sensor.
LEMMA FirstMatch ==
    ASSUME NEW id, Matches(id) # {}, Len(sensor_list) \in Nat
    PROVE  /\ Min(Matches(id)) \in Matches(id)
           /\ \A i \in Matches(id) : Min(Matches(id)) <= i
  <1>1. Matches(id) \subseteq Nat
    BY DEF Matches, Entries
  <1>2. \E x \in Matches(id) : \A y \in Matches(id) : x <= y
    BY <1>1, LeastNat
  <1> QED BY <1>2, Zenon DEF Min

\* What the elements for a sensor hold of its last values.
LEMMA ElementHolds ==
    ASSUME Types, Buffers, NEW i \in Entries, NEW id \in Ids,
           sensor_list[i].sensor_id = id
    PROVE  /\ sensor_list[i] \in SensorRec /\ recent[id] \in Seq(Values)
           /\ Len(recent[id]) \in Nat /\ Len(recent[id]) <= N
           /\ Buffer(sensor_list[i], recent[id])
  <1>1. sensor_list \in Seq(SensorRec) /\ recent[id] \in Seq(Values) /\ Len(recent[id]) <= N
    BY DEF Types
  <1>2. sensor_list[i] \in SensorRec
    BY <1>1, ElementOfSeq DEF Entries
  <1>3. Buffer(sensor_list[i], recent[id])
    BY DEF Buffers
  <1> QED BY <1>1, <1>2, <1>3, LenProperties

\* An average is that of the last RUN_AVG_LENGTH values of its sensor, in every
\* element for the sensor and wherever its buffer started; before that it is 0 if
\* malloc returned zeros.
THEOREM AveragesAreRight == Spec => []MeanOfLast
  <1>1. ASSUME DInv PROVE MeanOfLast
    <2>1. Types /\ Buffers
      BY <1>1 DEF DInv
    <2>2. RUN_AVG_LENGTH = N /\ N \in Nat
      BY Constants
    <2>3. ASSUME NEW i \in Entries, sensor_list[i].sensor_id \in Ids
          PROVE  LET s == sensor_list[i] IN
                 /\ Measured(s.sensor_id) => s.sum = SumOf(recent[s.sensor_id])
                 /\ ~Measured(s.sensor_id) /\ Zeroed(s) => s.sum = 0
      <3> DEFINE s == sensor_list[i]
                 r == recent[s.sensor_id]
      <3>1. /\ s \in SensorRec /\ r \in Seq(Values) /\ Len(r) \in Nat
            /\ Len(r) <= N /\ Buffer(s, r)
        BY <2>1, <2>3, ElementHolds
      <3> HIDE DEF s, r
      <3>2. Len(r) = N => s.sum = SumOf(r)
        BY <3>1, FullSum
      <3>3. Len(r) # N /\ Zeroed(s) => s.sum = 0
        <4>1. Len(r) # N => Len(r) < N
          BY <2>2, <3>1
        <4> QED BY <3>1, <4>1, Zenon DEF Buffer
      <3> QED BY <2>2, <3>2, <3>3, Zenon DEF Measured, s, r
    <2>4. ASSUME NEW id \in Ids, Matches(id) # {}, Measured(id)
          PROVE  datamgr_get_avg(id) = SumOf(recent[id])
      <3>1. Len(sensor_list) \in Nat
        <4>1. sensor_list \in Seq(SensorRec)
          BY <2>1 DEF Types
        <4> QED BY <4>1, LenProperties
      <3>2. Min(Matches(id)) \in Matches(id)
        BY <2>4, <3>1, FirstMatch
      <3>3. PICK i \in Entries : i = Min(Matches(id)) /\ sensor_list[i].sensor_id = id
        BY <3>2 DEF Matches
      <3>4. datamgr_get_avg(id) = sensor_list[i].sum
        BY <2>4, <3>3 DEF datamgr_get_avg, Get
      <3>5. sensor_list[i].sum = SumOf(recent[id])
        BY <2>3, <2>4, <3>3
      <3> QED BY <3>4, <3>5
    <2> QED BY <2>3, <2>4, Zenon DEF MeanOfLast
  <1> QED BY <1>1, DInvHolds, PTL

\* A record whose sensor has all its values logs a warning exactly if their average
\* is out of range, and no other; and the time of the sensor is that of the record.
THEOREM WarningsAreRight == Spec => WarnsRightly
  <1> DEFINE A == \A id \in Ids, value \in Values, ts \in Times :
         AddSensorData(id, value, ts) /\ Matches(id) # {} /\ Measured(id)' =>
           /\ "TOO HOT" \in logged' <=> Hot(SumOf(recent'[id]))
           /\ "TOO COOL" \in logged' <=> Cool(SumOf(recent'[id]))
           /\ datamgr_get_last_modified(id)' = lastTs'[id]
  <1>1. ASSUME DInv, DInv', NEW id \in Ids, NEW value \in Values, NEW ts \in Times,
               AddSensorData(id, value, ts), Matches(id) # {}, Measured(id)'
        PROVE  /\ "TOO HOT" \in logged' <=> Hot(SumOf(recent'[id]))
               /\ "TOO COOL" \in logged' <=> Cool(SumOf(recent'[id]))
               /\ datamgr_get_last_modified(id)' = lastTs'[id]
    <2> DEFINE L == Len(sensor_list)
    <2>1. L \in Nat
      <3>1. sensor_list \in Seq(SensorRec)
        BY <1>1 DEF DInv, Types
      <3> QED BY <3>1, LenProperties
    <2>2. /\ sensor_list' \in Seq(SensorRec) /\ Len(sensor_list') = L
          /\ \A i \in 1..L :
               /\ sensor_list[i] \in SensorRec
               /\ sensor_list'[i].sensor_id = sensor_list[i].sensor_id
               /\ sensor_list[i].sensor_id = id =>
                    sensor_list'[i] = Added(sensor_list[i], value, ts)
      <3>1. AfterRecord(id, value, ts) /\ sensor_list' \in Seq(SensorRec)
        BY <1>1, AfterRecordIs
      <3>2. \A i \in Entries :
               /\ sensor_list[i] \in SensorRec
               /\ sensor_list'[i].sensor_id = sensor_list[i].sensor_id
               /\ sensor_list[i].sensor_id = id =>
                    sensor_list'[i] = Added(sensor_list[i], value, ts)
        BY <3>1 DEF AfterRecord
      <3>3. Len(sensor_list') = L
        BY <3>1, Zenon DEF AfterRecord
      <3> QED BY <3>1, <3>2, <3>3 DEF Entries
    <2>3. \A i \in 1..L : i \in Matches(id) <=> sensor_list[i].sensor_id = id
      BY DEF Matches, Entries
    <2>4. ASSUME NEW i \in Matches(id)
          PROVE  /\ sensor_list'[i].take_avg
                 /\ sensor_list'[i].sum = SumOf(recent'[id])
      <3>1. i \in 1..L /\ sensor_list[i].sensor_id = id
        BY DEF Matches, Entries
      <3>2. sensor_list'[i] \in SensorRec /\ sensor_list'[i].sensor_id = id
        BY <2>2, <3>1, ElementOfSeq
      <3>3. recent'[id] \in Seq(Values) /\ Len(recent'[id]) = N
        <4>1. recent' \in [Ids -> Seq(Values)]
          BY <1>1 DEF DInv, Types
        <4>2. Len(recent'[id]) = N
          BY <1>1 DEF Measured, N
        <4> QED BY <4>1, <4>2
      <3>4. Buffer(sensor_list'[i], recent'[id])
        BY <1>1, <2>2, <3>1, <3>2 DEF DInv, Buffers, Entries
      <3> QED BY <3>2, <3>3, <3>4, FullSum
    <2>5. /\ "TOO HOT" \in logged' <=> Hot(SumOf(recent'[id]))
          /\ "TOO COOL" \in logged' <=> Cool(SumOf(recent'[id]))
      <3> DEFINE S == SumOf(recent'[id])
      <3>1. logged' = UNION {Warnings(sensor_list'[i].sum) :
                               i \in {j \in Matches(id) : sensor_list'[j].take_avg}}
        BY <1>1, Zenon DEF AddSensorData, Updated
      <3>2. \A i \in Matches(id) : sensor_list'[i].take_avg
                                   /\ Warnings(sensor_list'[i].sum) = Warnings(S)
        BY <2>4
      <3> HIDE DEF S
      <3>3. logged' = Warnings(S)
        <4>1. PICK i : i \in Matches(id)
          BY <1>1
        <4>2. ASSUME NEW w PROVE w \in logged' <=> w \in Warnings(S)
          BY <3>1, <3>2, <4>1, Zenon
        <4> QED BY <4>2
      <3>4. /\ "TOO HOT" \in Warnings(S) <=> Hot(S)
            /\ "TOO COOL" \in Warnings(S) <=> Cool(S)
        BY DEF Warnings
      <3> QED BY <3>3, <3>4 DEF S
    <2>6. datamgr_get_last_modified(id)' = lastTs'[id]
      <3>1. Min(Matches(id)) \in Matches(id)
        BY <1>1, <2>1, FirstMatch
      <3>2. Matches(id)' = Matches(id)
        BY <2>2 DEF Matches, Entries
      <3>3. PICK i \in 1..L : i = Min(Matches(id)) /\ sensor_list[i].sensor_id = id
        BY <3>1 DEF Matches, Entries
      <3>4. sensor_list'[i].last_modified = ts
        <4>1. sensor_list[i] \in SensorRec /\ sensor_list'[i] = Added(sensor_list[i], value, ts)
          BY <2>2, <3>3
        <4>2. IsAdded(sensor_list'[i], sensor_list[i], value, ts)
          BY <4>1, AddedIs
        <4> QED BY <4>2, Zenon DEF IsAdded
      <3>5. lastTs'[id] = ts
        BY <1>1, RecentAfter
      <3>6. datamgr_get_last_modified(id)' = sensor_list'[i].last_modified
        BY <1>1, <3>2, <3>3 DEF datamgr_get_last_modified, Get
      <3> QED BY <3>4, <3>5, <3>6
    <2> QED BY <2>5, <2>6
  <1>2. ASSUME DInv, DInv' PROVE A
    BY <1>1, <1>2
  <1>3. DInv /\ DInv' => [A]_dataVars
    BY <1>2
  <1> HIDE DEF A
  <1>4. Spec => [][A]_dataVars
    BY <1>3, DInvHolds, PTL
  <1> QED BY <1>4, Zenon DEF A, WarnsRightly

\* As long as no line of the map loses a digit of its id: the sensors of the list are
\* those of the map, a sensor's room is the one of its last line, and the total is the
\* number of unique ids exactly if every line comes in one piece and no id twice.
THEOREM MapIsRead == Spec => []RoomsRight
  <1>1. ASSUME DInv, state = "run", \A i \in 1..Len(map) : Behind(map[i]) = 0
        PROVE  /\ {sensor_list[i].sensor_id : i \in Entries} = SensorIds
               /\ \A i \in 1..Len(map) :
                    (\A j \in (i+1)..Len(map) : map[j].id # map[i].id) =>
                      datamgr_get_room_id(map[i].id) = map[i].room
               /\ datamgr_get_total_sensors = Cardinality(SensorIds) <=> EachOnce
    <2> DEFINE L == Len(sensor_list)
               n == Len(map)
               on == LineOf(map)
    <2>1. Whole(map)
      BY <1>1 DEF Whole
    <2>2. L \in Nat /\ n \in Nat /\ map \in Seq(MapLine)
      <3>1. sensor_list \in Seq(SensorRec) /\ map \in Maps
        BY <1>1 DEF DInv, Types
      <3>2. map \in Seq(MapLine)
        BY <3>1, Constants
      <3> QED BY <3>1, <3>2, LenProperties
    <2>3. /\ L = Len(AllPieces(map))
          /\ \A k \in 1..L : /\ sensor_list[L+1-k].room_id = map[on[k]].room
                             /\ sensor_list[L+1-k].sensor_id = map[on[k]].id
      BY <1>1, <2>1 DEF DInv, Reading, Made, From
    <2>4. /\ on \in [1..L -> 1..n]
          /\ \A j, k \in 1..L : j <= k => on[j] <= on[k]
          /\ \A l \in 1..n : \E k \in 1..L : on[k] = l
          /\ \A j, k \in 1..L : on[j] = on[k] /\ j # k => Len(Pieces(map[on[k]])) # 1
          /\ \A l \in 1..n : Len(Pieces(map[l])) # 1 =>
               \E j, k \in 1..L : j # k /\ on[j] = l /\ on[k] = l
      <3>1. Covers(map, n, AllPieces(map), on)
        BY <2>2, LineOfCovers
      <3> QED BY <2>3, <3>1 DEF Covers
    <2> HIDE DEF L, n, on
    <2>5. Entries = 1..L
      BY DEF Entries, L
    <2>6. \A k \in 1..L : L+1-k \in 1..L /\ L+1-(L+1-k) = k
      BY <2>2
    <2>7. ASSUME NEW i \in 1..n, \A j \in (i+1)..n : map[j].id # map[i].id
          PROVE  datamgr_get_room_id(map[i].id) = map[i].room
      <3> DEFINE id == map[i].id
      <3>1. PICK k \in 1..L : on[k] = i
        BY <2>4
      <3>2. L+1-k \in Matches(id)
        BY <2>3, <2>5, <2>6, <3>1 DEF Matches
      <3>3. /\ Min(Matches(id)) \in Matches(id)
            /\ Min(Matches(id)) <= L+1-k
        BY <2>2, <3>2, FirstMatch DEF L
      <3>4. PICK m \in 1..L : /\ m = Min(Matches(id))
                              /\ sensor_list[m].sensor_id = id
        BY <2>5, <3>3 DEF Matches
      <3> DEFINE l == L+1-m
      <3>5. l \in 1..L /\ k <= l /\ L+1-l = m
        BY <2>2, <3>3, <3>4
      <3> HIDE DEF l
      <3>6. on[l] \in 1..n /\ i <= on[l] /\ map[on[l]].id = map[i].id
        BY <2>3, <2>4, <3>1, <3>4, <3>5
      <3>7. on[l] = i
        <4>1. on[l] \notin (i+1)..n
          BY <2>7, <3>6
        <4> QED BY <2>2, <3>6, <4>1
      <3>8. sensor_list[m].room_id = map[i].room
        BY <2>3, <3>5, <3>7
      <3>9. Matches(id) # {}
        BY <3>2
      <3>10. datamgr_get_room_id(id) = sensor_list[m].room_id
        <4> HIDE DEF id
        <4> QED BY <3>4, <3>9 DEF datamgr_get_room_id, Get
      <3> QED BY <3>8, <3>10
    <2> DEFINE idOf == [k \in 1..L |-> map[on[k]].id]
    <2>8. L = Cardinality(SensorIds) <=> EachOnce
      <3>1. \A k \in 1..L : idOf[k] \in SensorIds
        BY <2>4 DEF SensorIds, n
      <3>2. \A x \in SensorIds : \E k \in 1..L : idOf[k] = x
        <4> SUFFICES ASSUME NEW i \in 1..n PROVE \E k \in 1..L : idOf[k] = map[i].id
          BY DEF SensorIds, n
        <4> QED BY <2>4
      <3>3. idOf \in Surjection(1..L, SensorIds)
        BY <3>1, <3>2 DEF Surjection
      <3>4. IsFiniteSet(1..L) /\ Cardinality(1..L) = L
        BY <2>2, FS_Interval
      <3>5. L = Cardinality(SensorIds) <=> idOf \in Injection(1..L, SensorIds)
        <4> HIDE DEF idOf
        <4> QED BY <3>3, <3>4, FS_Surjection
      <3>6. ASSUME EachOnce, NEW j \in 1..L, NEW k \in 1..L, idOf[j] = idOf[k]
            PROVE  j = k
        <4>1. on[j] \in 1..n /\ on[k] \in 1..n /\ map[on[j]].id = map[on[k]].id
          BY <2>4, <3>6
        <4>2. on[j] = on[k] /\ Len(Pieces(map[on[k]])) = 1
          BY <3>6, <4>1 DEF EachOnce, n
        <4> QED BY <2>4, <4>2
      <3>7. EachOnce => idOf \in Injection(1..L, SensorIds)
        <4>1. idOf \in [1..L -> SensorIds]
          BY <3>1
        <4> HIDE DEF idOf
        <4> QED BY <3>6, <4>1 DEF Injection, IsInjective
      <3>8. ASSUME idOf \in Injection(1..L, SensorIds) PROVE EachOnce
        <4>1. \A j, k \in 1..L : idOf[j] = idOf[k] => j = k
          <5> HIDE DEF idOf
          <5> QED BY <3>8 DEF Injection, IsInjective
        <4>2. ASSUME NEW i \in 1..n PROVE Len(Pieces(map[i])) = 1
          <5> SUFFICES ASSUME Len(Pieces(map[i])) # 1 PROVE FALSE
            OBVIOUS
          <5>1. PICK j \in 1..L, k \in 1..L : j # k /\ on[j] = i /\ on[k] = i
            BY <2>4
          <5>2. idOf[j] = idOf[k]
            BY <5>1
          <5> HIDE DEF idOf
          <5> QED BY <4>1, <5>1, <5>2
        <4>3. ASSUME NEW i \in 1..n, NEW j \in 1..n, map[i].id = map[j].id PROVE i = j
          <5>1. PICK k \in 1..L, l \in 1..L : on[k] = i /\ on[l] = j
            BY <2>4
          <5>2. idOf[k] = idOf[l]
            BY <4>3, <5>1
          <5>3. k = l
            <6> HIDE DEF idOf
            <6> QED BY <4>1, <5>2
          <5> QED BY <5>1, <5>3
        <4> QED BY <4>2, <4>3 DEF EachOnce, n
      <3> HIDE DEF idOf
      <3> QED BY <3>5, <3>7, <3>8
    <2>9. {sensor_list[i].sensor_id : i \in 1..L} = {map[i].id : i \in 1..n}
      <3>1. ASSUME NEW i \in 1..L
            PROVE  \E j \in 1..n : sensor_list[i].sensor_id = map[j].id
        <4>1. sensor_list[L+1-(L+1-i)].sensor_id = map[on[L+1-i]].id
          BY <2>3, <2>6
        <4>2. on[L+1-i] \in 1..n
          BY <2>4, <2>6
        <4> QED BY <2>6, <4>1, <4>2
      <3>2. ASSUME NEW j \in 1..n
            PROVE  \E i \in 1..L : sensor_list[i].sensor_id = map[j].id
        <4>1. PICK k \in 1..L : on[k] = j
          BY <2>4
        <4>2. sensor_list[L+1-k].sensor_id = map[j].id
          BY <2>3, <4>1
        <4> QED BY <2>6, <4>2
      <3> QED BY <3>1, <3>2
    <2> QED BY <2>5, <2>7, <2>8, <2>9 DEF L, n, SensorIds, datamgr_get_total_sensors
  <1>2. DInv => RoomsRight
    BY <1>1, Zenon DEF RoomsRight
  <1> QED BY <1>2, DInvHolds, PTL
=============================================================================
