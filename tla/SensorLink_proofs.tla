-------------------------- MODULE SensorLink_proofs --------------------------
(***************************************************************************)
(* Proofs about SensorLink, for any number of sensor nodes and records and *)
(* any sizes of the fields: every socket has a descriptor of its own, and  *)
(* the records in the buffer are the ones the nodes sent as long as no     *)
(* segment ends inside a field.                                            *)
(***************************************************************************)
EXTENDS SensorLink, FiniteSetTheorems, SequenceTheorems, WellFoundedInduction, TLAPS

-----------------------------------------------------------------------------
(* The inductive invariant.                                                *)

Fields == Seq(Nat \X Nat)

Types ==
    /\ node \in [Nodes -> {"start", "up", "exit"}]
    /\ sent \in [Nodes -> Nat] /\ arrived \in [Nodes -> Nat] /\ taken \in [Nodes -> Nat]
    /\ \A n \in Nodes : taken[n] <= arrived[n] /\ arrived[n] <= sent[n]
    /\ end \in [Nodes -> {"open", "fin", "rst"}]
    /\ split \in [Nodes -> BOOLEAN]
    /\ gateway \in {"boot", "run", "exit"}
    /\ conn \in [Nodes -> {"none", "queued", "open", "closed", "refused", "lost"}]
    /\ \A n \in Nodes : node[n] = "start" => conn[n] = "none"
    /\ reading \in Nodes \cup {NOBODY}
    /\ part \in Fields /\ Len(part) < 3 /\ (part = <<>> <=> reading = NOBODY)
    /\ got \in [Nodes -> Seq(Fields)]

Live == {n \in Nodes : conn[n] = "open"}
Orphans == fds \ ({sd[n] : n \in Live} \cup {lsd})
Orphaned == {n \in Nodes : conn[n] = "lost" \/ (conn[n] = "closed" /\ end[n] = "rst")}

\* Who has which descriptor.
Descriptors ==
    /\ fds \subseteq 0..Cardinality(Nodes) /\ IsFiniteSet(fds)
    /\ lsd \in fds \cup {-1}
    /\ gateway = "boot" => lsd = -1 /\ fds = {}
    /\ sd \in [Nodes -> fds \cup {-1}]
    /\ \A n \in Nodes : conn[n] = "open" <=> sd[n] # -1
    /\ \A n \in Live : sd[n] # lsd
    /\ \A m, n \in Live : sd[m] = sd[n] => m = n
    /\ Cardinality(Orphans) = Cardinality(Orphaned)

\* The bytes before field f of the record after r.
Begins(r, f) == r * RecordSize + Offset(f)

\* The field in which a receive from n goes on.
NextPart(n) == IF reading = n THEN Len(part) + 1 ELSE 1

\* All records are whole, the one under way so far, and the next byte to be
\* received is the first of the next field.
Clean(n) ==
    /\ taken[n] = Begins(Len(got[n]), NextPart(n))
    /\ \A i \in 1..Len(got[n]) : Whole(n, i)
    /\ reading = n =>
         \A f \in 1..Len(part) : part[f] = <<Begins(Len(got[n]), f), Width[f]>>

\* The stream ended within the last record.
Torn(n) ==
    /\ end[n] # "open" /\ taken[n] = arrived[n]
    /\ \A i \in 1..Len(got[n]) : Whole(n, i) \/ (i = Len(got[n]) /\ reading # n)

Stream(n) ==
    ~split[n] =>
        /\ \E r \in Nat, f \in 1..3 : arrived[n] = Begins(r, f)
        /\ Clean(n) \/ Torn(n)

Streams == \A n \in Nodes : Stream(n)

LInv == Types /\ Descriptors /\ Streams

-----------------------------------------------------------------------------
(* Numbers.                                                                *)

\* A set of numbers that has a member has a least one.
LEMMA LeastNat ==
    ASSUME NEW T, T \subseteq Nat, T # {}
    PROVE  \E x \in T : \A y \in T : x <= y
  <1> DEFINE R == OpToRel(<, Nat)
  <1>1. IsWellFoundedOn(R, Nat)
    BY NatLessThanWellFounded
  <1> HIDE DEF R
  <1>2. PICK x \in T : \A y \in T : ~ (<<y, x>> \in R)
    BY <1>1, WFMin
  <1>3. ASSUME NEW y \in T PROVE x <= y
    <2>1. x \in Nat /\ y \in Nat
      OBVIOUS
    <2>2. y < x => <<y, x>> \in R
      BY <2>1 DEF R, OpToRel
    <2> QED BY <1>2, <2>1, <2>2
  <1> QED BY <1>3

\* There is a least free number, and it is not greater than the number of those
\* in use.
LEMMA NewFdFacts ==
    ASSUME fds \subseteq Nat, IsFiniteSet(fds)
    PROVE  NewFd \in 0..Cardinality(fds) /\ NewFd \notin fds
  <1> DEFINE c == Cardinality(fds)
             T == 0..c \ fds
  <1>1. c \in Nat
    BY FS_CardinalityType
  <1>2. Cardinality(0..c) = c + 1
    BY <1>1, FS_Interval
  <1>3. T # {}
    <2>1. ASSUME 0..c \subseteq fds PROVE FALSE
      <3>1. Cardinality(0..c) <= c
        BY <2>1, FS_Subset
      <3> QED BY <1>1, <1>2, <3>1
    <2> QED BY <2>1
  <1>4. \E x \in T : \A y \in T : x <= y
    <2>1. T \subseteq Nat
      BY <1>1
    <2> HIDE DEF T
    <2> QED BY <1>3, <2>1, LeastNat
  <1>5. NewFd \in T
    BY <1>4 DEF NewFd, Min
  <1> QED BY <1>5

\* The smaller of two numbers.
LEMMA MinPair ==
    ASSUME NEW a \in Nat, NEW b \in Nat
    PROVE  Min({a, b}) = IF a <= b THEN a ELSE b
  <1>1. CASE a <= b
    <2>1. \A x \in {a, b} : (\A y \in {a, b} : x <= y) => x = a
      BY <1>1
    <2>2. \A y \in {a, b} : a <= y
      BY <1>1
    <2> QED BY <1>1, <2>1, <2>2 DEF Min
  <1>2. CASE ~(a <= b)
    <2>1. \A x \in {a, b} : (\A y \in {a, b} : x <= y) => x = b
      BY <1>2
    <2>2. \A y \in {a, b} : b <= y
      BY <1>2
    <2> QED BY <1>2, <2>1, <2>2 DEF Min
  <1> QED BY <1>1, <1>2

\* The fields of a record whose third is added.
LEMMA AddThird ==
    ASSUME NEW s \in Fields, NEW y \in Nat \X Nat, Len(s) = 2
    PROVE  (s \o <<y>>)[1] = s[1] /\ (s \o <<y>>)[2] = s[2] /\ (s \o <<y>>)[3] = y
  <1> DEFINE t == <<y>>
  <1>1. s \in Seq(Nat \X Nat) /\ t \in Seq(Nat \X Nat) /\ Len(t) = 1 /\ t[1] = y
    BY DEF Fields
  <1> HIDE DEF t
  <1>2. \A i \in 1..Len(s) + Len(t) :
          (s \o t)[i] = IF i <= Len(s) THEN s[i] ELSE t[i - Len(s)]
    BY <1>1, ConcatProperties
  <1>3. \A i \in 1..3 : (s \o t)[i] = IF i <= 2 THEN s[i] ELSE t[i - 2]
    <2>1. 1..3 = 1..Len(s) + Len(t)
      BY <1>1
    <2> QED BY <1>2, <2>1, Zenon
  <1>4. 1 \in 1..3 /\ 2 \in 1..3 /\ 3 \in 1..3 /\ 3 - 2 = 1 /\ 1 <= 2 /\ 2 <= 2 /\ ~(3 <= 2)
    OBVIOUS
  <1>5. (s \o t)[1] = s[1] /\ (s \o t)[2] = s[2] /\ (s \o t)[3] = t[1]
    <2>1. (s \o t)[1] = s[1]
      BY <1>3, <1>4, Zenon
    <2>2. (s \o t)[2] = s[2]
      BY <1>3, <1>4, Zenon
    <2>3. (s \o t)[3] = t[3 - 2]
      BY <1>3, <1>4, Zenon
    <2> QED BY <1>4, <2>1, <2>2, <2>3
  <1> QED BY <1>1, <1>5, Zenon DEF t

\* The sizes of the fields and of a record, and where the fields begin.
LEMMA Sizes ==
    /\ IdSize \in Nat /\ ValueSize \in Nat /\ TsSize \in Nat
    /\ IdSize > 0 /\ ValueSize > 0 /\ TsSize > 0
    /\ RecordSize \in Nat /\ RecordSize = IdSize + ValueSize + TsSize
    /\ \A f \in 1..3 : Offset(f) \in Nat /\ Width[f] \in Nat
    /\ \A r \in Nat, f \in 1..3 : Begins(r, f) \in Nat
  <1>1. /\ IdSize \in Nat /\ ValueSize \in Nat /\ TsSize \in Nat
        /\ IdSize > 0 /\ ValueSize > 0 /\ TsSize > 0
    BY LinkAssumption
  <1>2. RecordSize \in Nat /\ RecordSize = IdSize + ValueSize + TsSize
    BY <1>1 DEF RecordSize
  <1>3. \A f \in 1..3 : Offset(f) \in Nat /\ Width[f] \in Nat
    BY <1>1 DEF Offset, Width
  <1>4. \A r \in Nat : r * RecordSize \in Nat
    BY <1>2
  <1>5. \A r \in Nat, f \in 1..3 : Begins(r, f) \in Nat
    BY <1>3, <1>4 DEF Begins
  <1> QED BY <1>1, <1>2, <1>3, <1>5

\* Multiplication is monotone.
LEMMA Mono ==
    ASSUME NEW q \in Nat, NEW r \in Nat, q < r, NEW R \in Nat
    PROVE  q * R + R <= r * R
  <1>1. r - q - 1 \in Nat
    OBVIOUS
  <1>2. (r - q - 1) * R \in Nat
    BY <1>1
  <1>3. (r - q - 1) * R = r * R - q * R - R
    OBVIOUS
  <1>4. q * R \in Nat /\ r * R \in Nat
    OBVIOUS
  <1> QED BY <1>2, <1>3, <1>4

\* From the beginning of a field to a later one there is room for the field.
LEMMA FieldFits ==
    ASSUME NEW q \in Nat, NEW r \in Nat, NEW e \in 1..3, NEW f \in 1..3,
           Begins(q, e) < Begins(r, f)
    PROVE  Begins(q, e) + Width[e] <= Begins(r, f)
  <1>1. Offset(e) + Width[e] <= RecordSize /\ Offset(f) < RecordSize
        /\ (e < f => Offset(e) + Width[e] <= Offset(f))
        /\ (f <= e => Offset(f) <= Offset(e))
    BY Sizes DEF Offset, Width
  <1>2. q * RecordSize \in Nat /\ r * RecordSize \in Nat /\ Offset(e) \in Nat
        /\ Offset(f) \in Nat /\ Width[e] \in Nat /\ RecordSize \in Nat
    BY Sizes
  <1>3. CASE q < r
    <2>1. q * RecordSize + RecordSize <= r * RecordSize
      BY <1>2, <1>3, Mono
    <2> QED BY <1>1, <1>2, <2>1 DEF Begins
  <1>4. CASE r < q
    <2>1. r * RecordSize + RecordSize <= q * RecordSize
      BY <1>2, <1>4, Mono
    <2> QED BY <1>1, <1>2, <2>1 DEF Begins
  <1>5. CASE r = q
    BY <1>1, <1>2, <1>5 DEF Begins
  <1> QED BY <1>3, <1>4, <1>5

\* After the last field of a record comes the first of the next.
LEMMA NextBegins ==
    ASSUME NEW r \in Nat
    PROVE  /\ Begins(r, 1) + Width[1] = Begins(r, 2)
           /\ Begins(r, 2) + Width[2] = Begins(r, 3)
           /\ Begins(r, 3) + Width[3] = Begins(r + 1, 1)
  <1>1. (r + 1) * RecordSize = r * RecordSize + RecordSize
    BY Sizes
  <1>2. r * RecordSize \in Nat
    BY Sizes
  <1> QED BY <1>1, <1>2, Sizes DEF Begins, Offset, Width

-----------------------------------------------------------------------------
(* The descriptors.                                                        *)

\* The connections that leave a descriptor behind can be counted.
LEMMA OrphanedFinite == IsFiniteSet(Orphaned) /\ Cardinality(Orphaned) \in Nat
  <1>1. IsFiniteSet(Nodes)
    BY LinkAssumption
  <1>2. Orphaned \subseteq Nodes
    BY DEF Orphaned
  <1> QED BY <1>1, <1>2, FS_Subset, FS_CardinalityType

\* A descriptor per node and the listening one: as long as a node waits to be
\* accepted there is room for its own.
LEMMA RoomForOne ==
    ASSUME Types, Descriptors, NEW n \in Nodes, conn[n] = "queued"
    PROVE  Cardinality(fds) <= Cardinality(Nodes)
  <1> DEFINE D == {sd[m] : m \in Live}
             f == [m \in Live |-> sd[m]]
             rest == Nodes \ {n}
  <1>1. IsFiniteSet(Nodes) /\ Cardinality(Nodes) \in Nat
    BY LinkAssumption, FS_CardinalityType
  <1>2. /\ IsFiniteSet(rest) /\ Cardinality(rest) = Cardinality(Nodes) - 1
        /\ Live \cup Orphaned \subseteq rest /\ Live \cap Orphaned = {}
    BY <1>1, FS_RemoveElement DEF Live, Orphaned
  <1>3. IsFiniteSet(Live) /\ Cardinality(Live) \in Nat
    BY <1>2, FS_Subset, FS_CardinalityType
  <1>4. Cardinality(Live) + Cardinality(Orphaned) <= Cardinality(Nodes) - 1
    <2>1. Cardinality(Live \cup Orphaned) = Cardinality(Live) + Cardinality(Orphaned)
      <3>1. Cardinality(Live \cup Orphaned)
              = Cardinality(Live) + Cardinality(Orphaned) - Cardinality(Live \cap Orphaned)
        BY <1>3, OrphanedFinite, FS_Union
      <3> QED BY <1>2, <1>3, <3>1, OrphanedFinite, FS_EmptySet
    <2>2. Cardinality(Live \cup Orphaned) <= Cardinality(rest)
      BY <1>2, FS_Subset
    <2> QED BY <1>2, <2>1, <2>2
  <1>5. IsFiniteSet(D) /\ Cardinality(D) <= Cardinality(Live)
    <2>1. f \in Surjection(Live, D)
      BY DEF Surjection
    <2> QED BY <1>3, <2>1, FS_Surjection
  <1>6. IsFiniteSet(Orphans) /\ Cardinality(Orphans) = Cardinality(Orphaned)
    BY FS_Subset DEF Orphans, Descriptors
  <1>7. Cardinality(Orphans \cup D) <= Cardinality(Orphaned) + Cardinality(Live)
        /\ IsFiniteSet(Orphans \cup D)
    <2>1. Cardinality(Orphans \cup D)
            = Cardinality(Orphans) + Cardinality(D) - Cardinality(Orphans \cap D)
      BY <1>5, <1>6, FS_Union
    <2>2. IsFiniteSet(Orphans \cap D) /\ Cardinality(Orphans \cap D) \in Nat
      BY <1>6, FS_Intersection, FS_CardinalityType
    <2>3. Cardinality(D) \in Nat /\ Cardinality(Orphans) \in Nat
      BY <1>5, <1>6, FS_CardinalityType
    <2>4. IsFiniteSet(Orphans \cup D)
      BY <1>5, <1>6, FS_Union
    <2> HIDE DEF D
    <2> QED BY <1>3, <1>5, <1>6, <2>1, <2>2, <2>3, <2>4
  <1>8. fds \subseteq (Orphans \cup D) \cup {lsd}
    BY DEF Orphans
  <1> HIDE DEF D
  <1>9. /\ IsFiniteSet((Orphans \cup D) \cup {lsd})
        /\ Cardinality((Orphans \cup D) \cup {lsd}) <= Cardinality(Orphans \cup D) + 1
    <2>1. Cardinality(Orphans \cup D) \in Nat
      BY <1>7, FS_CardinalityType
    <2> DEFINE X == Orphans \cup D
    <2> HIDE DEF X
    <2>2. IsFiniteSet(X) /\ Cardinality(X) \in Nat
      BY <1>7, <2>1 DEF X
    <2>3. IsFiniteSet(X \cup {lsd}) /\ Cardinality(X \cup {lsd}) <= Cardinality(X) + 1
      <3>1. /\ IsFiniteSet(X \cup {lsd})
            /\ Cardinality(X \cup {lsd})
                 = IF lsd \in X THEN Cardinality(X) ELSE Cardinality(X) + 1
        <4>1. IsFiniteSet(X)
          BY <2>2
        <4> QED BY <4>1, FS_AddElement
      <3> QED BY <2>2, <3>1
    <2> QED BY <2>3 DEF X
  <1>10. Cardinality(fds) <= Cardinality((Orphans \cup D) \cup {lsd})
    BY <1>8, <1>9, FS_Subset
  <1>11. /\ Cardinality(fds) \in Nat
         /\ Cardinality(Orphans \cup D) \in Nat
         /\ Cardinality((Orphans \cup D) \cup {lsd}) \in Nat
         /\ Cardinality(Orphaned) \in Nat
    BY <1>7, <1>9, OrphanedFinite, FS_CardinalityType DEF Descriptors
  <1> QED BY <1>1, <1>3, <1>4, <1>7, <1>9, <1>10, <1>11

\* tcp_passive_open.
LEMMA ListenDescriptors == ASSUME Types, Descriptors, Listen PROVE Descriptors'
  <1>1. UNCHANGED <<conn, sd, end>>
    BY DEF Listen, netVars
  <1>2. CASE UNCHANGED <<lsd, fds>>
    BY <1>1, <1>2 DEF Listen, Descriptors, Live, Orphans, Orphaned
  <1>3. CASE lsd' = NewFd /\ fds' = fds \cup {NewFd}
    <2>0. Cardinality(Nodes) \in Nat
      BY LinkAssumption, FS_CardinalityType
    <2>1. NewFd \in 0..Cardinality(Nodes) /\ NewFd \notin fds
      <3>1. fds = {} /\ Cardinality(fds) = 0 /\ fds \subseteq Nat /\ IsFiniteSet(fds)
        BY FS_EmptySet DEF Listen, Descriptors
      <3> QED BY <2>0, <3>1, NewFdFacts
    <2>2. IsFiniteSet(fds')
      BY <1>3, FS_AddElement DEF Descriptors
    <2>3. Live' = Live /\ Orphaned' = Orphaned
      BY <1>1 DEF Live, Orphaned
    <2>4. lsd = -1 /\ (gateway' # "boot" \/ UNCHANGED <<lsd, fds>>)
      BY DEF Listen, Descriptors
    <2>5. -1 \notin fds
      BY <2>0 DEF Descriptors
    <2>6. Orphans' = Orphans
      BY <1>1, <1>3, <2>1, <2>3, <2>4, <2>5 DEF Orphans
    <2>7. \A n \in Live : sd[n] \in fds
      BY DEF Live, Descriptors
    <2> QED BY <1>1, <1>3, <2>1, <2>2, <2>3, <2>4, <2>6, <2>7 DEF Descriptors
  <1> QED BY <1>2, <1>3 DEF Listen

\* tcp_wait_for_connection, which may lose the socket, and connmgr_add_sensor.
LEMMA AcceptDescriptors ==
    ASSUME Types, Descriptors, NEW n \in Nodes, Accept(n)
    PROVE  Descriptors'
  <1>1. UNCHANGED <<lsd, gateway, end>> /\ conn[n] = "queued" /\ gateway = "run"
        /\ fds' = fds \cup {NewFd}
    BY DEF Accept, netVars, Idle
  <1>0. Cardinality(Nodes) \in Nat /\ fds \subseteq Nat
    BY LinkAssumption, FS_CardinalityType DEF Descriptors
  <1>2. NewFd \in 0..Cardinality(Nodes) /\ NewFd \notin fds /\ IsFiniteSet(fds')
    <2>1. NewFd \in 0..Cardinality(fds) /\ NewFd \notin fds
      BY <1>0, NewFdFacts DEF Descriptors
    <2>2. Cardinality(fds) <= Cardinality(Nodes) /\ Cardinality(fds) \in Nat
      BY <1>1, RoomForOne, FS_CardinalityType DEF Descriptors
    <2>3. IsFiniteSet(fds')
      BY <1>1, FS_AddElement DEF Descriptors
    <2> QED BY <1>0, <2>1, <2>2, <2>3
  <1>3. sd[n] = -1 /\ n \notin Live /\ n \notin Orphaned
    BY <1>1 DEF Descriptors, Live, Orphaned
  <1>4. \A m \in Live : sd[m] \in fds
    BY DEF Live, Descriptors
  <1>5. CASE conn' = [conn EXCEPT ![n] = "open"] /\ sd' = [sd EXCEPT ![n] = NewFd]
    <2>1. Live' = Live \cup {n} /\ Orphaned' = Orphaned
      BY <1>1, <1>5 DEF Types, Live, Orphaned
    <2>2. \A m \in Nodes : sd'[m] = IF m = n THEN NewFd ELSE sd[m]
      BY <1>5 DEF Descriptors
    <2>3. {sd'[m] : m \in Live'} = {sd[m] : m \in Live} \cup {NewFd}
      BY <1>3, <2>1, <2>2 DEF Live
    <2>4. Orphans' = Orphans
      BY <1>1, <1>2, <2>3 DEF Orphans
    <2>5. NewFd # lsd
      BY <1>2 DEF Descriptors
    <2>6. sd' \in [Nodes -> fds' \cup {-1}] /\ lsd' \in fds' \cup {-1}
      BY <1>1, <1>5 DEF Descriptors
    <2>7. \A m \in Nodes : conn'[m] = "open" <=> sd'[m] # -1
      BY <1>2, <1>5, <2>2 DEF Descriptors, Types
    <2>8. /\ \A m \in Live' : sd'[m] # lsd'
          /\ \A l, m \in Live' : sd'[l] = sd'[m] => l = m
      BY <1>1, <1>2, <1>3, <1>4, <2>1, <2>2, <2>5 DEF Descriptors, Live
    <2> QED BY <1>1, <1>2, <2>1, <2>4, <2>6, <2>7, <2>8 DEF Descriptors
  <1>6. CASE conn' = [conn EXCEPT ![n] = "lost"] /\ UNCHANGED sd
    <2>1. Live' = Live /\ Orphaned' = Orphaned \cup {n}
      BY <1>1, <1>6 DEF Types, Live, Orphaned
    <2>2. NewFd # lsd /\ NewFd \notin {sd[m] : m \in Live}
      BY <1>2, <1>4 DEF Descriptors
    <2>3. Orphans' = Orphans \cup {NewFd} /\ NewFd \notin Orphans
      BY <1>1, <1>2, <1>6, <2>1, <2>2 DEF Orphans
    <2>4. IsFiniteSet(Orphans)
      BY FS_Subset DEF Orphans, Descriptors
    <2>5. Cardinality(Orphans') = Cardinality(Orphaned')
      <3>1. Cardinality(Orphans \cup {NewFd}) = Cardinality(Orphans) + 1
        BY <2>3, <2>4, FS_AddElement
      <3>2. Cardinality(Orphaned \cup {n}) = Cardinality(Orphaned) + 1
        BY <1>3, OrphanedFinite, FS_AddElement
      <3> QED BY <2>1, <2>3, <3>1, <3>2 DEF Descriptors
    <2>6. \A m \in Nodes : conn'[m] = "open" <=> sd'[m] # -1
      BY <1>1, <1>6 DEF Descriptors, Types
    <2> QED BY <1>1, <1>2, <1>6, <2>1, <2>5, <2>6 DEF Descriptors
  <1> QED BY <1>5, <1>6 DEF Accept

\* connmgr_remove_sensor; after a reset the descriptor stays open.
LEMMA RemoveDescriptors ==
    ASSUME Types, Descriptors, NEW n \in Live, Remove(n), UNCHANGED end
    PROVE  Descriptors'
  <1>1. /\ n \in Nodes /\ conn[n] = "open" /\ sd[n] \in fds /\ sd[n] # lsd
        /\ UNCHANGED gateway /\ lsd' = -1 /\ n \notin Orphaned
        /\ \A m \in Nodes : sd'[m] = IF m = n THEN -1 ELSE sd[m]
    BY DEF Live, Remove, Descriptors, Orphaned
  <1>2. fds' = fds \ (ClosedFds(n) \cup {lsd}) /\ fds' \subseteq fds /\ IsFiniteSet(fds')
    BY FS_Subset DEF Remove, Descriptors
  <1>3. -1 \notin fds
    BY DEF Descriptors
  <1>4. Live' = Live \ {n}
    BY <1>1 DEF Remove, Live, Types
  <1>5. \A m \in Live' : sd'[m] = sd[m] /\ sd[m] # sd[n] /\ sd[m] # lsd /\ sd[m] \in fds
    BY <1>1, <1>4 DEF Descriptors, Live
  <1>6. {sd'[m] : m \in Live'} = {sd[m] : m \in Live} \ {sd[n]}
    BY <1>1, <1>4, <1>5 DEF Live
  <1>7. \A m \in Live' : sd'[m] \in fds'
    BY <1>2, <1>5 DEF ClosedFds
  <1>8. \A m \in Nodes : conn'[m] = "open" <=> sd'[m] # -1
    BY <1>1 DEF Remove, Descriptors, Types
  <1>9. sd' \in [Nodes -> fds' \cup {-1}]
    <2>1. \A m \in Nodes : sd'[m] \in fds' \cup {-1}
      BY <1>7, <1>8 DEF Live
    <2>2. sd' = [m \in Nodes |-> sd'[m]]
      BY DEF Remove, Descriptors
    <2> QED BY <2>1, <2>2
  <1>10. Cardinality(Orphans') = Cardinality(Orphaned')
    <2>1. CASE end[n] = "rst"
      <3>1. Orphaned' = Orphaned \cup {n}
        BY <1>1, <2>1 DEF Remove, Orphaned, Types
      <3>2. Orphans' = Orphans \cup {sd[n]} /\ sd[n] \notin Orphans
        BY <1>1, <1>2, <1>3, <1>6, <2>1 DEF Orphans, ClosedFds
      <3>3. IsFiniteSet(Orphans)
        BY FS_Subset DEF Orphans, Descriptors
      <3>4. Cardinality(Orphans \cup {sd[n]}) = Cardinality(Orphans) + 1
        BY <3>2, <3>3, FS_AddElement
      <3>5. Cardinality(Orphaned \cup {n}) = Cardinality(Orphaned) + 1
        BY <1>1, OrphanedFinite, FS_AddElement
      <3> QED BY <3>1, <3>2, <3>4, <3>5 DEF Descriptors
    <2>2. CASE end[n] # "rst"
      <3>1. Orphaned' = Orphaned
        BY <1>1, <2>2 DEF Remove, Orphaned, Types
      <3>2. Orphans' = Orphans
        BY <1>1, <1>2, <1>3, <1>6, <2>2 DEF Orphans, ClosedFds
      <3> QED BY <3>1, <3>2 DEF Descriptors
    <2> QED BY <2>1, <2>2
  <1>11. /\ fds' \subseteq 0..Cardinality(Nodes) /\ lsd' \in fds' \cup {-1}
         /\ gateway' = "boot" => lsd' = -1 /\ fds' = {}
         /\ \A m \in Live' : sd'[m] # lsd'
    BY <1>1, <1>2, <1>3, <1>5 DEF Descriptors
  <1>12. \A l, m \in Live' : sd'[l] = sd'[m] => l = m
    BY <1>4, <1>5 DEF Descriptors
  <1> QED BY <1>2, <1>8, <1>9, <1>10, <1>11, <1>12 DEF Descriptors

\* The other steps open and close nothing.
LEMMA OtherDescriptors ==
    ASSUME Types, Descriptors, NEW n \in Nodes,
           Connect(n) \/ SendField(n) \/ Exit(n) \/ Arrive(n) \/ Reset(n) \/ Begin(n)
           \/ Receive(n)
    PROVE  Descriptors'
  <1>1. UNCHANGED <<fds, lsd, sd, gateway>>
    BY DEF Connect, SendField, Exit, Arrive, Reset, Begin, Receive, sockVars
  <1>2. CASE Connect(n)
    <2>1. conn[n] = "none" /\ (conn' = conn \/ conn' = [conn EXCEPT ![n] = "queued"])
          /\ UNCHANGED end
      BY <1>2 DEF Connect, netVars, Types
    <2>2. Live' = Live /\ Orphaned' = Orphaned
          /\ \A m \in Nodes : conn'[m] = "open" <=> conn[m] = "open"
      BY <2>1 DEF Live, Orphaned, Types
    <2> QED BY <1>1, <2>2 DEF Descriptors, Orphans
  <1>3. CASE ~Connect(n)
    <2>1. UNCHANGED conn
      BY <1>3 DEF SendField, Exit, Arrive, Reset, Begin, Receive, sockVars
    <2>2. \A m \in Nodes : conn[m] = "closed" => (end'[m] = "rst" <=> end[m] = "rst")
      BY <1>3 DEF SendField, Exit, Arrive, Reset, Begin, Receive, netVars, Types
    <2>3. Live' = Live /\ Orphaned' = Orphaned
      BY <2>1, <2>2 DEF Live, Orphaned
    <2> QED BY <1>1, <2>1, <2>3 DEF Descriptors, Orphans
  <1> QED BY <1>2, <1>3

-----------------------------------------------------------------------------
(* The types.                                                              *)

\* A receive takes no more than there is, nor than the field holds.
LEMMA FieldFacts ==
    ASSUME Types, NEW n \in Nodes
    PROVE  /\ Len(part) + 1 \in 1..3 /\ Available(n) \in Nat
           /\ NextField(n) = <<taken[n], IF Width[Len(part) + 1] <= Available(n)
                                         THEN Width[Len(part) + 1] ELSE Available(n)>>
           /\ NextField(n) \in Nat \X Nat
           /\ taken[n] + NextField(n)[2] <= arrived[n]
  <1>1. Len(part) + 1 \in 1..3 /\ Available(n) \in Nat /\ taken[n] \in Nat
        /\ Available(n) = arrived[n] - taken[n] /\ arrived[n] \in Nat
    <2>1. part \in Fields => Len(part) \in Nat
      BY DEF Fields
    <2>2. taken[n] \in Nat /\ arrived[n] \in Nat /\ taken[n] <= arrived[n]
      BY DEF Types
    <2>3. part \in Fields /\ Len(part) < 3
      BY DEF Types
    <2>4. Available(n) = arrived[n] - taken[n]
      BY DEF Available
    <2> QED BY <2>1, <2>2, <2>3, <2>4
  <1>2. Width[Len(part) + 1] \in Nat
    BY <1>1, Sizes
  <1>3. NextField(n) = <<taken[n], IF Width[Len(part) + 1] <= Available(n)
                                   THEN Width[Len(part) + 1] ELSE Available(n)>>
    BY <1>1, <1>2, MinPair DEF NextField
  <1> HIDE DEF Available
  <1> QED BY <1>1, <1>2, <1>3

\* A receive keeps the counters and the fields in their ranges.
LEMMA TakeTypes ==
    ASSUME Types, NEW n \in Nodes, Take(n), reading \in {n, NOBODY},
           UNCHANGED <<nodeVars, netVars, sockVars>>
    PROVE  Types'
  <1>1. /\ NextField(n) \in Nat \X Nat /\ taken[n] + NextField(n)[2] <= arrived[n]
        /\ NextField(n)[2] \in Nat
    BY FieldFacts
  <1>2. /\ taken' \in [Nodes -> Nat]
        /\ \A m \in Nodes : taken'[m] <= arrived[m]
    BY <1>1 DEF Take, Types
  <1>3. CASE Len(part) < 2
    <2>1. part' = Append(part, NextField(n)) /\ reading' = n /\ got' = got
      BY <1>3 DEF Take
    <2>2. part' \in Fields /\ Len(part') < 3 /\ part' # <<>>
      BY <1>1, <1>3, <2>1 DEF Types, Fields
    <2> QED BY <1>2, <2>1, <2>2, NobodyAssumption DEF Types, nodeVars, netVars, sockVars
  <1>4. CASE ~(Len(part) < 2)
    <2>1. part' = <<>> /\ reading' = NOBODY
          /\ got' = [got EXCEPT ![n] = Append(@, part \o <<NextField(n)>>)]
      BY <1>4 DEF Take
    <2>2. part \o <<NextField(n)>> \in Fields
      BY <1>1 DEF Types, Fields
    <2>3. got' \in [Nodes -> Seq(Fields)]
      BY <2>1, <2>2 DEF Types
    <2>4. part' \in Fields /\ Len(part') < 3
      BY <2>1 DEF Fields
    <2> QED BY <1>2, <2>1, <2>3, <2>4, NobodyAssumption DEF Types, nodeVars, netVars, sockVars
  <1> QED BY <1>3, <1>4

\* Every step keeps the types.
LEMMA TypesStep == ASSUME Types, [Next]_vars PROVE Types'
  <1> USE DEF nodeVars, netVars, sockVars, recvVars
  <1>1. CASE Listen
    BY <1>1 DEF Listen, Types
  <1>2. ASSUME NEW n \in Nodes, Connect(n) PROVE Types'
    BY <1>2 DEF Connect, Types
  <1>3. ASSUME NEW n \in Nodes, SendField(n) PROVE Types'
    <2>1. PICK f \in 1..3 : sent' = [sent EXCEPT ![n] = @ + Width[f]]
      BY <1>3 DEF SendField
    <2>2. UNCHANGED <<node, netVars, sockVars, recvVars>> /\ Width[f] \in Nat
      BY <1>3, Sizes DEF SendField
    <2> HIDE DEF Width
    <2>3. sent' \in [Nodes -> Nat] /\ \A m \in Nodes : arrived[m] <= sent'[m]
      BY <2>1, <2>2 DEF Types
    <2> QED BY <2>2, <2>3 DEF Types
  <1>4. ASSUME NEW n \in Nodes, Exit(n) PROVE Types'
    BY <1>4 DEF Exit, Types
  <1>5. ASSUME NEW n \in Nodes, Arrive(n) PROVE Types'
    <2>1. PICK b \in arrived[n] + 1 .. sent[n] :
              /\ arrived' = [arrived EXCEPT ![n] = b]
              /\ split' = [split EXCEPT ![n] = @ \/ b \notin Boundaries]
      BY <1>5 DEF Arrive
    <2>2. b \in Nat /\ arrived[n] < b /\ b <= sent[n]
      BY <2>1 DEF Types
    <2>3. split' \in [Nodes -> BOOLEAN]
      BY <2>1 DEF Types
    <2>4. /\ arrived' \in [Nodes -> Nat]
          /\ \A m \in Nodes : taken[m] <= arrived'[m] /\ arrived'[m] <= sent[m]
      BY <2>1, <2>2 DEF Types
    <2> QED BY <1>5, <2>3, <2>4 DEF Arrive, Types
  <1>6. ASSUME NEW n \in Nodes, Reset(n) PROVE Types'
    BY <1>6 DEF Reset, Types
  <1>7. ASSUME NEW n \in Nodes, Accept(n) PROVE Types'
    BY <1>7 DEF Accept, Types
  <1>8. ASSUME NEW n \in Nodes, Begin(n) \/ Receive(n) PROVE Types'
    BY <1>8, TakeTypes DEF Begin, Receive, Idle
  <1>9. ASSUME NEW n \in Nodes, BeginFails(n) \/ TimeOut(n) PROVE Types'
    <2>1. conn' = [m \in Nodes |-> IF m = n THEN "closed"
                                   ELSE IF conn[m] = "queued" THEN "refused"
                                   ELSE conn[m]]
          /\ conn[n] = "open" /\ UNCHANGED <<nodeVars, netVars, recvVars, gateway>>
      BY <1>9 DEF BeginFails, TimeOut, Remove
    <2>2. conn' \in [Nodes -> {"none", "queued", "open", "closed", "refused", "lost"}]
      BY <2>1 DEF Types
    <2>3. \A m \in Nodes : node'[m] = "start" => conn'[m] = "none"
      BY <2>1 DEF Types
    <2> QED BY <2>1, <2>2, <2>3 DEF Types
  <1>10. CASE UNCHANGED vars
    BY <1>10 DEF vars, Types
  <1> QED BY <1>1, <1>2, <1>3, <1>4, <1>5, <1>6, <1>7, <1>8, <1>9, <1>10 DEF Next

-----------------------------------------------------------------------------
(* The streams.                                                            *)

\* What has arrived at all of the next field has arrived whole.
LEMMA WholeField ==
    ASSUME Types, NEW n \in Nodes, Stream(n), ~split[n], Clean(n), Available(n) > 0,
           NextPart(n) = Len(part) + 1
    PROVE  LET g == Len(got[n]) p == Len(part) + 1
           IN  NextField(n) = <<Begins(g, p), Width[p]>> /\ taken[n] = Begins(g, p)
  <1> DEFINE g == Len(got[n])
             p == Len(part) + 1
  <1>1. taken[n] = Begins(g, p)
    BY DEF Clean
  <1>2. g \in Nat /\ p \in 1..3 /\ Width[p] \in Nat
    <2>1. g \in Nat /\ p \in 1..3
      BY FieldFacts DEF Types
    <2> HIDE DEF p
    <2> QED BY <2>1, Sizes
  <1>3. PICK r \in Nat, f \in 1..3 : arrived[n] = Begins(r, f)
    BY DEF Stream
  <1>4. Begins(g, p) < Begins(r, f) /\ Available(n) = Begins(r, f) - Begins(g, p)
        /\ Begins(g, p) \in Nat /\ Begins(r, f) \in Nat
    <2>1. Begins(g, p) \in Nat /\ Begins(r, f) \in Nat
      BY <1>2, Sizes
    <2>2. Available(n) = Begins(r, f) - Begins(g, p)
      BY <1>1, <1>3 DEF Available
    <2> QED BY <2>1, <2>2
  <1>5. Begins(g, p) + Width[p] <= Begins(r, f)
    BY <1>2, <1>4, FieldFits
  <1>6. Width[p] <= Available(n)
    BY <1>2, <1>4, <1>5
  <1>7. NextField(n) = <<taken[n], IF Width[p] <= Available(n) THEN Width[p] ELSE Available(n)>>
    BY FieldFacts
  <1> QED BY <1>1, <1>6, <1>7

\* A receive that returns with nothing does so at the end of the stream, and the
\* record it is for is the first that is torn.
LEMMA NothingLeft ==
    ASSUME Types, NEW n \in Nodes, Stream(n), ~split[n], Take(n),
           (reading = n /\ Returns(n)) \/ (reading = NOBODY /\ Available(n) > 0),
           ~(Clean(n) /\ Available(n) > 0), UNCHANGED netVars
    PROVE  Available(n) = 0 /\ reading = n /\ end[n] # "open" /\ taken'[n] = arrived'[n]
           /\ \A i \in 1..Len(got[n]) : Whole(n, i)
  <1>1. Available(n) \in Nat /\ Available(n) = arrived[n] - taken[n]
        /\ taken[n] \in Nat /\ arrived[n] \in Nat
    BY FieldFacts DEF Types, Available
  <1>2. Available(n) = 0
    BY <1>1 DEF Stream, Torn
  <1>3. reading = n /\ end[n] # "open"
    BY <1>2 DEF Returns
  <1>4. \A i \in 1..Len(got[n]) : Whole(n, i)
    BY <1>3 DEF Stream, Clean, Torn
  <1>5. taken'[n] = arrived'[n]
    <2>1. NextField(n)[2] = 0
      <3>1. Width[Len(part) + 1] \in Nat
        BY FieldFacts, Sizes
      <3>2. NextField(n) = <<taken[n], IF Width[Len(part) + 1] <= Available(n)
                                       THEN Width[Len(part) + 1] ELSE Available(n)>>
        BY FieldFacts
      <3> QED BY <1>2, <3>1, <3>2
    <2>2. taken'[n] = taken[n] + NextField(n)[2]
      BY DEF Take, Types
    <2> QED BY <1>1, <1>2, <2>1, <2>2 DEF netVars
  <1> QED BY <1>2, <1>3, <1>4, <1>5

\* A receive takes the next field whole, or finds that there is no more.
LEMMA TakeStream ==
    ASSUME Types, NEW n \in Nodes, Stream(n), Take(n),
           (reading = n /\ Returns(n)) \/ (reading = NOBODY /\ Available(n) > 0),
           UNCHANGED netVars
    PROVE  Stream(n)'
  <1> SUFFICES ASSUME ~split[n] PROVE Stream(n)'
    BY DEF Stream, netVars
  <1> DEFINE p == Len(part) + 1
             g == Len(got[n])
             x == NextField(n)
  <1>1. /\ p \in 1..3 /\ NextPart(n) = p /\ Available(n) \in Nat
        /\ Available(n) = arrived[n] - taken[n]
        /\ got[n] \in Seq(Fields) /\ g \in Nat /\ part \in Fields
        /\ taken[n] \in Nat /\ arrived[n] \in Nat
        /\ n # NOBODY
    BY FieldFacts, NobodyAssumption DEF Types, Fields, NextPart, Available
  <1>2. x = <<taken[n], IF Width[p] <= Available(n) THEN Width[p] ELSE Available(n)>>
        /\ x \in Nat \X Nat
    BY FieldFacts
  <1>3. taken'[n] = taken[n] + x[2] /\ arrived'[n] = arrived[n] /\ end'[n] = end[n]
    BY DEF Take, Types, netVars
  <1>4. \E r \in Nat, f \in 1..3 : arrived'[n] = Begins(r, f)
    BY <1>3 DEF Stream
  <1>5. CASE p < 3
    <2>1. part' = Append(part, x) /\ reading' = n /\ got' = got
      BY <1>1, <1>5 DEF Take
    <2>2. /\ Len(part') = p /\ part'[p] = x /\ \A f \in 1..Len(part) : part'[f] = part[f]
          /\ NextPart(n)' = p + 1
      BY <1>1, <1>2, <2>1 DEF NextPart, Fields
    <2>3. CASE Clean(n) /\ Available(n) > 0
      <3>1. x = <<Begins(g, p), Width[p]>> /\ taken[n] = Begins(g, p)
        BY <1>1, <1>2, <2>3, WholeField
      <3>2. taken'[n] = Begins(g, p + 1)
        <4>1. p = 1 \/ p = 2
          BY <1>1, <1>5
        <4>2. Begins(g, p) + Width[p] = Begins(g, p + 1)
          <5>1. g \in Nat
            BY <1>1
          <5>2. CASE p = 1
            <6>1. p + 1 = 2
              BY <5>2
            <6> HIDE DEF p
            <6> QED BY <5>1, <5>2, <6>1, NextBegins
          <5>3. CASE p = 2
            <6>1. p + 1 = 3
              BY <5>3
            <6> HIDE DEF p
            <6> QED BY <5>1, <5>3, <6>1, NextBegins
          <5> QED BY <4>1, <5>2, <5>3
        <4> QED BY <1>3, <3>1, <4>2
      <3>3. \A f \in 1..Len(part) : part[f] = <<Begins(g, f), Width[f]>>
        BY <1>1, <2>3, <1>5 DEF Clean, NextPart, Types
      <3>4. \A f \in 1..p : part'[f] = <<Begins(g, f), Width[f]>>
        BY <1>1, <2>2, <3>1, <3>3
      <3>5. Clean(n)'
        BY <2>1, <2>2, <2>3, <3>2, <3>4 DEF Clean, Whole, Begins
      <3> QED BY <1>4, <3>5 DEF Stream
    <2>4. CASE ~(Clean(n) /\ Available(n) > 0)
      <3>1. Available(n) = 0 /\ reading = n /\ end[n] # "open" /\ taken'[n] = arrived'[n]
            /\ \A i \in 1..g : Whole(n, i)
        BY <1>1, <1>2, <1>3, <2>4, NothingLeft
      <3> QED BY <1>3, <1>4, <2>1, <3>1 DEF Stream, Torn, Whole
    <2> QED BY <2>3, <2>4
  <1>6. CASE p = 3
    <2>1. part' = <<>> /\ reading' = NOBODY
          /\ got' = [got EXCEPT ![n] = Append(@, part \o <<x>>)]
      BY <1>1, <1>6 DEF Take
    <2>2. /\ Len(got'[n]) = g + 1 /\ NextPart(n)' = 1
          /\ \A i \in 1..g : got'[n][i] = got[n][i]
          /\ got'[n][g + 1] = part \o <<x>>
      <3>1. part \o <<x>> \in Fields
        BY <1>1, <1>2 DEF Fields
      <3>2. got'[n] = Append(got[n], part \o <<x>>)
        BY <2>1 DEF Types
      <3>3. NextPart(n)' = 1
        BY <1>1, <2>1 DEF NextPart
      <3> HIDE DEF x
      <3> QED BY <1>1, <3>1, <3>2, <3>3
    <2>3. \A i \in 1..g : Whole(n, i) => Whole(n, i)'
      BY <2>2 DEF Whole
    <2>4. CASE Clean(n) /\ Available(n) > 0
      <3>1. x = <<Begins(g, p), Width[p]>> /\ taken[n] = Begins(g, p)
        BY <1>1, <1>2, <2>4, WholeField
      <3>2. taken'[n] = Begins(g + 1, 1)
        <4>1. Begins(g, p) + Width[p] = Begins(g + 1, 1)
          BY <1>1, <1>6, NextBegins
        <4> QED BY <1>3, <3>1, <4>1
      <3>3. part[1] = <<Begins(g, 1), Width[1]>> /\ part[2] = <<Begins(g, 2), Width[2]>>
        BY <1>1, <1>6, <2>4 DEF Clean, NextPart, Types
      <3>4. \A f \in 1..3 : (part \o <<x>>)[f] = <<Begins(g, f), Width[f]>>
        <4>1. \A f \in 1..3 : (part \o <<x>>)[f] = IF f = 3 THEN x ELSE part[f]
          <5>1. part \in Seq(Nat \X Nat) /\ Len(part) \in Nat
            BY <1>1 DEF Fields
          <5>2. Len(part) = 2
            BY <1>6, <5>1
          <5>3. x \in Nat \X Nat
            BY <1>2
          <5> HIDE DEF x
          <5> HIDE DEF p, g
          <5>4. /\ (part \o <<x>>)[1] = part[1] /\ (part \o <<x>>)[2] = part[2]
                /\ (part \o <<x>>)[3] = x
            <6>1. part \in Fields
              BY <5>1 DEF Fields
            <6> HIDE DEF Fields
            <6> QED BY <5>2, <5>3, <6>1, AddThird
          <5> HIDE DEF x
          <5>5. \A f \in 1..3 : f = 1 \/ f = 2 \/ f = 3
            OBVIOUS
          <5>6. 1 # 3 /\ 2 # 3
            OBVIOUS
          <5> QED BY <5>4, <5>5, <5>6, Zenon
        <4> QED BY <1>6, <3>1, <3>3, <4>1
      <3>5. \A f \in 1..3 : got'[n][g + 1][f] = <<Begins((g + 1) - 1, f), Width[f]>>
        <4>1. (g + 1) - 1 = g
          BY <1>1
        <4> QED BY <2>2, <3>4, <4>1
      <3>6. ASSUME NEW i \in 1..Len(got'[n]) PROVE Whole(n, i)'
        <4>1. CASE i \in 1..g
          BY <2>3, <2>4, <4>1 DEF Clean
        <4>2. CASE i = g + 1
          BY <3>5, <4>2 DEF Whole, Begins
        <4> QED BY <1>1, <2>2, <4>1, <4>2
      <3>7. Clean(n)'
        BY <1>1, <2>1, <2>2, <3>2, <3>6 DEF Clean
      <3> QED BY <1>4, <3>7 DEF Stream
    <2>5. CASE ~(Clean(n) /\ Available(n) > 0)
      <3>1. Available(n) = 0 /\ reading = n /\ end[n] # "open" /\ taken'[n] = arrived'[n]
            /\ \A i \in 1..g : Whole(n, i)
        BY <1>1, <1>2, <1>3, <2>5, NothingLeft
      <3>2. \A i \in 1..Len(got'[n]) : Whole(n, i)' \/ i = Len(got'[n])
        BY <1>1, <2>2, <2>3, <3>1
      <3>3. Torn(n)'
        BY <1>1, <1>3, <2>1, <3>1, <3>2 DEF Torn
      <3> QED BY <1>4, <3>3 DEF Stream
    <2> QED BY <2>4, <2>5
  <1> QED BY <1>1, <1>5, <1>6

\* A stream that nothing is received from or comes in from is as it was.
LEMMA StreamFrame ==
    ASSUME Types, NEW m \in Nodes, Stream(m),
           arrived'[m] = arrived[m], taken'[m] = taken[m], got'[m] = got[m],
           split'[m] = split[m], end[m] # "open" => end'[m] # "open",
           reading' = m <=> reading = m, reading = m => part' = part
    PROVE  Stream(m)'
  <1> SUFFICES ASSUME ~split[m] PROVE Stream(m)'
    BY DEF Stream
  <1>1. NextPart(m)' = NextPart(m)
    BY DEF NextPart
  <1>2. Clean(m) => Clean(m)'
    BY <1>1 DEF Clean, Whole
  <1>3. Torn(m) => Torn(m)'
    BY DEF Torn, Whole
  <1> QED BY <1>2, <1>3 DEF Stream

\* Every step keeps the streams of all nodes whole, or torn where they ended.
LEMMA StreamsStep == ASSUME Types, Streams, [Next]_vars PROVE Streams'
  <1> USE DEF nodeVars, netVars, sockVars, recvVars
  <1> SUFFICES ASSUME NEW m \in Nodes PROVE Stream(m)'
    BY DEF Streams
  <1>0. Stream(m)
    BY DEF Streams
  <1>1. CASE \/ Listen \/ UNCHANGED vars
            \/ \E n \in Nodes : \/ Connect(n) \/ SendField(n) \/ Accept(n) \/ BeginFails(n)
                              \/ TimeOut(n)
    <2>1. UNCHANGED <<netVars, recvVars>>
      BY <1>1 DEF Listen, vars, Connect, SendField, Accept, BeginFails, TimeOut
    <2> QED BY <1>0, <2>1, StreamFrame
  <1>2. ASSUME NEW n \in Nodes, Exit(n) PROVE Stream(m)'
    <2>1. UNCHANGED <<arrived, split, recvVars>> /\ (end[m] # "open" => end'[m] # "open")
      BY <1>2 DEF Exit, Types
    <2> QED BY <1>0, <2>1, StreamFrame
  <1>3. ASSUME NEW n \in Nodes, Arrive(n) PROVE Stream(m)'
    <2>1. PICK b \in arrived[n] + 1 .. sent[n] :
              /\ arrived' = [arrived EXCEPT ![n] = b]
              /\ split' = [split EXCEPT ![n] = @ \/ b \notin Boundaries]
      BY <1>3 DEF Arrive
    <2>2. UNCHANGED <<end, recvVars>> /\ end[n] = "open"
      BY <1>3 DEF Arrive
    <2>3. CASE m # n
      <3>1. arrived'[m] = arrived[m] /\ split'[m] = split[m]
        BY <2>1, <2>3 DEF Types
      <3> QED BY <1>0, <2>2, <3>1, StreamFrame
    <2>4. CASE m = n
      <3> SUFFICES ASSUME ~split'[n] PROVE Stream(n)'
        BY <2>4 DEF Stream
      <3>1. split'[n] = (split[n] \/ b \notin Boundaries) /\ arrived'[n] = b
        BY <2>1 DEF Types
      <3>2. ~split[n] /\ b \in Boundaries
        BY <3>1, Zenon
      <3>3. \E r \in Nat, f \in 1..3 : arrived'[n] = Begins(r, f)
        BY <3>1, <3>2, LinkAssumption DEF Boundaries, Begins
      <3>4. Clean(n)
        BY <1>0, <2>2, <2>4, <3>2 DEF Stream, Torn
      <3>5. Clean(n)'
        BY <2>2, <3>4 DEF Clean, Whole, NextPart
      <3> QED BY <3>3, <3>5 DEF Stream
    <2> QED BY <2>3, <2>4
  <1>4. ASSUME NEW n \in Nodes, Reset(n) PROVE Stream(m)'
    <2>1. UNCHANGED <<split, recvVars>> /\ end[n] = "open"
      BY <1>4 DEF Reset
    <2>2. \A l \in Nodes : /\ arrived'[l] = IF l = n THEN taken[n] ELSE arrived[l]
                          /\ end'[l] = IF l = n THEN "rst" ELSE end[l]
      BY <1>4 DEF Reset, Types
    <2>3. CASE m # n
      BY <1>0, <2>1, <2>2, <2>3, StreamFrame
    <2>4. CASE m = n
      <3> SUFFICES ASSUME ~split[n] PROVE Stream(n)'
        BY <2>1, <2>4 DEF Stream
      <3>1. Clean(n)
        BY <1>0, <2>1, <2>4 DEF Stream, Torn
      <3>2. Clean(n)'
        BY <2>1, <3>1 DEF Clean, Whole, NextPart
      <3>3. Len(got[n]) \in Nat /\ NextPart(n) \in 1..3
        <4>1. Len(got[n]) \in Nat
          BY DEF Types
        <4> QED BY <4>1, FieldFacts DEF NextPart
      <3>4. arrived'[n] = Begins(Len(got[n]), NextPart(n))
        BY <2>2, <3>1 DEF Clean
      <3> QED BY <3>2, <3>3, <3>4 DEF Stream
    <2> QED BY <2>3, <2>4
  <1>5. ASSUME NEW n \in Nodes, Begin(n) \/ Receive(n) PROVE Stream(m)'
    <2>1. /\ Take(n) /\ UNCHANGED <<nodeVars, netVars, sockVars>>
          /\ (reading = n /\ Returns(n)) \/ (reading = NOBODY /\ Available(n) > 0)
      <3>1. CASE Begin(n)
        BY <3>1 DEF Begin, Idle
      <3>2. CASE Receive(n)
        <4> HIDE DEF nodeVars, netVars, sockVars
        <4> QED BY <3>2, Zenon DEF Receive
      <3> QED BY <1>5, <3>1, <3>2
    <2>2. CASE m = n
      BY <1>0, <2>1, <2>2, TakeStream
    <2>3. CASE m # n
      <3>1. /\ taken'[m] = taken[m] /\ got'[m] = got[m]
            /\ reading' \in {n, NOBODY} /\ reading \in {n, NOBODY}
        BY <2>1, <2>3 DEF Take, Types
      <3> QED BY <1>0, <2>1, <2>3, <3>1, NobodyAssumption, StreamFrame
    <2> QED BY <2>2, <2>3
  <1> QED BY <1>1, <1>2, <1>3, <1>4, <1>5 DEF Next

-----------------------------------------------------------------------------
\* The invariant holds before the gateway listens.
LEMMA InitLInv == Init => LInv
  <1> SUFFICES ASSUME Init PROVE LInv
    OBVIOUS
  <1>1. Types
    BY DEF Init, Types, Fields
  <1>2. Descriptors
    <2>1. Live = {} /\ Orphaned = {} /\ Orphans = {}
      BY DEF Init, Live, Orphaned, Orphans
    <2> QED BY <2>1, FS_EmptySet DEF Init, Descriptors
  <1>3. Streams
    <2>1. Begins(0, 1) = 0 /\ 0 \in Nat /\ 1 \in 1..3
      BY Sizes DEF Begins, Offset
    <2>2. \A n \in Nodes : n # NOBODY
      BY NobodyAssumption
    <2>3. ASSUME NEW n \in Nodes PROVE Stream(n)
      <3>1. arrived[n] = 0 /\ taken[n] = 0 /\ Len(got[n]) = 0 /\ NextPart(n) = 1
            /\ reading # n
        BY <2>2 DEF Init, NextPart
      <3> QED BY <2>1, <3>1 DEF Stream, Clean
    <2> QED BY <2>3 DEF Streams
  <1> QED BY <1>1, <1>2, <1>3 DEF LInv

\* Every step keeps the invariant.
LEMMA NextLInv == LInv /\ [Next]_vars => LInv'
  <1> SUFFICES ASSUME LInv, [Next]_vars PROVE LInv'
    OBVIOUS
  <1>1. Types' /\ Streams'
    BY TypesStep, StreamsStep DEF LInv
  <1>2. Descriptors'
    <2> USE DEF LInv
    <2>1. CASE Listen
      BY <2>1, ListenDescriptors
    <2>2. ASSUME NEW n \in Nodes, Accept(n) PROVE Descriptors'
      BY <2>2, AcceptDescriptors
    <2>3. ASSUME NEW n \in Nodes, BeginFails(n) \/ TimeOut(n) PROVE Descriptors'
      <3>1. n \in Live /\ Remove(n) /\ UNCHANGED end
        BY <2>3 DEF BeginFails, TimeOut, Live, netVars
      <3> QED BY <3>1, RemoveDescriptors
    <2>4. ASSUME NEW n \in Nodes,
                 Connect(n) \/ SendField(n) \/ Exit(n) \/ Arrive(n) \/ Reset(n) \/ Begin(n)
                 \/ Receive(n)
          PROVE  Descriptors'
      BY <2>4, OtherDescriptors
    <2>5. CASE UNCHANGED vars
      BY <2>5 DEF vars, netVars, sockVars, Descriptors, Live, Orphans, Orphaned
    <2> QED BY <2>1, <2>2, <2>3, <2>4, <2>5 DEF Next
  <1> QED BY <1>1, <1>2 DEF LInv

\* So it always holds.
LEMMA LInvHolds == Spec => []LInv
  <1> QED BY InitLInv, NextLInv, PTL DEF Spec

\* Each socket in the list has a descriptor of its own that is open and is not
\* the listening one's, and the descriptors that nobody has any more are
\* exactly those that tcp_close and a failed malloc leave open.
THEOREM DescriptorsStayOwned == Spec => []DescriptorsOwned
  <1>1. ASSUME LInv PROVE DescriptorsOwned
    <2>1. \A n \in Live : sd[n] \in fds /\ sd[n] # lsd
      BY <1>1 DEF LInv, Descriptors, Live
    <2> QED BY <1>1, <2>1 DEF LInv, Descriptors, DescriptorsOwned, Live, Orphans, Orphaned
  <1> QED BY <1>1, LInvHolds, PTL

\* As long as no segment of a node ends inside a field, the records that it sent
\* are put in the buffer whole, each once and in order; the last one of a stream
\* that has ended may be torn.
THEOREM RecordsStayWhole == Spec => []RecordsWhole
  <1>1. ASSUME LInv PROVE RecordsWhole
    <2>1. TypeOK
      BY <1>1 DEF LInv, Types, Descriptors, TypeOK
    <2>2. ASSUME NEW n \in Nodes, ~split[n], NEW i \in 1..Len(got[n])
          PROVE  Whole(n, i) \/ (i = Len(got[n]) /\ end[n] # "open")
      BY <1>1, <2>2 DEF LInv, Streams, Stream, Clean, Torn
    <2> QED BY <2>1, <2>2 DEF RecordsWhole
  <1> QED BY <1>1, LInvHolds, PTL

=============================================================================
