----------------------- MODULE ConnectionManager_proofs -----------------------
(***************************************************************************)
(* Proofs about ConnectionManager, for any number of sensors: the list,    *)
(* its size and the open sockets stay in step, and the loop neither runs   *)
(* off the list nor polls an empty one before a time-out removal at the    *)
(* end of the list.                                                        *)
(***************************************************************************)
EXTENDS ConnectionManager, FiniteSetTheorems, TLAPS

Elements == Sensors \cup {SERVER}

-----------------------------------------------------------------------------
(* The inductive invariant.                                                *)

\* TypeOK without the bound on size, which follows, and the Boolean variables.
Types ==
    /\ list \in Seq(Elements)
    /\ size \in Nat /\ index \in Nat
    /\ last \in [Elements -> 0..MaxTime] /\ srvLast \in 0..MaxTime
    /\ files \in 0..MaxFiles
    /\ conn \in [Sensors -> {"none", "queued", "open", "closed", "leaked"}]
    /\ peer \in [Sensors -> {"up", "fin", "rst"}]
    /\ unread \in [Sensors -> BOOLEAN]
    /\ now \in 0..MaxTime
    /\ state \in {"run", "stopped", "crashed"}
    /\ heard \in [Sensors -> 0..MaxTime]

Flags == listening \in BOOLEAN /\ reused \in BOOLEAN /\ overshot \in BOOLEAN

Distinct == \A i, j \in 1..Len(list) : list[i] = list[j] => i = j

Open == \A s \in Sensors : conn[s] = "open" <=> \E i \in 1..Len(list) : list[i] = s

\* IndexInRange, and the list it needs: up to then there is an element to poll.
InRange == ~overshot => index <= size /\ 1 <= size /\ state # "crashed"

CInv == Types /\ Flags /\ size = Len(list) /\ Distinct /\ Open /\ InRange

-----------------------------------------------------------------------------
(* The list operations.                                                    *)

\* dpl_remove_at_index takes one element out, and the ones behind it move up.
LEMMA RemoveAtFacts ==
    ASSUME NEW S, NEW s \in Seq(S), NEW i \in 1..Len(s)
    PROVE  /\ RemoveAt(s, i) \in Seq(S)
           /\ Len(RemoveAt(s, i)) = Len(s) - 1
           /\ \A j \in 1..Len(s) - 1 :
                RemoveAt(s, i)[j] = IF j < i THEN s[j] ELSE s[j + 1]
  <1> DEFINE a == SubSeq(s, 1, i - 1)
             b == SubSeq(s, i + 1, Len(s))
  <1>1. a \in Seq(S) /\ Len(a) = i - 1 /\ \A j \in 1..i - 1 : a[j] = s[j]
    OBVIOUS
  <1>2. b \in Seq(S) /\ Len(b) = Len(s) - i /\ \A j \in 1..Len(s) - i : b[j] = s[i + j]
    OBVIOUS
  <1>3. RemoveAt(s, i) = a \o b
    BY DEF RemoveAt
  <1> HIDE DEF a, b
  <1>4. ASSUME NEW j \in 1..Len(s) - 1
        PROVE  (a \o b)[j] = IF j < i THEN s[j] ELSE s[j + 1]
    <2>1. CASE j < i
      BY <1>1, <1>2, <2>1
    <2>2. CASE ~(j < i)
      <3>1. (a \o b)[j] = b[j - (i - 1)] /\ j - (i - 1) \in 1..Len(s) - i
        BY <1>1, <1>2, <2>2
      <3>2. b[j - (i - 1)] = s[i + (j - (i - 1))] /\ i + (j - (i - 1)) = j + 1
        BY <1>2, <3>1
      <3> QED BY <2>2, <3>1, <3>2
    <2> QED BY <2>1, <2>2
  <1>5. a \o b \in Seq(S)
    BY <1>1, <1>2
  <1>6. Len(a \o b) = Len(s) - 1
    <2>1. Len(a \o b) = Len(a) + Len(b)
      <3>1. a \in Seq(S) /\ b \in Seq(S)
        BY <1>1, <1>2
      <3> QED BY <3>1
    <2> QED BY <1>1, <1>2, <2>1
  <1> QED BY <1>3, <1>4, <1>5, <1>6

\* The element of the turn is in the list, and connmgr_remove_sensor takes it out.
LEMMA PolledFacts ==
    ASSUME CInv, list # <<>>
    PROVE  /\ Turn \in Nat
           /\ Polled \in Elements
           /\ \E p \in 1..Len(list) : Polled = list[p] /\ ListWithout(Turn) = RemoveAt(list, p)
  <1> DEFINE p == IF Turn < Len(list) THEN Turn + 1 ELSE Len(list)
  <1>1. Turn \in Nat /\ Len(list) \in Nat \ {0} /\ list \in Seq(Elements)
    BY DEF CInv, Types, Turn
  <1>2. p \in 1..Len(list) /\ Polled = list[p]
    BY <1>1 DEF Polled, Last
  <1>3. ListWithout(Turn) = RemoveAt(list, p)
    BY DEF ListWithout
  <1> QED BY <1>1, <1>2, <1>3

\* The connections in the list are different ones: it is not longer than that.
LEMMA SizeBound == ASSUME CInv PROVE size \in 0..Cardinality(Sensors) + 1
  <1>1. IsFiniteSet(Elements) /\ Cardinality(Elements) = Cardinality(Sensors) + 1
    BY ConnAssumption, ServerAssumption, FS_AddElement DEF Elements
  <1>2. Cardinality(Sensors) \in Nat
    BY ConnAssumption, FS_CardinalityType
  <1>3. IsFiniteSet(1..Len(list)) /\ Cardinality(1..Len(list)) = Len(list)
    <2>1. Len(list) \in Nat
      BY DEF CInv, Types
    <2> QED BY <2>1, FS_Interval
  <1> DEFINE f == [i \in 1..Len(list) |-> list[i]]
  <1>4. f \in [1..Len(list) -> Elements]
    BY DEF CInv, Types
  <1>5. ASSUME Cardinality(Elements) < Cardinality(1..Len(list)) PROVE FALSE
    <2>1. \E x, y \in 1..Len(list) : x # y /\ f[x] = f[y]
      <3> HIDE DEF f
      <3> QED BY <1>1, <1>3, <1>4, <1>5, FS_PigeonHole, Zenon
    <2> QED BY <2>1 DEF CInv, Distinct
  <1> QED BY <1>1, <1>2, <1>3, <1>5 DEF CInv, Types

-----------------------------------------------------------------------------
\* The invariant holds when the thread starts.
LEMMA InitCInv == Init => CInv
  <1> SUFFICES ASSUME Init PROVE CInv
    OBVIOUS
  <1> USE ConnAssumption, ServerAssumption DEF Init, Elements
  <1>1. Types
    BY DEF Types
  <1>2. Flags
    BY Zenon DEF Flags
  <1>3. size = Len(list) /\ Distinct /\ Open /\ InRange
    BY DEF Distinct, Open, InRange
  <1> QED BY <1>1, <1>2, <1>3 DEF CInv

\* connmgr_remove_sensor takes the polled element, and its socket, out together.
LEMMA RemoveStep ==
    ASSUME CInv, list # <<>>, RemoveSensor(Turn, Polled)
    PROVE  /\ list' \in Seq(Elements) /\ size' \in Nat
           /\ conn' \in [Sensors -> {"none", "queued", "open", "closed", "leaked"}]
           /\ size' = Len(list') /\ Distinct' /\ Open'
  <1> USE DEF Elements
  <1>1. PICK p \in 1..Len(list) : Polled = list[p] /\ list' = RemoveAt(list, p)
    BY PolledFacts DEF RemoveSensor
  <1>2. /\ list \in Seq(Elements) /\ size = Len(list) /\ Len(list) \in Nat \ {0}
        /\ conn \in [Sensors -> {"none", "queued", "open", "closed", "leaked"}]
    BY DEF CInv, Types
  <1>3. /\ list' \in Seq(Elements) /\ Len(list') = Len(list) - 1
        /\ \A j \in 1..Len(list) - 1 : list'[j] = IF j < p THEN list[j] ELSE list[j + 1]
    BY <1>1, <1>2, RemoveAtFacts
  <1>4. size' = Len(list) - 1
    BY <1>2 DEF RemoveSensor, SizeWithout
  <1>5. \A s \in Sensors : conn'[s] = IF s = list[p] THEN Closed(list[p])
                                     ELSE IF conn[s] = "queued" THEN "closed"
                                     ELSE conn[s]
    BY <1>1 DEF RemoveSensor
  <1>6. \A e : Closed(e) \in {"closed", "leaked"}
    BY DEF Closed
  <1>7. conn' \in [Sensors -> {"none", "queued", "open", "closed", "leaked"}]
    BY <1>2, <1>6 DEF RemoveSensor, Closed
  <1>8. Distinct'
    BY <1>2, <1>3 DEF CInv, Distinct
  <1>9. ASSUME NEW s \in Sensors
        PROVE  conn'[s] = "open" <=> \E i \in 1..Len(list') : list'[i] = s
    <2>1. CASE s = list[p]
      <3>1. \A i \in 1..Len(list') : list'[i] # s
        BY <1>2, <1>3, <2>1 DEF CInv, Distinct
      <3> QED BY <1>5, <1>6, <2>1, <3>1
    <2>2. CASE s # list[p]
      <3>1. conn'[s] = "open" <=> conn[s] = "open"
        BY <1>5, <2>2
      <3>2. ASSUME NEW i \in 1..Len(list), list[i] = s
            PROVE  \E j \in 1..Len(list') : list'[j] = s
        <4>1. CASE i < p
          <5>1. i \in 1..Len(list') /\ list'[i] = s
            BY <1>2, <1>3, <3>2, <4>1
          <5> QED BY <5>1
        <4>2. CASE p < i
          <5>1. i - 1 \in 1..Len(list') /\ ~(i - 1 < p) /\ (i - 1) + 1 = i
            BY <1>2, <1>3, <4>2
          <5>2. list'[i - 1] = s
            BY <1>2, <1>3, <3>2, <5>1
          <5> QED BY <5>1, <5>2
        <4> QED BY <1>2, <2>2, <3>2, <4>1, <4>2
      <3>3. ASSUME NEW j \in 1..Len(list'), list'[j] = s
            PROVE  \E i \in 1..Len(list) : list[i] = s
        <4>1. j \in 1..Len(list) /\ j + 1 \in 1..Len(list)
          BY <1>2, <1>3
        <4> QED BY <1>2, <1>3, <3>3, <4>1
      <3> QED BY <3>1, <3>2, <3>3 DEF CInv, Open
    <2> QED BY <2>1, <2>2
  <1> QED BY <1>2, <1>3, <1>4, <1>7, <1>8, <1>9 DEF Open

\* Every step keeps the invariant.
LEMMA NextCInv == CInv /\ [Next]_cmVars => CInv'
  <1> SUFFICES ASSUME CInv, [Next]_cmVars PROVE CInv'
    OBVIOUS
  <1> USE ConnAssumption, ServerAssumption DEF Elements, envUnchanged, sensorsUnchanged,
          fileVars
  <1>1. CASE PollEmpty
    BY <1>1 DEF PollEmpty, CInv, Types, Flags, Distinct, Open, InRange
  <1>2. CASE Accept
    <2>1. PICK s \in Queued : /\ conn' = [conn EXCEPT ![s] = "open"]
                             /\ list' = Append(list, s)
                             /\ last' = [last EXCEPT ![s] = now]
                             /\ heard' = [heard EXCEPT ![s] = now]
      BY <1>2 DEF Accept
    <2>2. size' = size + 1 /\ index' = 1
          /\ UNCHANGED <<srvLast, listening, peer, unread, now, state, overshot, fileVars>>
      BY <1>2 DEF Accept
    <2>3. s \in Sensors /\ conn[s] = "queued"
      BY <2>1 DEF Queued
    <2>4. Types' /\ size' = Len(list')
      BY <2>1, <2>2, <2>3 DEF CInv, Types
    <2>5. Flags'
      BY <2>2 DEF CInv, Flags
    <2>6. /\ Len(list') = Len(list) + 1 /\ Len(list) \in Nat
          /\ list'[Len(list) + 1] = s
          /\ \A i \in 1..Len(list) : list'[i] = list[i] /\ list[i] # s
      <3>1. list \in Seq(Elements)
        BY DEF CInv, Types
      <3>2. \A i \in 1..Len(list) : list[i] # s
        BY <2>3 DEF CInv, Open
      <3> QED BY <2>1, <2>3, <3>1, <3>2
    <2>7. Distinct'
      BY <2>6 DEF CInv, Distinct
    <2>8. Open'
      BY <2>1, <2>3, <2>6 DEF CInv, Types, Open
    <2>9. InRange'
      BY <1>2, <2>2 DEF CInv, Types, InRange, Accept, Running
    <2> QED BY <2>4, <2>5, <2>7, <2>8, <2>9 DEF CInv
  <1>3. CASE AcceptFails
    BY <1>3 DEF AcceptFails, AfterFailure, Turn, CInv, Types, Flags, Distinct, Open, InRange,
       Running
  <1>4. ASSUME list # <<>>, state = "run", RemoveSensor(Turn, Polled), Turn > 0,
               UNCHANGED <<peer, now, state, fileVars>>,
               \/ index' = AfterFailure(Turn) /\ UNCHANGED overshot
               \/ Removed(Turn),
               last' \in [Elements -> 0..MaxTime], unread' \in [Sensors -> BOOLEAN],
               heard' \in [Sensors -> 0..MaxTime]
        PROVE  CInv'
    <2>1. /\ list' \in Seq(Elements) /\ size' \in Nat
          /\ conn' \in [Sensors -> {"none", "queued", "open", "closed", "leaked"}]
          /\ size' = Len(list') /\ Distinct' /\ Open'
      BY <1>4, RemoveStep
    <2>2. Turn \in Nat /\ size \in Nat /\ size' = size - 1 /\ srvLast' = now
      BY <1>4, PolledFacts DEF CInv, Types, RemoveSensor, SizeWithout
    <2>3. index' \in Nat
      BY <1>4, <2>2 DEF Removed, AfterFailure, NextIndex
    <2>4. Types'
      BY <1>4, <2>1, <2>2, <2>3 DEF CInv, Types
    <2>5. listening' = FALSE
      BY <1>4 DEF RemoveSensor
    <2>6. overshot' \in BOOLEAN
      BY <1>4, Zenon DEF CInv, Flags, Removed
    <2>7. Flags'
      BY <1>4, <2>5, <2>6 DEF CInv, Flags
    <2>8. InRange'
      <3>1. SUFFICES ASSUME ~overshot' PROVE index' <= size' /\ 1 <= size'
        BY <1>4 DEF InRange
      <3>2. ~overshot
        BY <1>4, <3>1 DEF Removed
      <3>3. index <= size /\ Turn < size
        BY <1>4, <3>2 DEF CInv, Types, InRange, Turn
      <3>4. CASE index' = AfterFailure(Turn)
        BY <2>2, <3>3, <3>4, <1>4 DEF AfterFailure
      <3>5. CASE Removed(Turn)
        <4>1. Turn + 1 <= size - 1
          <5>1. ~(Turn + 1 > size - 1)
            BY <3>1, <3>5, Zenon DEF Removed
          <5> QED BY <2>2, <5>1
        <4> QED BY <2>2, <4>1, <3>5, <1>4 DEF Removed, NextIndex
      <3> QED BY <1>4, <3>4, <3>5
    <2> QED BY <2>1, <2>4, <2>7, <2>8 DEF CInv
  <1>5. ASSUME list # <<>>, GoOn(Turn), state = "run",
               UNCHANGED <<peer, now, listening, conn, fileVars>>,
               last' \in [Elements -> 0..MaxTime], unread' \in [Sensors -> BOOLEAN],
               heard' \in [Sensors -> 0..MaxTime]
        PROVE  CInv'
    <2>1. UNCHANGED <<list, size, srvLast, overshot>>
      BY <1>5 DEF GoOn
    <2>2. Turn \in Nat /\ (index' = index \/ index' = NextIndex(Turn))
          /\ state' \in {"run", "stopped"}
      BY <1>5, PolledFacts DEF GoOn
    <2>3. Types'
      BY <1>5, <2>1, <2>2 DEF CInv, Types, NextIndex
    <2>4. InRange'
      BY <1>5, <2>1, <2>2 DEF CInv, Types, InRange, NextIndex, Turn
    <2> QED BY <1>5, <2>1, <2>3, <2>4 DEF CInv, Flags, Distinct, Open
  <1>6. ASSUME NEW ts \in {0, now}, Receive(ts) PROVE CInv'
    <2>1. /\ list # <<>> /\ state = "run" /\ Turn > 0 /\ Polled \in Sensors
          /\ UNCHANGED <<peer, now, fileVars>>
      BY <1>6, PolledFacts DEF Receive, Running
    <2>2. /\ last' \in [Elements -> 0..MaxTime] /\ unread' \in [Sensors -> BOOLEAN]
          /\ heard' \in [Sensors -> 0..MaxTime]
      BY <1>6, <2>1 DEF Receive, CInv, Types
    <2>3. CASE Silent(Turn, Polled, ts)
      BY <1>4, <1>6, <2>1, <2>2, <2>3 DEF Receive
    <2>4. CASE ~Silent(Turn, Polled, ts)
      BY <1>5, <1>6, <2>1, <2>2, <2>4 DEF Receive
    <2> QED BY <2>3, <2>4
  <1>7. CASE ReceiveFails
    BY <1>4, <1>7 DEF ReceiveFails, Running, CInv, Types
  <1>8. CASE Quiet
    <2>1. /\ list # <<>> /\ state = "run" /\ UNCHANGED <<peer, now, fileVars>>
          /\ last' \in [Elements -> 0..MaxTime] /\ unread' \in [Sensors -> BOOLEAN]
          /\ heard' \in [Sensors -> 0..MaxTime]
      BY <1>8 DEF Quiet, Running, CInv, Types
    <2>2. CASE Silent(Turn, Polled, last[Polled])
      BY <1>4, <1>8, <2>1, <2>2 DEF Quiet, Silent
    <2>3. CASE ~Silent(Turn, Polled, last[Polled])
      BY <1>5, <1>8, <2>1, <2>3 DEF Quiet
    <2> QED BY <2>2, <2>3
  <1>9. CASE Env
    <2>1. Types'
      <3>1. ASSUME NEW s \in Sensors, Connect(s) \/ Send(s) \/ HangUp(s) PROVE Types'
        BY <3>1 DEF Connect, Send, HangUp, CInv, Types
      <3>2. CASE Tick \/ FileOpens \/ FileCloses
        BY <3>2 DEF Tick, FileOpens, FileCloses, CInv, Types
      <3> QED BY <1>9, <3>1, <3>2 DEF Env
    <2>2. UNCHANGED <<list, size, index, listening, state, overshot>>
      BY <1>9 DEF Env, Connect, Send, HangUp, Tick, FileOpens, FileCloses
    <2>3. reused' \in BOOLEAN
      BY <1>9, Zenon DEF Env, Connect, Send, HangUp, Tick, FileOpens, FileCloses, CInv, Flags
    <2>4. \A s \in Sensors : conn'[s] = "open" <=> conn[s] = "open"
      BY <1>9 DEF Env, Connect, Send, HangUp, Tick, FileOpens, FileCloses, CInv, Types
    <2>5. Flags' /\ Distinct' /\ Open' /\ InRange'
      BY <2>2, <2>3, <2>4 DEF CInv, Flags, Distinct, Open, InRange
    <2> QED BY <2>1, <2>2, <2>5 DEF CInv
  <1>10. CASE UNCHANGED cmVars
    BY <1>10 DEF cmVars, CInv, Types, Flags, Distinct, Open, InRange
  <1> QED BY <1>1, <1>2, <1>3, <1>6, <1>7, <1>8, <1>9, <1>10 DEF Next, Iterate, Over

\* So it always holds.
LEMMA CInvHolds == Spec => []CInv
  <1> QED BY InitCInv, NextCInv, PTL DEF Spec

\* list_size counts dpl_connections, no connection is in it twice, and its
\* sensors are those with an open socket, through every accept and removal.
THEOREM ListStaysMatched == Spec => []ListMatches
  <1>1. ASSUME CInv PROVE ListMatches
    <2>1. TypeOK
      <3>1. listening \in BOOLEAN /\ reused \in BOOLEAN /\ overshot \in BOOLEAN
        BY <1>1 DEF CInv, Flags
      <3> QED BY <1>1, <3>1, SizeBound DEF CInv, Types, Elements, TypeOK
    <2>2. Watched = {s \in Sensors : conn[s] = "open"}
      BY <1>1 DEF CInv, Types, Open, Watched, ToSet
    <2> QED BY <1>1, <2>1, <2>2 DEF CInv, Distinct, ListMatches
  <1> QED BY <1>1, CInvHolds, PTL

\* connmgr_listen stays within its list, and never polls an empty one, until a
\* time-out removes the last element and index++ follows.
THEOREM IndexStaysInRange == Spec => []IndexInRange
  <1>1. CInv => IndexInRange
    BY DEF CInv, InRange, IndexInRange
  <1> QED BY <1>1, CInvHolds, PTL

=============================================================================
