-------------------------- MODULE Dashboard_proofs --------------------------
(***************************************************************************)
(* What the dashboard displays, for any number of rooms, sensors, drawings *)
(* and updates: theorems about module Dashboard.                           *)
(*                                                                         *)
(* IInv is inductive.  What it adds to the properties: every drawing in    *)
(* progress is the last one or was in progress when that one began; every  *)
(* update in progress is of the current room or of one that had an update  *)
(* in progress then; and without a running timer, in real time and with    *)
(* the box checked, a real-time drawing is still on its way to start it.   *)
(*                                                                         *)
(* AInv is inductive beside it: any two drawings that may be in progress   *)
(* were so at the same time, and every active chart is of one of them; so  *)
(* a chart only ever gives way to one of a drawing of the same time.       *)
(***************************************************************************)
EXTENDS Dashboard, TLAPS

DrawType == [room : Rooms, mode : Modes, at : 1..PerRoom + 1,
             over : SUBSET (1..MaxDraws), from : SUBSET Rooms]

\* The last drawing is of what is selected.
Current ==
    /\ room = NoRoom <=> Last = 0
    /\ Last # 0 => draws[Last].room = room /\ draws[Last].mode = mode

OverBefore == \A d \in 1..Last : draws[d].over \subseteq 1..Last

DrawingsKnown == \A d \in Drawing : d = Last \/ d \in Stray

UpdatesKnown ==
    /\ Last = 0 => updates = {}
    /\ \A u \in updates : u.room \in {room} \cup draws[Last].from

TimerComes ==
    room # NoRoom /\ toggle /\ mode = "realtime" =>
        handle \/ \E d \in Drawing : draws[d].mode = "realtime"

TimerOfRealtime ==
    /\ intervals = (IF handle THEN 1 ELSE 0)
    /\ handle => toggle /\ mode = "realtime"

CardsKnown == \A c \in cards : c[1] \in {Last} \cup Stray

CardsThere ==
    Last # 0 /\ mode # "monthly" =>
        \A i \in Types : <<Last, i>> \in cards <=> i <= draws[Last].at

IInv ==
    /\ TypeOK /\ Last <= MaxDraws /\ OverBefore
    /\ Current /\ DrawingsKnown /\ UpdatesKnown
    /\ TimerOfRealtime /\ TimerComes
    /\ CardsKnown /\ CardsThere /\ KpiRight

-----------------------------------------------------------------------------
(* The sequence of the drawings.                                           *)

\* A drawing that begins is the last one, and the others stay as they are.
LEMMA DrawsAppended ==
    ASSUME draws \in Seq(DrawType), NEW e \in DrawType, draws' = Append(draws, e)
    PROVE  /\ draws' \in Seq(DrawType)
           /\ Len(draws') = Len(draws) + 1
           /\ \A d \in 1..Len(draws) : draws'[d] = draws[d]
           /\ draws'[Len(draws) + 1] = e
  OBVIOUS

\* What the fields of a drawing are.
LEMMA DrawFields ==
    ASSUME NEW e \in DrawType
    PROVE  /\ e.room \in Rooms /\ e.mode \in Modes /\ e.at \in 1..PerRoom + 1
           /\ e.over \subseteq 1..MaxDraws /\ e.from \subseteq Rooms
  BY DEF DrawType

\* A drawing that has moved on is otherwise the same.
LEMMA RecordMoved ==
    ASSUME NEW e \in DrawType, NEW j \in 1..PerRoom + 1
    PROVE  LET f == [e EXCEPT !.at = j]
           IN  /\ f \in DrawType /\ f.at = j
               /\ f.room = e.room /\ f.mode = e.mode
               /\ f.over = e.over /\ f.from = e.from
  BY DEF DrawType

\* An answer moves its drawing on to the next sensor, and no other.
LEMMA DrawMoved ==
    ASSUME draws \in Seq(DrawType), NEW d \in 1..Len(draws), ~Ended(d),
           draws' = [draws EXCEPT ![d].at = draws[d].at + 1]
    PROVE  /\ draws' \in Seq(DrawType)
           /\ Len(draws') = Len(draws)
           /\ \A e \in 1..Len(draws) : e # d => draws'[e] = draws[e]
           /\ \A e \in 1..Len(draws) :
                /\ draws'[e].room = draws[e].room /\ draws'[e].mode = draws[e].mode
                /\ draws'[e].over = draws[e].over /\ draws'[e].from = draws[e].from
           /\ draws[d].at \in Types /\ draws'[d].at = draws[d].at + 1
  <1> DEFINE f == [draws[d] EXCEPT !.at = draws[d].at + 1]
  <1>1. draws[d] \in DrawType
    OBVIOUS
  <1>2. draws[d].at \in 1..PerRoom
    BY <1>1, DrawFields, DashboardAssumption DEF Ended
  <1>3. draws[d].at + 1 \in 1..PerRoom + 1
    BY <1>2, DashboardAssumption
  <1>4. /\ f \in DrawType /\ f.at = draws[d].at + 1
        /\ f.room = draws[d].room /\ f.mode = draws[d].mode
        /\ f.over = draws[d].over /\ f.from = draws[d].from
    BY <1>1, <1>3, RecordMoved
  <1>5. draws' = [draws EXCEPT ![d] = f]
    BY Zenon
  <1> HIDE DEF f
  <1>6. /\ draws' \in Seq(DrawType) /\ Len(draws') = Len(draws) /\ draws'[d] = f
        /\ \A e \in 1..Len(draws) : e # d => draws'[e] = draws[e]
    BY <1>4, <1>5
  <1> QED BY <1>2, <1>4, <1>6 DEF Types

\* The types that StartDraw puts together.
LEMMA NewDrawType ==
    ASSUME TypeOK, NEW r \in Rooms, NEW m \in Modes, Len(draws) < MaxDraws
    PROVE  [room |-> r, mode |-> m, at |-> 1, over |-> Drawing,
            from |-> {u.room : u \in updates}] \in DrawType
  <1>1. Drawing \subseteq 1..MaxDraws
    BY DashboardAssumption DEF Drawing, TypeOK
  <1>2. {u.room : u \in updates} \subseteq Rooms
    BY DEF TypeOK
  <1> QED BY <1>1, <1>2, DashboardAssumption DEF DrawType

-----------------------------------------------------------------------------
\* At first no drawing has begun.
LEMMA InitIInv == Init => IInv
  <1> SUFFICES ASSUME Init PROVE IInv
    OBVIOUS
  <1> USE DashboardAssumption
  <1>1. draws = <<>> /\ Last = 0 /\ Drawing = {} /\ cards = {} /\ room = NoRoom
    BY DEF Init, Last, Drawing
  <1>2. TypeOK
    <2>1. active \in [Sensors -> 0..MaxDraws] /\ kpi \in [Types -> Rooms \cup {NoRoom}]
      BY DEF Init
    <2>2. draws \in Seq(DrawType)
      BY <1>1
    <2> QED BY <1>1, <2>1, <2>2 DEF Init, TypeOK, DrawType, Modes
  <1>3. Last <= MaxDraws /\ OverBefore /\ Current /\ DrawingsKnown /\ CardsKnown /\ CardsThere
    BY <1>1 DEF OverBefore, Current, DrawingsKnown, CardsKnown, CardsThere
  <1>4. UpdatesKnown /\ TimerOfRealtime /\ TimerComes /\ KpiRight
    BY <1>1 DEF Init, UpdatesKnown, TimerOfRealtime, TimerComes, KpiRight
  <1> QED BY <1>2, <1>3, <1>4 DEF IInv

\* A drawing that begins, whatever is done to the timer beside it.
LEMMA StartDrawStep ==
    ASSUME IInv, NEW r \in Rooms, NEW m \in Modes, StartDraw(r, m),
           handle' \in BOOLEAN, intervals' \in Nat
    PROVE  /\ TypeOK' /\ (Last <= MaxDraws)' /\ OverBefore'
           /\ Current' /\ DrawingsKnown' /\ UpdatesKnown'
           /\ CardsKnown' /\ CardsThere' /\ KpiRight'
           /\ m = "realtime" => TimerComes'
  <1> USE DashboardAssumption
  <1> DEFINE e == [room |-> r, mode |-> m, at |-> 1, over |-> Drawing,
                   from |-> {u.room : u \in updates}]
  <1>0. TypeOK /\ draws \in Seq(DrawType) /\ Len(draws) < MaxDraws /\ Len(draws) \in Nat
    BY DEF IInv, StartDraw, TypeOK, DrawType
  <1>1. e \in DrawType
    BY <1>0, NewDrawType
  <1>2. draws' = Append(draws, e)
    BY DEF StartDraw
  <1> HIDE DEF e
  <1>3. /\ draws' \in Seq(DrawType) /\ Len(draws') = Len(draws) + 1
        /\ \A d \in 1..Len(draws) : draws'[d] = draws[d]
        /\ draws'[Len(draws')] = e
    BY <1>0, <1>1, <1>2, DrawsAppended
  <1>4. /\ e.room = r /\ e.mode = m /\ e.at = 1 /\ e.over = Drawing
        /\ e.from = {u.room : u \in updates}
    BY DEF e
  <1>5. TypeOK'
    <2>1. cards' \subseteq (1..MaxDraws) \X Types
      BY <1>0, <1>3 DEF StartDraw, Kept, FirstCard, Types
    <2>2. charts' \subseteq (1..MaxDraws) \X Types
      BY <1>0 DEF StartDraw, TypeOK
    <2>3. kpi' \in [Types -> Rooms \cup {NoRoom}]
      BY <1>0 DEF StartDraw, ResetKpi, TypeOK
    <2>4. active' \in [Sensors -> 0..MaxDraws]
      BY <1>0 DEF StartDraw
    <2> QED BY <1>0, <1>3, <2>1, <2>2, <2>3, <2>4 DEF TypeOK, StartDraw, DrawType
  <1>6. (Last <= MaxDraws)' /\ Last' = Last + 1 /\ Last' # 0
    BY <1>0, <1>3 DEF Last
  <1>6a. OverBefore'
    BY <1>0, <1>3, <1>4 DEF IInv, OverBefore, Last, Drawing
  <1>7. Current'
    BY <1>3, <1>4, <1>6 DEF Current, StartDraw, Last
  <1>8. Stray' = Drawing
    BY <1>3, <1>4, <1>6 DEF Stray, Last
  <1>9. Drawing' \subseteq Drawing \cup {Last'} /\ Last' \in Drawing'
    BY <1>0, <1>3, <1>4 DEF Drawing, Ended, Last
  <1>10. DrawingsKnown'
    BY <1>8, <1>9 DEF DrawingsKnown
  <1>11. UpdatesKnown'
    BY <1>3, <1>4, <1>6 DEF UpdatesKnown, StartDraw, Last
  <1>12. CardsKnown'
    BY <1>3 DEF CardsKnown, StartDraw, Kept, FirstCard, Last
  <1>13. CardsThere'
    BY <1>3, <1>4 DEF CardsThere, StartDraw, Kept, FirstCard, Last, Types
  <1>14. KpiRight'
    BY DEF KpiRight, StartDraw, ResetKpi
  <1>15. m = "realtime" => TimerComes'
    BY <1>3, <1>4, <1>9 DEF TimerComes, Last
  <1> QED BY <1>5, <1>6, <1>6a, <1>7, <1>10, <1>11, <1>12, <1>13, <1>14, <1>15

\* setupAutoUpdate leaves a timer exactly when one is wanted.
LEMMA SetupStep ==
    ASSUME TimerOfRealtime, handle \in BOOLEAN, NEW b \in BOOLEAN, SetupAutoUpdate(b),
           toggle' = b, mode' = mode
    PROVE  /\ handle' \in BOOLEAN /\ intervals' \in Nat
           /\ TimerOfRealtime' /\ TimerComes'
  BY DEF TimerOfRealtime, TimerComes, SetupAutoUpdate, WantsTimer, Cleared

-----------------------------------------------------------------------------
\* The box.
LEMMA ToggleStep == IInv /\ ToggleAutoUpdate => IInv'
  <1> SUFFICES ASSUME IInv, ToggleAutoUpdate PROVE IInv'
    OBVIOUS
  <1>1. toggle' \in BOOLEAN /\ handle \in BOOLEAN /\ TimerOfRealtime /\ mode' = mode
        /\ SetupAutoUpdate(toggle')
    BY DEF IInv, TypeOK, ToggleAutoUpdate
  <1>2. handle' \in BOOLEAN /\ intervals' \in Nat /\ TimerOfRealtime' /\ TimerComes'
    BY <1>1, SetupStep
  <1>3. TypeOK'
    BY <1>1, <1>2 DEF IInv, TypeOK, ToggleAutoUpdate
  <1>4. /\ (Last <= MaxDraws)' /\ OverBefore' /\ Current' /\ DrawingsKnown' /\ UpdatesKnown'
        /\ CardsKnown' /\ CardsThere' /\ KpiRight'
    BY DEF IInv, ToggleAutoUpdate, OverBefore, Current, DrawingsKnown, UpdatesKnown, CardsKnown,
           CardsThere, KpiRight, Last, Stray, Drawing, Ended
  <1> QED BY <1>2, <1>3, <1>4 DEF IInv

\* A click on a room.
LEMMA SelectStep ==
    ASSUME IInv, NEW r \in Rooms, SelectRoom(r)
    PROVE  IInv'
  <1>1. mode \in Modes /\ StartDraw(r, mode) /\ handle' = handle /\ intervals' = intervals
        /\ handle' \in BOOLEAN /\ intervals' \in Nat
    BY DEF IInv, TypeOK, SelectRoom
  <1>2. TimerOfRealtime'
    BY <1>1 DEF IInv, TimerOfRealtime, StartDraw
  <1>3. mode # "realtime" => TimerComes'
    BY <1>1 DEF TimerComes, StartDraw
  <1> QED BY <1>1, <1>2, <1>3, StartDrawStep DEF IInv

\* A click on a period.
LEMMA ViewStep ==
    ASSUME IInv, NEW m \in Modes, View(m)
    PROVE  IInv'
  <1>1. /\ handle' \in BOOLEAN /\ intervals' \in Nat /\ mode' = m /\ toggle' = toggle
        /\ intervals' = (IF handle' THEN 1 ELSE 0)
        /\ handle' => handle /\ m = "realtime"
    <2>1. /\ handle \in BOOLEAN /\ intervals = (IF handle THEN 1 ELSE 0)
          /\ handle => mode = "realtime"
      BY DEF IInv, TypeOK, TimerOfRealtime
    <2>2. mode' = m /\ toggle' = toggle
      BY DEF View, StartDraw
    <2>3. CASE m = "realtime"
      <3>1. handle' = handle /\ intervals' = intervals
        BY <2>3 DEF View
      <3> QED BY <2>1, <2>2, <2>3, <3>1
    <2>4. CASE m # "realtime"
      <3>1. handle' = FALSE /\ intervals' = 0
        BY <2>1, <2>4 DEF View, Cleared
      <3> QED BY <2>2, <3>1
    <2> QED BY <2>3, <2>4
  <1>2. TimerOfRealtime'
    BY <1>1 DEF IInv, TimerOfRealtime
  <1>3. CASE room = NoRoom
    <2>1. Last = 0 /\ Last' = 0 /\ room' = NoRoom
      BY <1>3 DEF IInv, Current, View, Last
    <2>2. TypeOK'
      BY <1>1, <1>3 DEF IInv, TypeOK, View
    <2> QED
      BY <1>2, <1>3, <2>1, <2>2
         DEF IInv, View, OverBefore, Current, DrawingsKnown, UpdatesKnown, TimerComes, CardsKnown,
             CardsThere, KpiRight, Last, Stray, Drawing, Ended
  <1>4. CASE room # NoRoom
    <2>1. room \in Rooms /\ StartDraw(room, m)
      BY <1>4 DEF IInv, TypeOK, View
    <2>2. m # "realtime" => TimerComes'
      BY <1>1 DEF TimerComes
    <2> QED BY <1>1, <1>2, <2>1, <2>2, StartDrawStep DEF IInv
  <1> QED BY <1>3, <1>4

\* An answer to a drawing.
LEMMA DrawAnswerStep ==
    ASSUME IInv, NEW d \in 1..Len(draws), NEW outcome \in Outcomes,
           DrawAnswer(d, outcome)
    PROVE  IInv'
  <1> USE DashboardAssumption
  <1> DEFINE i == draws[d].at
  <1>0. /\ TypeOK /\ draws \in Seq(DrawType) /\ Len(draws) \in Nat /\ Len(draws) <= MaxDraws
        /\ ~Ended(d) /\ draws' = [draws EXCEPT ![d].at = draws[d].at + 1]
        /\ d \in 1..MaxDraws /\ draws[d] \in DrawType
    <2>1. TypeOK /\ draws \in Seq(DrawType) /\ Len(draws) \in Nat /\ Len(draws) <= MaxDraws
      BY DEF IInv, TypeOK, DrawType, Last
    <2>2. ~Ended(d) /\ draws' = [draws EXCEPT ![d].at = draws[d].at + 1]
      BY DEF DrawAnswer
    <2>3. d \in 1..MaxDraws /\ draws[d] \in DrawType
      BY <2>1
    <2> QED BY <2>1, <2>2, <2>3
  <1>1. /\ draws' \in Seq(DrawType) /\ Len(draws') = Len(draws)
        /\ \A e \in 1..Len(draws) : e # d => draws'[e] = draws[e]
        /\ \A e \in 1..Len(draws) :
             /\ draws'[e].room = draws[e].room /\ draws'[e].mode = draws[e].mode
             /\ draws'[e].over = draws[e].over /\ draws'[e].from = draws[e].from
        /\ i \in Types /\ draws'[d].at = i + 1
    BY <1>0, DrawMoved
  <1>2. draws[d].room \in Rooms
    BY <1>0 DEF DrawType
  <1>3. Last' = Last /\ Stray' = Stray /\ Last # 0 /\ d \in Drawing
    BY <1>0, <1>1 DEF Last, Stray, Drawing
  <1>4. d = Last \/ d \in Stray
    BY <1>3 DEF IInv, DrawingsKnown
  <1>5. Drawing' \subseteq Drawing /\ Drawing \ {d} \subseteq Drawing'
    <2>1. \A e \in Drawing' : e \in 1..Len(draws) /\ draws'[e].at <= PerRoom
      <3>1. \A e \in 1..Len(draws') : draws'[e].at \in 1..PerRoom + 1
        BY <1>1, DrawFields
      <3> QED BY <1>1, <3>1 DEF Drawing, Ended
    <2>2. \A e \in Drawing' : e \in Drawing
      BY <1>1, <1>3, <2>1 DEF Drawing, Ended
    <2>3. \A e \in Drawing \ {d} : e \in Drawing'
      BY <1>1 DEF Drawing, Ended
    <2> QED BY <2>2, <2>3
  <1>6. handle' \in BOOLEAN /\ intervals' \in Nat /\ TimerOfRealtime' /\ TimerComes'
    <2>0. toggle \in BOOLEAN /\ handle \in BOOLEAN /\ TimerOfRealtime /\ TimerComes
          /\ mode' = mode /\ toggle' = toggle /\ room' = room
      BY DEF IInv, TypeOK, DrawAnswer
    <2>1. CASE draws[d].mode = "realtime" /\ i = PerRoom
      BY <2>0, <2>1, SetupStep DEF DrawAnswer
    <2>2. CASE ~(draws[d].mode = "realtime" /\ i = PerRoom)
      <3>1. handle' = handle /\ intervals' = intervals
        BY <2>2 DEF DrawAnswer
      <3>2. draws[d].mode = "realtime" => d \in Drawing'
        BY <1>0, <1>1, <2>2 DEF Drawing, Ended, Types
      <3>3. TimerComes'
        BY <1>1, <1>5, <2>0, <3>1, <3>2 DEF TimerComes, Drawing
      <3> QED BY <2>0, <3>1, <3>3 DEF IInv, TypeOK, TimerOfRealtime
    <2> QED BY <2>1, <2>2
  <1>7. NewCards(d, outcome) \subseteq {d} \X Types
    BY <1>0, <1>1 DEF NewCards, Types
  <1>8. TypeOK'
    <2>1. cards' \subseteq (1..MaxDraws) \X Types
      BY <1>0, <1>7 DEF DrawAnswer, TypeOK
    <2>2. charts' \subseteq (1..MaxDraws) \X Types /\ active' \in [Sensors -> 0..MaxDraws]
      <3>1. charts \subseteq (1..MaxDraws) \X Types /\ active \in [Sensors -> 0..MaxDraws]
        BY <1>0 DEF TypeOK
      <3>2. CASE MakesChart(draws[d].mode, outcome)
        <4>1. /\ active' = [active EXCEPT ![<<draws[d].room, i>>] = d]
              /\ charts' = charts \cup {<<d, i>>}
          BY <3>2 DEF DrawAnswer
        <4>2. <<d, i>> \in (1..MaxDraws) \X Types /\ d \in 0..MaxDraws
          BY <1>0, <1>1
        <4> QED BY <3>1, <4>1, <4>2
      <3>3. CASE ~MakesChart(draws[d].mode, outcome)
        BY <3>1, <3>3 DEF DrawAnswer
      <3> QED BY <3>2, <3>3
    <2>3. kpi' \in [Types -> Rooms \cup {NoRoom}]
      BY <1>0, <1>1, <1>2 DEF DrawAnswer, TypeOK
    <2> QED BY <1>0, <1>1, <1>6, <2>1, <2>2, <2>3 DEF TypeOK, DrawAnswer, DrawType
  <1>9. (Last <= MaxDraws)' /\ OverBefore' /\ Current' /\ DrawingsKnown' /\ UpdatesKnown'
    <2>1. Current'
      BY <1>0, <1>1, <1>3 DEF IInv, Current, DrawAnswer, Last
    <2>0. OverBefore'
      BY <1>0, <1>1 DEF IInv, OverBefore, Last
    <2>2. DrawingsKnown'
      BY <1>3, <1>5 DEF IInv, DrawingsKnown
    <2>3. UpdatesKnown'
      BY <1>0, <1>1, <1>3 DEF IInv, UpdatesKnown, DrawAnswer, Last
    <2> QED BY <1>3, <2>0, <2>1, <2>2, <2>3 DEF IInv
  <1>10. CardsKnown'
    BY <1>3, <1>4, <1>7 DEF IInv, CardsKnown, DrawAnswer
  <1>11. CardsThere'
    <2> SUFFICES ASSUME mode # "monthly", NEW j \in Types
                 PROVE  <<Last, j>> \in cards' <=> j <= draws'[Last].at
      BY <1>3 DEF CardsThere, DrawAnswer
    <2>1. draws[Last].mode = mode /\ (<<Last, j>> \in cards <=> j <= draws[Last].at)
      BY <1>3 DEF IInv, Current, CardsThere
    <2>2. CASE d = Last
      <3>1. cards' = cards \cup (IF i < PerRoom THEN {<<d, i + 1>>} ELSE {})
        BY <2>1, <2>2 DEF DrawAnswer, NewCards
      <3> QED BY <1>0, <1>1, <2>1, <2>2, <3>1 DEF Types
    <2>3. CASE d # Last
      <3>1. <<Last, j>> \in cards' <=> <<Last, j>> \in cards
        BY <1>7, <2>3 DEF DrawAnswer
      <3>2. draws'[Last] = draws[Last]
        BY <1>0, <1>1, <1>3, <2>3 DEF Last
      <3> QED BY <2>1, <3>1, <3>2
    <2> QED BY <2>2, <2>3
  <1>12. KpiRight'
    <2> SUFFICES ASSUME mode = "realtime", room # NoRoom, NEW t \in Types
                 PROVE  kpi'[t] \in {room, NoRoom} \cup {draws'[e].room : e \in Stray}
                                      \cup draws'[Last].from
      BY <1>3 DEF KpiRight, DrawAnswer
    <2>1. Stray \subseteq 1..Len(draws)
      <3>1. Stray = draws[Last].over
        BY <1>3 DEF Stray
      <3>2. Last \in 1..Last /\ Last = Len(draws)
        BY <1>0, <1>3 DEF Last
      <3> QED BY <3>1, <3>2 DEF IInv, OverBefore
    <2>2. /\ {draws'[e].room : e \in Stray} = {draws[e].room : e \in Stray}
          /\ draws'[Last].from = draws[Last].from
      BY <1>0, <1>1, <1>3, <2>1 DEF Last
    <2>3. kpi[t] \in {room, NoRoom} \cup {draws[e].room : e \in Stray} \cup draws[Last].from
      BY DEF IInv, KpiRight
    <2>4. draws[d].room \in {room} \cup {draws[e].room : e \in Stray}
      BY <1>3, <1>4 DEF IInv, Current
    <2>5. kpi'[t] = kpi[t] \/ kpi'[t] = draws[d].room
      BY <1>0, <1>1 DEF DrawAnswer, TypeOK
    <2> QED BY <2>2, <2>3, <2>4, <2>5
  <1> QED BY <1>6, <1>8, <1>9, <1>10, <1>11, <1>12 DEF IInv

\* The requests of an update are about sensors of its room.
LEMMA RequestsType ==
    ASSUME NEW r \in Rooms, NEW i \in Nat \ {0}
    PROVE  \A u \in Requests(r, i) : u.room = r /\ u \in [room : Rooms, at : Types]
  <1>1. NextCharted(r, i) \subseteq Types
    BY DashboardAssumption DEF NextCharted, Types
  <1> QED BY <1>1 DEF Requests

\* The interval.
LEMMA TickStep == IInv /\ Tick => IInv'
  <1> SUFFICES ASSUME IInv, Tick PROVE IInv'
    OBVIOUS
  <1>1. room \in Rooms /\ room # NoRoom
    BY DEF IInv, TypeOK, Tick
  <1>2. \A u \in updates' : u \in updates \/ (u.room = room /\ u \in [room : Rooms, at : Types])
    BY <1>1, RequestsType DEF Tick
  <1>3. TypeOK'
    BY <1>2 DEF IInv, TypeOK, Tick
  <1>4. UpdatesKnown'
    BY <1>1, <1>2 DEF IInv, UpdatesKnown, Current, Tick, Last
  <1>5. /\ (Last <= MaxDraws)' /\ OverBefore' /\ Current' /\ DrawingsKnown'
        /\ CardsKnown' /\ CardsThere' /\ KpiRight' /\ TimerOfRealtime' /\ TimerComes'
    BY DEF IInv, Tick, OverBefore, Current, DrawingsKnown, CardsKnown, CardsThere, KpiRight,
           TimerOfRealtime, TimerComes, Last, Stray, Drawing, Ended
  <1> QED BY <1>3, <1>4, <1>5 DEF IInv

\* An answer to an update.
LEMMA UpdateAnswerStep ==
    ASSUME IInv, NEW u \in updates, NEW newer \in BOOLEAN, UpdateAnswer(u, newer)
    PROVE  IInv'
  <1>1. u.room \in Rooms /\ u.at \in Types
    BY DEF IInv, TypeOK
  <1>2. u.at + 1 \in Nat \ {0}
    BY <1>1, DashboardAssumption DEF Types
  <1>3. \A v \in updates' : v \in updates \/ (v.room = u.room /\ v \in [room : Rooms, at : Types])
    BY <1>1, <1>2, RequestsType DEF UpdateAnswer
  <1>4. u.room \in {room} \cup draws[Last].from /\ Last # 0
    BY DEF IInv, UpdatesKnown
  <1>5. TypeOK'
    <2>1. kpi' \in [Types -> Rooms \cup {NoRoom}]
      BY <1>1 DEF IInv, TypeOK, UpdateAnswer
    <2>2. updates' \subseteq [room : Rooms, at : Types]
      BY <1>3 DEF IInv, TypeOK
    <2> QED BY <2>1, <2>2 DEF IInv, TypeOK, UpdateAnswer
  <1>6. UpdatesKnown'
    BY <1>3, <1>4 DEF IInv, UpdatesKnown, UpdateAnswer, Last
  <1>7. KpiRight'
    <2> SUFFICES ASSUME mode = "realtime", room # NoRoom, NEW t \in Types
                 PROVE  kpi'[t] \in {room, NoRoom} \cup {draws[d].room : d \in Stray}
                                      \cup draws[Last].from
      BY DEF KpiRight, UpdateAnswer, Stray, Last
    <2>1. kpi[t] \in {room, NoRoom} \cup {draws[d].room : d \in Stray} \cup draws[Last].from
      BY DEF IInv, KpiRight
    <2>2. kpi'[t] = kpi[t] \/ kpi'[t] = u.room
      BY <1>1 DEF IInv, TypeOK, UpdateAnswer
    <2> QED BY <1>4, <2>1, <2>2
  <1>8. /\ (Last <= MaxDraws)' /\ OverBefore' /\ Current' /\ DrawingsKnown'
        /\ CardsKnown' /\ CardsThere' /\ TimerOfRealtime' /\ TimerComes'
    BY DEF IInv, UpdateAnswer, OverBefore, Current, DrawingsKnown, CardsKnown, CardsThere,
           TimerOfRealtime, TimerComes, Last, Stray, Drawing, Ended
  <1> QED BY <1>5, <1>6, <1>7, <1>8 DEF IInv

\* A step that changes nothing.
LEMMA StutterStep == IInv /\ UNCHANGED vars => IInv'
  BY DEF IInv, vars, TypeOK, OverBefore, Current, DrawingsKnown, UpdatesKnown, CardsKnown,
         CardsThere, KpiRight, TimerOfRealtime, TimerComes, Last, Stray, Drawing, Ended

\* IInv is inductive.
LEMMA NextIInv == IInv /\ [Next]_vars => IInv'
  BY ToggleStep, SelectStep, ViewStep, DrawAnswerStep, TickStep, UpdateAnswerStep, StutterStep
     DEF Next

-----------------------------------------------------------------------------
\* Whatever the user clicks, and in whatever order the answers come, the page
\* stays in the states that IInv describes.
THEOREM DisplayInvariant == Spec => []IInv
  BY InitIInv, NextIInv, PTL DEF Spec

\* renderContentForCurrentState cancels nothing, yet all that is ever shown
\* beside the selected room and period comes from the drawings in progress when
\* it was selected; no card of the selection is missing.
THEOREM ShownIsExplained == Spec => []ViewExplained
  <1>1. IInv => ViewExplained
    BY DEF IInv, ViewExplained, Current, CardsKnown, CardsThere
  <1> QED BY <1>1, DisplayInvariant, PTL

\* setupAutoUpdate is called by the last answer of a real-time drawing and by
\* the box, and the handle is cleared by the other views: at most one interval
\* runs, and one does run once the drawings are over, exactly when it should.
THEOREM OneTimer == Spec => []TimerRight
  <1>1. IInv => TimerRight
    BY DEF IInv, TimerRight, TimerOfRealtime, TimerComes
  <1> QED BY <1>1, DisplayInvariant, PTL

\* The numbers at the top are of the selected room, save for what was still in
\* progress when its drawing began.
THEOREM NumbersOfTheRoom == Spec => []KpiRight
  <1>1. IInv => KpiRight
    BY DEF IInv
  <1> QED BY <1>1, DisplayInvariant, PTL


-----------------------------------------------------------------------------
(* The charts.                                                             *)

\* The drawings that may be in progress.
Known == {Last} \cup Stray

\* Any two of them were in progress at the same time.
KnownTogether == \A d, e \in Known : d # e => Together(d, e)

\* An active chart is of one of them, of its room, and was not destroyed.
ActiveKnown ==
    \A s \in Sensors : active[s] # 0 =>
        /\ active[s] \in Known /\ draws[active[s]].room = s[1]
        /\ <<active[s], s[2]>> \in charts

\* One that is not active gave way to another drawing's.
ChartsKnown ==
    /\ \A c \in charts : c[1] \in 1..Last
    /\ \A c \in charts \ Reachable :
         \E e \in 1..Last :
           e # c[1] /\ draws[e].room = draws[c[1]].room /\ Together(c[1], e)

AInv == KnownTogether /\ ActiveKnown /\ ChartsKnown

\* The known drawings are among those that began.
LEMMA KnownBegan ==
    ASSUME IInv
    PROVE  /\ Last \in Nat /\ draws \in Seq(DrawType)
           /\ \A d \in Known : d # 0 => d \in 1..Last
           /\ Last = 0 => Stray = {}
           /\ Last # 0 => /\ Stray = draws[Last].over /\ Last \in 1..Last
                          /\ Known \subseteq 1..Last
  <1>1. draws \in Seq(DrawType)
    BY DEF IInv, TypeOK, DrawType
  <1>2. Last \in Nat
    BY <1>1 DEF Last
  <1>3. Last # 0 => Last \in 1..Last
    BY <1>2
  <1>4. (Last = 0 => Stray = {}) /\ (Last # 0 => Stray = draws[Last].over)
    BY DEF Stray
  <1>5. Last # 0 => draws[Last].over \subseteq 1..Last
    BY <1>3 DEF IInv, OverBefore
  <1> QED BY <1>1, <1>2, <1>3, <1>4, <1>5 DEF Known

\* At first there are none.
LEMMA InitAInv == Init => AInv
  <1> SUFFICES ASSUME Init PROVE AInv
    OBVIOUS
  <1>1. Last = 0 /\ Stray = {} /\ charts = {} /\ \A s \in Sensors : active[s] = 0
    BY DEF Init, Last, Stray
  <1> QED BY <1>1 DEF AInv, KnownTogether, ActiveKnown, ChartsKnown, Known

\* A drawing that begins destroys what is active, and only that.
LEMMA StartDrawCharts ==
    ASSUME IInv, AInv, NEW r \in Rooms, NEW m \in Modes, StartDraw(r, m)
    PROVE  AInv'
  <1> DEFINE e == [room |-> r, mode |-> m, at |-> 1, over |-> Drawing,
                   from |-> {u.room : u \in updates}]
  <1>1. /\ draws \in Seq(DrawType) /\ Last \in Nat /\ Len(draws) < MaxDraws
        /\ \A d \in Known : d # 0 => d \in 1..Last
    BY KnownBegan DEF StartDraw
  <1>2. e \in DrawType
    BY <1>1, NewDrawType DEF IInv
  <1>3. draws' = Append(draws, e)
    BY DEF StartDraw
  <1>4. e.over = Drawing
    OBVIOUS
  <1> HIDE DEF e
  <1>5. /\ Last' = Last + 1 /\ draws'[Last'] = e
        /\ \A d \in 1..Last : draws'[d] = draws[d]
    BY <1>1, <1>2, <1>3, DrawsAppended DEF Last
  <1>6. Stray' = Drawing /\ Known' = {Last'} \cup Drawing /\ Last' \notin 1..Last
    BY <1>1, <1>4, <1>5 DEF Stray, Known
  <1>7. Drawing \subseteq Known /\ Drawing \subseteq 1..Last
    BY DEF IInv, DrawingsKnown, Known, Drawing, Last
  <1>8. \A d, f \in 1..Last : Together(d, f)' <=> Together(d, f)
    BY <1>5 DEF Together
  <1>9. KnownTogether'
    <2> SUFFICES ASSUME NEW d \in Known', NEW f \in Known', d # f
                 PROVE  Together(d, f)'
      BY Zenon DEF KnownTogether
    <2>1. CASE d = Last'
      <3>1. f \in draws'[d].over
        BY <1>4, <1>5, <1>6, <2>1
      <3> QED BY <3>1 DEF Together
    <2>2. CASE f = Last'
      <3>1. d \in draws'[f].over
        BY <1>4, <1>5, <1>6, <2>2
      <3> QED BY <3>1 DEF Together
    <2>3. CASE d # Last' /\ f # Last'
      <3>1. d \in Drawing /\ f \in Drawing
        BY <1>6, <2>3
      <3>2. Together(d, f)
        BY <1>7, <3>1 DEF AInv, KnownTogether
      <3> QED BY <1>7, <1>8, <3>1, <3>2
    <2> QED BY <2>1, <2>2, <2>3
  <1>10. ActiveKnown'
    BY DEF ActiveKnown, StartDraw
  <1>11. ChartsKnown'
    <2>1. charts' = charts \ Reachable
      BY DEF StartDraw, Destroyed
    <2>2. \A c \in charts' : c[1] \in 1..Last
      BY <2>1 DEF AInv, ChartsKnown
    <2>3. ASSUME NEW c \in charts'
          PROVE  \E f \in 1..Last' : /\ f # c[1] /\ draws'[f].room = draws'[c[1]].room
                                     /\ Together(c[1], f)'
      <3>1. PICK f \in 1..Last : /\ f # c[1] /\ draws[f].room = draws[c[1]].room
                                 /\ Together(c[1], f)
        BY <2>1 DEF AInv, ChartsKnown
      <3>2. c[1] \in 1..Last /\ f \in 1..Last'
        BY <1>1, <1>5, <2>2
      <3>3. Together(c[1], f)'
        BY <1>8, <3>1, <3>2
      <3> QED BY <1>5, <3>1, <3>2, <3>3
    <2>4. \A c \in charts' : c[1] \in 1..Last'
      BY <1>1, <1>5, <2>2
    <2> QED BY <2>3, <2>4, Zenon DEF ChartsKnown
  <1> QED BY <1>9, <1>10, <1>11 DEF AInv

\* An answer puts its chart where another drawing's may have been.
LEMMA DrawAnswerCharts ==
    ASSUME IInv, AInv, NEW d \in 1..Len(draws), NEW outcome \in Outcomes,
           DrawAnswer(d, outcome)
    PROVE  AInv'
  <1> DEFINE i == draws[d].at
             s == <<draws[d].room, i>>
  <1>1. /\ draws \in Seq(DrawType) /\ Last \in Nat
        /\ \A e \in Known : e # 0 => e \in 1..Last
        /\ Last = 0 => Stray = {}
        /\ Last # 0 => /\ Stray = draws[Last].over /\ Last \in 1..Last
                       /\ Known \subseteq 1..Last
    BY KnownBegan
  <1>2. d \in 1..Last /\ d # 0 /\ Last # 0 /\ ~Ended(d)
    BY <1>1 DEF DrawAnswer, Last
  <1>3. /\ Len(draws') = Len(draws) /\ i \in Types
        /\ \A e \in 1..Len(draws) :
             draws'[e].room = draws[e].room /\ draws'[e].over = draws[e].over
    <2>1. draws' = [draws EXCEPT ![d].at = draws[d].at + 1]
      BY DEF DrawAnswer
    <2> QED BY <1>1, <1>2, <2>1, DrawMoved
  <1>4. /\ Last' = Last
        /\ \A e \in 1..Last : draws'[e].room = draws[e].room /\ draws'[e].over = draws[e].over
    BY <1>3 DEF Last
  <1>5. Known' = Known
    BY <1>1, <1>2, <1>4 DEF Known, Stray
  <1>6. \A e, f \in 1..Last : Together(e, f)' <=> Together(e, f)
    BY <1>4 DEF Together
  <1>7. KnownTogether'
    <2> SUFFICES ASSUME NEW e \in Known, NEW f \in Known, e # f
                 PROVE  Together(e, f)'
      BY <1>5, Zenon DEF KnownTogether
    <2>1. e \in 1..Last /\ f \in 1..Last
      BY <1>1, <1>2
    <2>2. Together(e, f)
      BY DEF AInv, KnownTogether
    <2> QED BY <1>6, <2>1, <2>2
  <1>8. d \in Known
    BY <1>2 DEF IInv, DrawingsKnown, Drawing, Known, Last
  <1>9. active \in [Sensors -> 0..MaxDraws] /\ s \in Sensors
    <2>1. draws[d] \in DrawType
      BY <1>1
    <2>2. draws[d].room \in Rooms
      BY <2>1, DrawFields
    <2> QED BY <1>3, <2>2 DEF IInv, TypeOK, Sensors
  <1> HIDE DEF i, s
  <1>10. \/ UNCHANGED <<active, charts>>
         \/ active' = [active EXCEPT ![s] = d] /\ charts' = charts \cup {<<d, i>>}
    BY DEF DrawAnswer, i, s
  <1>11. s[1] = draws[d].room /\ s[2] = i
    BY DEF s
  <1>12. ActiveKnown'
    <2> SUFFICES ASSUME NEW t \in Sensors, active'[t] # 0
                 PROVE  /\ active'[t] \in Known /\ draws'[active'[t]].room = t[1]
                        /\ <<active'[t], t[2]>> \in charts'
      BY <1>5, Zenon DEF ActiveKnown
    <2>1. CASE active'[t] = active[t]
      <3>1. /\ active[t] \in Known /\ draws[active[t]].room = t[1]
            /\ <<active[t], t[2]>> \in charts
        BY <2>1 DEF AInv, ActiveKnown
      <3>2. active[t] \in 1..Last
        BY <1>1, <2>1, <3>1
      <3> QED BY <1>4, <1>10, <2>1, <3>1, <3>2
    <2>2. CASE active'[t] # active[t]
      <3>1. t = s /\ active'[t] = d /\ <<d, i>> \in charts'
        BY <1>9, <1>10, <2>2
      <3> QED BY <1>2, <1>4, <1>8, <1>11, <3>1
    <2> QED BY <2>1, <2>2
  <1>13. ChartsKnown'
    <2>1. \A c \in charts' : c[1] \in 1..Last
      BY <1>2, <1>10 DEF AInv, ChartsKnown
    <2>2. ASSUME NEW c \in charts', c \notin Reachable'
          PROVE  \E e \in 1..Last : /\ e # c[1] /\ draws[e].room = draws[c[1]].room
                                    /\ Together(c[1], e)
      <3>1. \A t \in Sensors : active'[t] # 0 => c # <<active'[t], t[2]>>
        BY <2>2 DEF Reachable
      <3>2. c \in charts
        <4>1. active' = [active EXCEPT ![s] = d] => active'[s] = d
          BY <1>9
        <4> QED BY <1>2, <1>9, <1>10, <1>11, <3>1, <4>1
      <3>3. CASE c \notin Reachable
        BY <3>2, <3>3 DEF AInv, ChartsKnown
      <3>4. CASE c \in Reachable
        <4>1. PICK t \in Sensors : active[t] # 0 /\ c = <<active[t], t[2]>>
          BY <3>4 DEF Reachable
        <4>2. t = s /\ active'[s] = d /\ active[s] # d
          BY <1>2, <1>9, <1>10, <3>1, <4>1
        <4>3. active[s] \in Known /\ draws[active[s]].room = draws[d].room
          BY <1>9, <1>11, <4>1, <4>2 DEF AInv, ActiveKnown
        <4>4. Together(active[s], d)
          BY <1>8, <4>2, <4>3 DEF AInv, KnownTogether
        <4>5. c[1] = active[s]
          BY <4>1, <4>2
        <4> QED BY <1>2, <4>2, <4>3, <4>4, <4>5
      <3> QED BY <3>3, <3>4
    <2>3. ASSUME NEW c \in charts', c \notin Reachable'
          PROVE  \E e \in 1..Last : /\ e # c[1] /\ draws'[e].room = draws'[c[1]].room
                                    /\ Together(c[1], e)'
      <3>1. PICK e \in 1..Last : /\ e # c[1] /\ draws[e].room = draws[c[1]].room
                                 /\ Together(c[1], e)
        BY <2>2, <2>3
      <3> QED BY <1>4, <1>6, <2>1, <3>1
    <2> QED BY <1>4, <2>1, <2>3, Zenon DEF ChartsKnown
  <1> QED BY <1>7, <1>12, <1>13 DEF AInv

\* The charts are touched by nothing else.
LEMMA SameCharts ==
    ASSUME AInv, UNCHANGED <<draws, active, charts>>
    PROVE  AInv'
  BY DEF AInv, KnownTogether, ActiveKnown, ChartsKnown, Known, Stray, Last, Reachable, Together

\* AInv is inductive, given IInv.
LEMMA NextAInv == IInv /\ AInv /\ [Next]_vars => AInv'
  <1> SUFFICES ASSUME IInv, AInv, [Next]_vars PROVE AInv'
    OBVIOUS
  <1>1. CASE ToggleAutoUpdate \/ Tick \/ UNCHANGED vars
    <2>1. UNCHANGED <<draws, active, charts>>
      BY <1>1 DEF ToggleAutoUpdate, Tick, vars
    <2> QED BY <2>1, SameCharts
  <1>2. ASSUME NEW r \in Rooms, SelectRoom(r) PROVE AInv'
    <2>1. mode \in Modes /\ StartDraw(r, mode)
      BY <1>2 DEF IInv, TypeOK, SelectRoom
    <2> QED BY <2>1, StartDrawCharts
  <1>3. ASSUME NEW m \in Modes, View(m) PROVE AInv'
    <2>1. CASE room = NoRoom
      <3>1. UNCHANGED <<draws, active, charts>>
        BY <1>3, <2>1 DEF View
      <3> QED BY <3>1, SameCharts
    <2>2. CASE room # NoRoom
      <3>1. room \in Rooms /\ StartDraw(room, m)
        BY <1>3, <2>2 DEF IInv, TypeOK, View
      <3> QED BY <3>1, StartDrawCharts
    <2> QED BY <2>1, <2>2
  <1>4. ASSUME NEW d \in 1..Len(draws), NEW outcome \in Outcomes, DrawAnswer(d, outcome)
        PROVE  AInv'
    BY <1>4, DrawAnswerCharts
  <1>5. ASSUME NEW u \in updates, NEW newer \in BOOLEAN, UpdateAnswer(u, newer)
        PROVE  AInv'
    <2>1. UNCHANGED <<draws, active, charts>>
      BY <1>5 DEF UpdateAnswer
    <2> QED BY <2>1, SameCharts
  <1> QED BY <1>1, <1>2, <1>3, <1>4, <1>5 DEF Next

\* Whatever drawings overlap: an active chart exists, and one that exists without
\* being active gave way to one of another drawing of its room, of the same time.
THEOREM ChartsStayAccounted == Spec => []ChartsAccounted
  <1>1. AInv => ChartsAccounted
    <2> SUFFICES ASSUME AInv PROVE ChartsAccounted
      OBVIOUS
    <2>1. Reachable \subseteq charts
      BY DEF AInv, ActiveKnown, Reachable
    <2> QED BY <2>1 DEF AInv, ChartsKnown, ChartsAccounted
  <1>2. Spec => [](IInv /\ AInv)
    BY InitIInv, NextIInv, InitAInv, NextAInv, PTL DEF Spec
  <1> QED BY <1>1, <1>2, PTL
=============================================================================
