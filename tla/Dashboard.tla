----------------------------- MODULE Dashboard -----------------------------
(***************************************************************************)
(* The dashboard page (web/js/dashboard.js): what the user clicks, the     *)
(* drawings and updates in progress, and the answers of the REST service.  *)
(*                                                                         *)
(* JavaScript runs one piece at a time, but every await lets other pieces  *)
(* in: a drawing goes through the sensors of its room with one request     *)
(* each, nothing cancels it when the user selects another room or period,  *)
(* and answers to different requests come in any order.                    *)
(*                                                                         *)
(* The PerRoom sensors of a room have one type each; the number of a       *)
(* sensor in its room stands for its type.                                 *)
(***************************************************************************)
EXTENDS Integers, Sequences, FiniteSets

CONSTANTS
    Rooms,
    NoRoom,         \* currentRoomId before the rooms are loaded
    PerRoom,        \* sensors of a room
    MaxDraws,       \* drawings started (bound)
    MaxUpdates      \* updates in progress at a time (bound)

ASSUME DashboardAssumption ==
    /\ NoRoom \notin Rooms
    /\ PerRoom \in Nat \ {0} /\ MaxDraws \in Nat /\ MaxUpdates \in Nat

VARIABLES
    room,           \* currentRoomId
    mode,           \* currentViewMode
    toggle,         \* autoUpdateToggle.checked
    handle,         \* autoUpdateInterval names a running interval
    intervals,      \* how many intervals are running
    draws,          \* the drawings, in the order they began
    cards,          \* <<drawing, number of the sensor>>: in the container
    active,         \* activeCharts: sensor -> the drawing of its chart, or 0
    charts,         \* <<drawing, number of the sensor>>: created, not destroyed
    updates,        \* the updates that wait for an answer
    kpi             \* type -> the room whose value is displayed, or NoRoom

vars == <<room, mode, toggle, handle, intervals, draws, cards, active, charts,
          updates, kpi>>

Modes == {"realtime", "daily", "monthly"}
Types == 1..PerRoom
Sensors == Rooms \X Types

\* A drawing waits for the answer about sensor "at"; it has ended with the last.
Ended(d) == draws[d].at > PerRoom
Drawing == {d \in 1..Len(draws) : ~Ended(d)}

Init ==
    /\ room = NoRoom /\ mode = "realtime"
    /\ toggle = TRUE /\ handle = FALSE /\ intervals = 0
    /\ draws = <<>>
    /\ cards = {} /\ charts = {}
    /\ active = [s \in Sensors |-> 0]
    /\ updates = {}
    /\ kpi = [t \in Types |-> NoRoom]

-----------------------------------------------------------------------------
(* The timer.                                                              *)

\* clearInterval(autoUpdateInterval)
Cleared == IF handle THEN intervals - 1 ELSE intervals

\* setupAutoUpdate
WantsTimer_Mutant(checked) == checked
WantsTimer(checked) == checked /\ mode = "realtime"
SetupAutoUpdate(checked) ==
    /\ handle' = WantsTimer(checked)
    /\ intervals' = Cleared + (IF WantsTimer(checked) THEN 1 ELSE 0)

\* toggleAutoUpdate
ToggleAutoUpdate ==
    /\ toggle' = ~toggle
    /\ SetupAutoUpdate(toggle')
    /\ UNCHANGED <<room, mode, draws, cards, active, charts, updates, kpi>>

-----------------------------------------------------------------------------
(* A drawing begins: renderContentForCurrentState, and the first piece of  *)
(* drawRealtimeCharts, drawDailyChart or drawMonthlyChart.                 *)

\* The monthly drawing makes a card only from an answer.
FirstCard(m, d) == IF m = "monthly" THEN {} ELSE {<<d, 1>>}

\* The container is emptied, the active charts are destroyed, and in real time
\* the numbers at the top are reset.
Kept_Mutant == cards
Kept == {}
Reachable == {<<active[s], s[2]>> : s \in {s \in Sensors : active[s] # 0}}
Destroyed_Mutant == {}
Destroyed == Reachable
ResetKpi_Mutant(m) == kpi
ResetKpi(m) == IF m = "realtime" THEN [t \in Types |-> NoRoom] ELSE kpi

StartDraw(r, m) ==
    /\ Len(draws) < MaxDraws
    /\ room' = r /\ mode' = m
    /\ draws' = Append(draws, [room |-> r, mode |-> m, at |-> 1,
                               over |-> Drawing, from |-> {u.room : u \in updates}])
    /\ cards' = Kept \cup FirstCard(m, Len(draws'))
    /\ charts' = charts \ Destroyed
    /\ active' = [s \in Sensors |-> 0]
    /\ kpi' = ResetKpi(m)
    /\ UNCHANGED <<toggle, updates>>

\* A click on a room, and the one the page makes itself once the rooms are
\* loaded.  A change of the theme is a click on the current room.
SelectRoom(r) ==
    /\ StartDraw(r, mode)
    /\ UNCHANGED <<handle, intervals>>

\* loadCurrent, viewDailyChart and viewMonthlyChart; the last two stop the timer.
View(m) ==
    /\ IF room = NoRoom
         THEN mode' = m /\ UNCHANGED <<room, toggle, draws, cards, active, charts,
                                       updates, kpi>>
         ELSE StartDraw(room, m)
    /\ IF m = "realtime"
         THEN UNCHANGED <<handle, intervals>>
         ELSE handle' = FALSE /\ intervals' = Cleared

-----------------------------------------------------------------------------
(* A drawing goes on with an answer.                                       *)

\* Whether a chart is made.  A failed request makes none; an empty answer makes
\* one in real time only; the type's number is displayed with the real time.
Outcomes == {"values", "empty", "error"}
MakesChart(m, outcome) == outcome = "values" \/ (m = "realtime" /\ outcome = "empty")

\* The card of this answer (monthly), or of the next request.
NewCards(d, outcome) ==
    LET i == draws[d].at
    IN  IF draws[d].mode = "monthly"
          THEN IF outcome = "error" THEN {} ELSE {<<d, i>>}
          ELSE IF i < PerRoom THEN {<<d, i + 1>>} ELSE {}

DrawAnswer(d, outcome) ==
    LET dr == draws[d]
        i == dr.at
    IN  /\ ~Ended(d)
        /\ draws' = [draws EXCEPT ![d].at = i + 1]
        /\ cards' = cards \cup NewCards(d, outcome)
        /\ IF MakesChart(dr.mode, outcome)
             THEN /\ active' = [active EXCEPT ![<<dr.room, i>>] = d]
                  /\ charts' = charts \cup {<<d, i>>}
             ELSE UNCHANGED <<active, charts>>
        /\ kpi' = IF dr.mode = "realtime" /\ outcome = "values"
                    THEN [kpi EXCEPT ![i] = dr.room] ELSE kpi
        /\ IF dr.mode = "realtime" /\ i = PerRoom
             THEN SetupAutoUpdate(toggle)
             ELSE UNCHANGED <<handle, intervals>>
        /\ UNCHANGED <<room, mode, toggle, updates>>

-----------------------------------------------------------------------------
(* updateAllCharts.                                                        *)

\* The first sensor of room r, from number i on, that has an active chart.
NextCharted(r, i) == {j \in i..PerRoom : active[<<r, j>>] # 0 /\
                                         \A k \in i..j - 1 : active[<<r, k>>] = 0}
Requests(r, i) == {[room |-> r, at |-> j] : j \in NextCharted(r, i)}

\* The interval fires.  No two updates of a room wait for the same sensor: they
\* would do the same.
Tick ==
    /\ intervals > 0
    /\ mode = "realtime" /\ room # NoRoom
    /\ Cardinality(updates) < MaxUpdates
    /\ updates' = updates \cup Requests(room, 1)
    /\ updates' # updates
    /\ UNCHANGED <<room, mode, toggle, handle, intervals, draws, cards, active, charts,
                   kpi>>

\* The answer; only a newer value changes the display.
UpdateAnswer(u, newer) ==
    /\ u \in updates
    /\ updates' = (updates \ {u}) \cup Requests(u.room, u.at + 1)
    /\ kpi' = IF newer THEN [kpi EXCEPT ![u.at] = u.room] ELSE kpi
    /\ UNCHANGED <<room, mode, toggle, handle, intervals, draws, cards, active, charts>>

-----------------------------------------------------------------------------
Next ==
    \/ ToggleAutoUpdate
    \/ \E r \in Rooms : SelectRoom(r)
    \/ \E m \in Modes : View(m)
    \/ \E d \in 1..Len(draws), outcome \in Outcomes : DrawAnswer(d, outcome)
    \/ Tick
    \/ \E u \in updates, newer \in BOOLEAN : UpdateAnswer(u, newer)

Spec == Init /\ [][Next]_vars

-----------------------------------------------------------------------------
(* Properties.                                                             *)

TypeOK ==
    /\ room \in Rooms \cup {NoRoom} /\ mode \in Modes
    /\ toggle \in BOOLEAN /\ handle \in BOOLEAN /\ intervals \in Nat
    /\ draws \in Seq([room : Rooms, mode : Modes, at : 1..PerRoom + 1,
                      over : SUBSET (1..MaxDraws), from : SUBSET Rooms])
    /\ cards \subseteq (1..MaxDraws) \X Types
    /\ charts \subseteq (1..MaxDraws) \X Types
    /\ active \in [Sensors -> 0..MaxDraws]
    /\ updates \subseteq [room : Rooms, at : Types]
    /\ kpi \in [Types -> Rooms \cup {NoRoom}]

Last == Len(draws)
Stray == IF Last = 0 THEN {} ELSE draws[Last].over

\* What the page shows is of the room and period selected last, except for what
\* drawings still in progress at that moment append afterwards: every card is
\* of the last drawing or of one of these.  And of the last drawing, if it makes
\* its cards before the request (real time, daily), no card is missing.
ViewExplained ==
    /\ TypeOK
    /\ \A c \in cards : c[1] \in {Last} \cup Stray
    /\ Last # 0 =>
         /\ draws[Last].room = room /\ draws[Last].mode = mode
         /\ mode # "monthly" =>
              \A i \in Types : <<Last, i>> \in cards <=> i <= draws[Last].at

\* A chart that was not destroyed can be reached through activeCharts, unless
\* another drawing of the same room, in progress at the same time, put its own
\* chart there; and none that can be reached was destroyed.
Together(d, e) == d \in draws[e].over \/ e \in draws[d].over
ChartsAccounted ==
    /\ Reachable \subseteq charts
    /\ \A c \in charts \ Reachable :
         \E e \in 1..Last : e # c[1] /\ draws[e].room = draws[c[1]].room /\ Together(c[1], e)

\* At most one interval runs, only for the real time with the box checked; and
\* when no drawing is in progress it does run then, whatever was clicked before.
TimerRight ==
    /\ intervals = (IF handle THEN 1 ELSE 0)
    /\ handle => toggle /\ mode = "realtime"
    /\ room # NoRoom /\ Drawing = {} => (handle <=> toggle /\ mode = "realtime")

\* In real time the numbers at the top are of the room displayed, unless a
\* drawing or an update of another room was in progress when that room's
\* drawing began.
KpiRight ==
    mode = "realtime" /\ room # NoRoom =>
        \A t \in Types :
            kpi[t] \in {room, NoRoom} \cup {draws[d].room : d \in Stray}
                         \cup draws[Last].from
=============================================================================
