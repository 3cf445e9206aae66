---------------------------- MODULE DataManager ----------------------------
(***************************************************************************)
(* The data manager's own state: the list of sensors that it reads from    *)
(* the sensor map, each with a circular buffer of its last values and a    *)
(* running average.  One thread owns it; how that thread waits for records *)
(* and takes them from the shared buffer is in module Gateway.             *)
(*                                                                         *)
(* The file is seen through fgets(str, 8, ...): a line longer than seven   *)
(* characters, its end included, comes in two pieces.  A piece is the      *)
(* sequence of the numbers that sscanf finds in it.                        *)
(*                                                                         *)
(* sensor_copy leaves data_buffer, buffer_position and take_avg as malloc  *)
(* returned them: Fresh is what they may hold.  An average is kept as the  *)
(* sum it is computed from.                                                *)
(***************************************************************************)
EXTENDS Integers, FiniteSets, Sequences, SequencesExt

CONSTANTS
    Maps,               \* sensor maps: sequences of lines [room, id, end]
                        \*   (end: the line is ended by a newline)
    Ids, Values, Times, \* what a record may consist of
    RUN_AVG_LENGTH, SET_MIN_TEMP, SET_MAX_TEMP,
    Fresh               \* [data, position, full] of memory from malloc

\* What an uint16_t holds.
Number == 0..65535

ASSUME DataAssumption ==
    /\ RUN_AVG_LENGTH \in Number \ {0}   \* buffer_position counts up to it
    /\ Values \subseteq Int /\ Times \subseteq Nat \ {0}
    /\ \A m \in Maps : m \in Seq([room : Number, id : Number, end : BOOLEAN])
    /\ \A f \in Fresh :
         /\ f.data \in [0..(RUN_AVG_LENGTH - 1) -> Int]
         /\ f.position \in Number /\ f.full \in BOOLEAN

VARIABLES
    map,            \* the file
    pieces,         \* what is still to be read of it
    r_id, s_id,     \* local variables of the reading loop
    sensor_list,
    logged,         \* the warnings that the last record caused
    state           \* "map", "run", "freed", or "wild": memory was
                    \*   overwritten, and anything may happen from there

\* History (no code).
VARIABLES
    recent,         \* id -> its last values, the newest at the end
    lastTs          \* id -> the time of its last record, 0 if none

dataVars == <<map, pieces, r_id, s_id, sensor_list, logged, state, recent,
              lastTs>>

-----------------------------------------------------------------------------
(* datamgr_read_sensor_map.                                                *)

Digits(n) == 1 + Cardinality({d \in 1..4 : n >= 10^d})

\* How many digits of the id do not fit into the first piece.
Behind(line) ==
    LET over == Digits(line.room) + 1 + Digits(line.id) - 7
    IN  IF over > 0 THEN over ELSE 0

\* No room for the newline either: it is left for a second piece.
Overflows(line) == Digits(line.room) + 1 + Digits(line.id) >= 7

FirstPiece(line) == <<line.room, line.id \div 10^Behind(line)>>

SecondPiece(line) ==
    IF Behind(line) > 0 THEN << <<line.id % 10^Behind(line)>> >>
    ELSE IF Overflows(line) /\ line.end THEN << <<>> >>
    ELSE <<>>

Pieces(line) == <<FirstPiece(line)>> \o SecondPiece(line)

Init ==
    /\ map \in Maps
    /\ pieces = FlattenSeq([i \in 1..Len(map) |-> Pieces(map[i])])
    /\ r_id = 0 /\ s_id = 0
    /\ sensor_list = <<>>
    /\ logged = {}
    /\ state = "map"
    /\ recent = [i \in Ids |-> <<>>]
    /\ lastTs = [i \in Ids |-> 0]

\* sensor_copy takes last_modified from running_avg: both are zero.
CopiedTime_Mutant == -1
CopiedTime == 0

\* The element it makes from what the loop passes and what malloc returned.
Sensor(room, id, f) ==
    [room_id |-> room, sensor_id |-> id,
     sum |-> 0, last_modified |-> CopiedTime,
     data_buffer |-> f.data, buffer_position |-> f.position,
     take_avg |-> f.full,
     from |-> f]        \* history

\* dpl_insert_at_index(sensor_list, &sens, 0, true).
ListWith_Mutant(e) == Append(sensor_list, e)
ListWith(e) == <<e>> \o sensor_list

\* What sscanf does not find keeps its value: the two variables are the same
\* two stack slots in every turn of the loop.
ReadPiece ==
    /\ state = "map" /\ pieces # <<>>
    /\ pieces' = Tail(pieces)
    /\ r_id' = IF Len(Head(pieces)) > 0 THEN Head(pieces)[1] ELSE r_id
    /\ s_id' = IF Len(Head(pieces)) > 1 THEN Head(pieces)[2] ELSE s_id
    /\ \E f \in Fresh : sensor_list' = ListWith(Sensor(r_id', s_id', f))
    /\ UNCHANGED <<map, logged, state, recent, lastTs>>

MapRead ==
    /\ state = "map" /\ pieces = <<>>
    /\ state' = "run"
    /\ UNCHANGED <<map, pieces, r_id, s_id, sensor_list, logged, recent,
                   lastTs>>

-----------------------------------------------------------------------------
(* datamgr_add_sensor_data.                                                *)

Entries == 1..Len(sensor_list)
Matches(id) == {i \in Entries : sensor_list[i].sensor_id = id}

SumOf(data) == FoldFunction(LAMBDA x, y : x + y, 0, data)

AtEnd_Mutant(position) == position > RUN_AVG_LENGTH
AtEnd(position) == position = RUN_AVG_LENGTH

Full(s, p) == s.take_avg \/ AtEnd(p)

\* One element of the list after the record <<value, ts>>.
Added(s, value, ts) ==
    LET data == [s.data_buffer EXCEPT ![s.buffer_position] = value]
        p    == (s.buffer_position + 1) % 65536
    IN  [s EXCEPT !.data_buffer = data,
                  !.buffer_position = IF AtEnd(p) THEN 0 ELSE p,
                  !.take_avg = Full(s, p),
                  !.last_modified = ts,
                  !.sum = IF Full(s, p) THEN SumOf(data) ELSE s.sum]

\* The running average is sum / RUN_AVG_LENGTH.
Hot(sum) == sum > SET_MAX_TEMP * RUN_AVG_LENGTH
Cool(sum) == sum < SET_MIN_TEMP * RUN_AVG_LENGTH

Warnings_Mutant(sum) == IF Hot(sum) \/ Cool(sum) THEN {"TOO HOT"} ELSE {}
Warnings(sum) ==
    {w \in {"TOO HOT", "TOO COOL"} :
        IF w = "TOO HOT" THEN Hot(sum) ELSE Cool(sum)}

Updated_Mutant(id) == IF Matches(id) = {} THEN {} ELSE {Min(Matches(id))}
Updated(id) == Matches(id)

\* History, of the sensors in the list.
Remember(id, value, ts) ==
    IF Matches(id) = {} THEN UNCHANGED <<recent, lastTs>>
    ELSE /\ recent' = [recent EXCEPT ![id] =
              LET all == Append(@, value)
              IN  IF Len(all) > RUN_AVG_LENGTH THEN Tail(all) ELSE all]
         /\ lastTs' = [lastTs EXCEPT ![id] = ts]

AddSensorData(id, value, ts) ==
    /\ state = "run"
    /\ \A i \in Updated(id) : sensor_list[i].buffer_position < RUN_AVG_LENGTH
    /\ sensor_list' =
         [i \in Entries |->
            IF i \in Updated(id) THEN Added(sensor_list[i], value, ts)
                                 ELSE sensor_list[i]]
    /\ logged' = UNION {Warnings(sensor_list'[i].sum) :
                          i \in {j \in Updated(id) : sensor_list'[j].take_avg}}
    /\ Remember(id, value, ts)
    /\ UNCHANGED <<map, pieces, r_id, s_id, state>>

\* A position beyond the buffer: the value goes into somebody else's memory.
WriteOutside(id) ==
    /\ state = "run"
    /\ \E i \in Updated(id) : sensor_list[i].buffer_position >= RUN_AVG_LENGTH
    /\ state' = "wild"
    /\ UNCHANGED <<map, pieces, r_id, s_id, sensor_list, logged, recent,
                   lastTs>>

datamgr_free ==
    /\ state = "run"
    /\ state' = "freed"
    /\ sensor_list' = <<>>
    /\ UNCHANGED <<map, pieces, r_id, s_id, logged, recent, lastTs>>

-----------------------------------------------------------------------------
(* The getters: the first element with the id, or 0.                       *)

Get(id, field) ==
    IF Matches(id) = {} THEN 0 ELSE sensor_list[Min(Matches(id))][field]

datamgr_get_room_id(id) == Get(id, "room_id")
datamgr_get_avg(id) == Get(id, "sum")
datamgr_get_last_modified(id) == Get(id, "last_modified")
datamgr_get_total_sensors == Len(sensor_list)

-----------------------------------------------------------------------------
Over == state \in {"freed", "wild"} /\ UNCHANGED dataVars

Next ==
    \/ ReadPiece \/ MapRead \/ datamgr_free \/ Over
    \/ \E id \in Ids, value \in Values, ts \in Times :
         AddSensorData(id, value, ts)
    \/ \E id \in Ids : WriteOutside(id)

Spec == Init /\ [][Next]_dataVars

-----------------------------------------------------------------------------
(* Properties.                                                             *)

TypeOK ==
    /\ map \in Maps
    /\ r_id \in Number /\ s_id \in Number
    /\ \A i \in Entries :
         /\ DOMAIN sensor_list[i].data_buffer = 0..(RUN_AVG_LENGTH - 1)
         /\ sensor_list[i].buffer_position \in Number
         /\ sensor_list[i].take_avg \in BOOLEAN
         /\ sensor_list[i].last_modified \in Times \cup {0}
    /\ logged \subseteq {"TOO HOT", "TOO COOL"}
    /\ state \in {"map", "run", "freed", "wild"}
    /\ recent \in [Ids -> BoundedSeq(Values, RUN_AVG_LENGTH)]
    /\ lastTs \in [Ids -> Times \cup {0}]

Measured(id) == Len(recent[id]) = RUN_AVG_LENGTH

\* Malloc returned zeros, as far as the code relies on it.
Zeroed(s) == s.from.position = 0 /\ ~s.from.full

\* datamgr_get_avg: once RUN_AVG_LENGTH values of a sensor came in, its average
\* is that of the last RUN_AVG_LENGTH, in every element for it, and wherever in
\* the buffer malloc let it start.  Before that it is 0, as data_manager.h says,
\* if malloc returned zeros.
MeanOfLast ==
    state = "run" =>
    /\ \A i \in Entries : LET s == sensor_list[i] IN
         s.sensor_id \in Ids =>
         /\ Measured(s.sensor_id) => s.sum = SumOf(recent[s.sensor_id])
         /\ ~Measured(s.sensor_id) /\ Zeroed(s) => s.sum = 0
    /\ \A id \in Ids : Matches(id) # {} /\ Measured(id) =>
         datamgr_get_avg(id) = SumOf(recent[id])

\* A warning is logged for a record exactly if the average of the sensor's last
\* values is out of range, and the right one; one id in several elements, or
\* the buffer's turning, makes no difference.
WarnsRightly ==
    [][\A id \in Ids, value \in Values, ts \in Times :
         AddSensorData(id, value, ts) /\ Matches(id) # {} /\ Measured(id)' =>
           /\ "TOO HOT" \in logged' <=> Hot(SumOf(recent'[id]))
           /\ "TOO COOL" \in logged' <=> Cool(SumOf(recent'[id]))
           /\ datamgr_get_last_modified(id)' = lastTs'[id]
      ]_dataVars

SensorIds == {map[i].id : i \in 1..Len(map)}

\* Every line of the map in one piece, and no id on two lines.
EachOnce ==
    \A i, j \in 1..Len(map) :
        /\ Len(Pieces(map[i])) = 1
        /\ map[i].id = map[j].id => i = j

\* The map, as long as no line loses a digit of its id.  The sensors of the list are
\* those of the map, and the room of a sensor is the one its last line says, also if
\* newlines were left for the next piece (and a sensor was added twice).  But
\* datamgr_get_total_sensors is what data_manager.h:67 calls it, the number of unique
\* ids, exactly if each is added once: it counts the elements, and nothing looks for an
\* id before it is added again.
RoomsRight ==
    state = "run" /\ (\A i \in 1..Len(map) : Behind(map[i]) = 0) =>
    /\ {sensor_list[i].sensor_id : i \in Entries} = SensorIds
    /\ \A i \in 1..Len(map) :
         (\A j \in (i+1)..Len(map) : map[j].id # map[i].id) =>
           datamgr_get_room_id(map[i].id) = map[i].room
    /\ datamgr_get_total_sensors = Cardinality(SensorIds) <=> EachOnce

\* Memory is overwritten only by an element whose position was beyond the
\* buffer already when malloc returned it.  (With it, the types.)
StaysInside ==
    /\ TypeOK
    /\ \A i \in Entries : LET s == sensor_list[i] IN
        /\ s.from.position < RUN_AVG_LENGTH =>
             s.buffer_position < RUN_AVG_LENGTH
        /\ state = "wild" =>
             \E j \in Entries : sensor_list[j].from.position >= RUN_AVG_LENGTH
=============================================================================
