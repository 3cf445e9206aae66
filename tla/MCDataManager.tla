--------------------------- MODULE MCDataManager ---------------------------
(***************************************************************************)
(* DataManager for TLC: four sensor maps and three kinds of memory.        *)
(***************************************************************************)
EXTENDS DataManager

Line(room, id) == [room |-> room, id |-> id, end |-> TRUE]
LastLine(room, id) == [room |-> room, id |-> id, end |-> FALSE]

MCMaps == {
    \* two sensors, one line and one piece for each
    <<Line(1, 15), Line(3, 211)>>,
    \* a sensor that moved to another room, no newline at the end
    <<Line(1, 15), Line(1, 16), LastLine(2, 15)>>,
    \* "11 112" fills the buffer, "12 1290" leaves its newline behind
    <<Line(11, 112), Line(12, 1290)>>,
    \* "100 2112" loses its last digit, which then is a room of sensor 211
    <<Line(3, 211), Line(100, 2112)>> }

MCIds == {15, 112, 1290, 211}

Memory(value, position, full) ==
    [data |-> [i \in 0..(RUN_AVG_LENGTH - 1) |-> value],
     position |-> position, full |-> full]

MCFresh == {Memory(0, 0, FALSE), Memory(900, 1, TRUE), Memory(0, 65535, FALSE)}
=============================================================================
