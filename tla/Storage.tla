------------------------------ MODULE Storage ------------------------------
(***************************************************************************)
(* The storage thread (sensor_db_th, database_manager.c), the database     *)
(* file, and the queries of the REST service (app.py) on that file.        *)
(*                                                                         *)
(* SQLite is external: an INSERT is atomic, also across a crash; it writes *)
(* while others read, but its commit needs the file for itself.  A query   *)
(* of app.py reads from execute to close, and the C code sets no busy      *)
(* time-out: a commit that meets a reader fails at once, and sql_query     *)
(* then closes the connection, whose pointer the thread goes on using.     *)
(*                                                                         *)
(* The buffer hands over its items in order and the counter is raised with *)
(* each (modules SensorBuffer and Gateway); items are numbered through all *)
(* starts of the gateway, and those not read when it ends are gone.  An    *)
(* item stays in the list until the data manager has read it too, at its   *)
(* own pace, and until then sbuffer_remove finds the buffer not empty.     *)
(***************************************************************************)
EXTENDS Integers, Sequences, FiniteSets

CONSTANTS
    Clients,        \* of the REST service, one request each at a time
    MaxItems,       \* items put in the buffer, over all starts (bound)
    MaxStarts       \* how often the gateway is started (bound)

ASSUME StorageAssumption == MaxItems \in Nat /\ MaxStarts \in Nat

VARIABLES
    pc,             \* the storage thread; "off": the gateway is not running
    conn,           \* its DBCONN*: "null", "open" or "freed" (already closed)
    closes,         \* calls of sqlite3_close on that connection, up to CloseCap
    table,          \* SensorData exists
    rows,           \* its rows, the items stored
    put,            \* items put in the buffer
    next,           \* the item the thread reads next
    dmNext,         \* the first item the data manager leaves in the list
    cnt,            \* *data_sensor_db
    working,        \* *connmgr_working
    reading,        \* the clients between their execute and their close
    shown,          \* client -> how many rows its query found
    answer          \* client -> rows in the last answer, -1 if none or an error

\* History (no code).
VARIABLES
    starts,
    first           \* the first item of this start

gatewayVars == <<put, cnt, working, starts, first>>
clientVars == <<reading, shown, answer>>
vars == <<pc, conn, closes, table, rows, next, dmNext, gatewayVars, clientVars>>

\* What matters is whether the connection was closed never, once, or again.
CloseCap == 2
Closed(n) == closes' = IF closes + n < CloseCap THEN closes + n ELSE CloseCap

Init ==
    /\ pc = "off" /\ conn = "null" /\ closes = 0
    /\ table = FALSE /\ rows = <<>>
    /\ put = 0 /\ next = 1 /\ dmNext = 1 /\ cnt = 0 /\ working = FALSE
    /\ reading = {}
    /\ shown = [c \in Clients |-> 0]
    /\ answer = [c \in Clients |-> -1]
    /\ starts = 0 /\ first = 1

-----------------------------------------------------------------------------
(* The rest of the gateway.                                                *)

\* main: an empty buffer and new counters; the file stays as it was.
Start ==
    /\ pc = "off" /\ starts < MaxStarts
    /\ pc' = "open" /\ conn' = "null" /\ closes' = 0
    /\ cnt' = 0 /\ working' = TRUE
    /\ starts' = starts + 1
    /\ next' = put + 1 /\ dmNext' = put + 1 /\ first' = put + 1
    /\ UNCHANGED <<table, rows, put, clientVars>>

\* A record comes in: sbuffer_insert and connmgr_update_threads.
Put ==
    /\ pc # "off" /\ working /\ put < MaxItems
    /\ put' = put + 1
    /\ cnt' = cnt + 1
    /\ UNCHANGED <<pc, conn, closes, table, rows, next, dmNext, working, starts, first,
                   clientVars>>

\* The data manager's sbuffer_remove: one item less holds the list.
DataMgrReads ==
    /\ pc # "off" /\ dmNext <= put
    /\ dmNext' = dmNext + 1
    /\ UNCHANGED <<pc, conn, closes, table, rows, next, gatewayVars, clientVars>>

\* connmgr_close_threads.
CloseThreads ==
    /\ pc # "off" /\ working
    /\ working' = FALSE
    /\ cnt' = -1
    /\ UNCHANGED <<pc, conn, closes, table, rows, put, next, dmNext, starts, first,
                   clientVars>>

\* The process ends, wherever the thread is.
Ends ==
    /\ pc # "off"
    /\ pc' = "off" /\ working' = FALSE
    /\ UNCHANGED <<conn, closes, table, rows, put, next, dmNext, cnt, starts, first,
                   clientVars>>

-----------------------------------------------------------------------------
(* init_connection with clear_up_flag 0 (DB_FLAG).                         *)

\* sqlite3_open; when it fails, sensor_close_threads stops the others.
Open ==
    /\ pc = "open"
    /\ \/ pc' = "create" /\ conn' = "open" /\ UNCHANGED <<cnt, working>>
       \/ pc' = "top" /\ cnt' = -1 /\ working' = FALSE /\ UNCHANGED conn
    /\ UNCHANGED <<closes, table, rows, put, next, dmNext, starts, first, clientVars>>

Create_Mutant == rows' = <<>>
Create == UNCHANGED rows

\* CREATE TABLE IF NOT EXISTS.  When it fails, sql_query closes the connection,
\* init_connection closes it again and returns NULL.
CreateTable ==
    /\ pc = "create"
    /\ \/ table' = TRUE /\ Create /\ UNCHANGED <<conn, closes>>
       \/ conn' = "null" /\ Closed(2) /\ UNCHANGED <<table, rows>>
    /\ pc' = "top"
    /\ UNCHANGED <<next, dmNext, gatewayVars, clientVars>>

-----------------------------------------------------------------------------
(* sensor_db_listen.                                                       *)

threadUnchanged == <<table, dmNext, gatewayVars, clientVars>>

\* The outer loop and the wait: nothing happens while the counter is 0.
Top ==
    /\ pc = "top" /\ (~working \/ cnt # 0)
    /\ pc' = IF working THEN "remove" ELSE "done"
    /\ UNCHANGED <<conn, closes, rows, next, threadUnchanged>>

\* sbuffer_remove.  With no item left for this thread it succeeds all the same as
\* long as the list is not empty: new_data is then what the last call left in it.
\* An empty list ends the loop.
Remove ==
    /\ pc = "remove"
    /\ \/ next <= put /\ pc' = "insert" /\ next' = next + 1
       \/ next > put /\ dmNext <= put /\ pc' = "stale" /\ UNCHANGED next
       \/ next > put /\ dmNext > put /\ pc' = "done" /\ UNCHANGED next
    /\ UNCHANGED <<conn, closes, rows, threadUnchanged>>

\* What a failed statement leaves: sql_query closes the connection.
AfterFailure_Mutant == "open"
AfterFailure == "freed"

\* insert_sensor up to its commit.  With no connection the statement fails, and
\* so it does with a freed one, if that does not end the process.
Insert ==
    /\ pc \in {"insert", "stale"}
    /\ CASE conn = "open" -> pc' = "commit" /\ UNCHANGED closes
         [] conn = "null" -> pc' = "top" /\ UNCHANGED closes
         [] conn = "freed" -> pc' \in {"top", "off"} /\ Closed(1)
    /\ UNCHANGED <<conn, rows, next, threadUnchanged>>

\* The commit.  It fails if it meets a reader, or for want of disk, and is rolled
\* back; "INSERT SENSOR ERROR - SKIPPED DATA", and the continue leaves the counter
\* as it is.
AfterSkip_Mutant == "count"
AfterSkip == "top"

Commit ==
    /\ pc = "commit"
    /\ \/ /\ reading = {}
          /\ rows' = Append(rows, next - 1)
          /\ pc' = "count"
          /\ UNCHANGED <<conn, closes>>
       \/ /\ conn' = AfterFailure
          /\ Closed(1)
          /\ pc' = AfterSkip
          /\ UNCHANGED rows
    /\ UNCHANGED <<next, threadUnchanged>>

Count ==
    /\ pc = "count"
    /\ cnt' = cnt - 1
    /\ pc' = "top"
    /\ UNCHANGED <<conn, closes, rows, next, dmNext, table, put, working, starts,
                   first, clientVars>>

\* disconnect, after the loop; the thread has ended.
Disconnect ==
    /\ pc = "done"
    /\ pc' = "end"
    /\ IF conn = "null" THEN UNCHANGED <<conn, closes>>
                        ELSE conn' = "freed" /\ Closed(1)
    /\ UNCHANGED <<rows, next, threadUnchanged>>

-----------------------------------------------------------------------------
(* The routes of app.py that query the database: connect, execute, fetch,  *)
(* close.                                                                  *)

Query(c) ==
    /\ c \notin reading
    /\ IF table
         THEN /\ reading' = reading \cup {c}
              /\ shown' = [shown EXCEPT ![c] = Len(rows)]
              /\ UNCHANGED answer
         ELSE /\ answer' = [answer EXCEPT ![c] = -1]
              /\ UNCHANGED <<reading, shown>>
    /\ UNCHANGED <<pc, conn, closes, table, rows, next, dmNext, gatewayVars>>

Answer(c) ==
    /\ c \in reading
    /\ reading' = reading \ {c}
    /\ answer' = [answer EXCEPT ![c] = shown[c]]
    /\ UNCHANGED <<shown, pc, conn, closes, table, rows, next, dmNext, gatewayVars>>

-----------------------------------------------------------------------------
Thread ==
    \/ Open \/ CreateTable \/ Top \/ Remove \/ Insert \/ Commit \/ Count
    \/ Disconnect

Next ==
    \/ Start \/ Put \/ DataMgrReads \/ CloseThreads \/ Ends \/ Thread
    \/ \E c \in Clients : Query(c) \/ Answer(c)

\* The thread is scheduled; nothing is owed by the sensors, the clients or the data
\* manager, which may have ended.
Spec == Init /\ [][Next]_vars /\ WF_vars(Thread)

-----------------------------------------------------------------------------
(* Properties.                                                             *)

TypeOK ==
    /\ pc \in {"off", "open", "create", "top", "remove", "insert", "stale", "commit",
               "count", "done", "end"}
    /\ conn \in {"null", "open", "freed"}
    /\ closes \in 0..CloseCap
    /\ table \in BOOLEAN /\ working \in BOOLEAN
    /\ rows \in Seq(1..MaxItems)
    /\ put \in 0..MaxItems /\ next \in first..put + 1 /\ dmNext \in first..put + 1
    /\ first \in 1..MaxItems + 1
    /\ cnt \in -2..MaxItems
    /\ reading \subseteq Clients
    /\ shown \in [Clients -> 0..MaxItems] /\ answer \in [Clients -> -1..MaxItems]
    /\ starts \in 0..MaxStarts

\* The items of this start that are in the table.
Stored == {rows[i] : i \in 1..Len(rows)} \cap first..put
InHand == pc \in {"insert", "commit"}
Read == first..(IF InHand THEN next - 2 ELSE next - 1)

\* The table holds items in the order of their arrival, none twice, through all
\* starts and crashes.  Of this start it holds everything read so far, as long
\* as the connection stands; after the first failure it gets nothing more,
\* whatever the readers do: no item is skipped and a later one stored.  And a
\* connection is closed a second time only when items were lost.
StoredPrefix ==
    /\ TypeOK
    /\ \A i, j \in 1..Len(rows) : i < j => rows[i] < rows[j]
    /\ Stored = first..first + Cardinality(Stored) - 1
    /\ conn = "open" /\ pc # "off" => Stored = Read
    /\ closes > 1 => conn = "null" \/ Stored # Read

\* The counter is the number of items of this start that are not in the table:
\* one that was skipped stays counted, so after a failure it never comes back
\* to 0, and the thread never waits again.
CountsUnstored ==
    working =>
        cnt = put - first + 1 - Cardinality(Stored) + (IF pc = "count" THEN 1 ELSE 0)

\* Once an item was skipped, because an INSERT failed or there never was a
\* connection, the thread ends although the gateway works on, as soon as the data
\* manager has caught up and the list stays empty.  The premise is needed: as long as
\* the data manager leaves an item (for ever, if it has ended) the thread runs through
\* its loop with an old record and the closed connection.
EndsAfterFailure ==
    <>[](dmNext > put)
        => (pc = "top" /\ conn # "open" /\ Stored # Read ~> pc \in {"end", "off"})

\* A client is never shown fewer rows than before, and no error once it was
\* shown any: not by a gateway that starts again either.
AnswersGrow == [][\A c \in Clients : answer'[c] >= answer[c]]_vars
=============================================================================
