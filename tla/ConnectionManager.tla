------------------------- MODULE ConnectionManager -------------------------
(***************************************************************************)
(* connmgr_listen: one thread that polls the descriptors of a list in      *)
(* turn.  Element 0 of the list is the listening socket, the others are    *)
(* the connected sensors.  One turn of the loop is one step: it polls one  *)
(* element and acts on what the poll said; sensors connect, send, hang up, *)
(* vanish or stay silent between the turns, and time passes.               *)
(*                                                                         *)
(* poll_server and element 0 are two copies of one record with a pointer   *)
(* to the same socket; srvLast and last[SERVER] are the two last_modified. *)
(* A record is received whole, or its sensor closes in the middle of it    *)
(* and the rest of sensor_data is what the stack held.  What is done with  *)
(* a record, and the end of the other threads, is in module Gateway.       *)
(***************************************************************************)
EXTENDS Integers, FiniteSets, Sequences, SequencesExt

CONSTANTS
    Sensors,        \* the sensor nodes, each connecting at most once
    TIMEOUT,        \* seconds of silence
    MaxTime,        \* bound of the clock
    MaxFiles        \* files opened with the number of a closed socket (bound)

ASSUME ConnAssumption ==
    IsFiniteSet(Sensors) /\ TIMEOUT \in Nat /\ MaxTime \in Nat /\ MaxFiles \in Nat

CONSTANT SERVER     \* the listening socket
ASSUME ServerAssumption == SERVER \notin Sensors

VARIABLES
    list,           \* dpl_connections
    size, index,    \* list_size, index
    last,           \* list element -> its last_modified
    srvLast,        \* poll_server.last_modified
    listening,      \* the listening socket is open
    reused,         \* it is closed, and a file of another thread has its number
    conn,           \* sensor -> "none", "queued" (not accepted), "open",
                    \*   "closed", "leaked" (given up but never closed)
    peer,           \* sensor -> "up", "fin" (closed) or "rst" (reset)
    unread,         \* sensor -> a record or the beginning of one waits
    now,            \* time(NULL)
    state           \* "run", "stopped" or "crashed"

\* History (no code).
VARIABLES
    files,          \* how many files had that number
    heard,          \* sensor -> when it last connected or was received from
    overshot        \* a time-out removal left index beyond the list

fileVars == <<reused, files>>
cmVars == <<list, size, index, last, srvLast, listening, conn, peer, unread,
            now, state, heard, overshot, fileVars>>

Init ==
    /\ list = <<SERVER>>
    /\ size = 1 /\ index = 0
    /\ last = [e \in Sensors \cup {SERVER} |-> 0]
    /\ srvLast = 0
    /\ listening = TRUE /\ reused = FALSE /\ files = 0
    /\ conn = [s \in Sensors |-> "none"]
    /\ peer = [s \in Sensors |-> "up"]
    /\ unread = [s \in Sensors |-> FALSE]
    /\ now = 0
    /\ state = "run"
    /\ heard = [s \in Sensors |-> 0]
    /\ overshot = FALSE

-----------------------------------------------------------------------------
(* The sensors and the clock.                                              *)

envUnchanged == <<list, size, index, last, srvLast, listening, state, heard,
                  overshot>>
sensorsUnchanged == <<envUnchanged, fileVars>>

Connect(s) ==
    /\ listening /\ conn[s] = "none"
    /\ conn' = [conn EXCEPT ![s] = "queued"]
    /\ UNCHANGED <<sensorsUnchanged, peer, unread, now>>

Send(s) ==
    /\ conn[s] \in {"queued", "open"} /\ peer[s] = "up" /\ ~unread[s]
    /\ unread' = [unread EXCEPT ![s] = TRUE]
    /\ UNCHANGED <<sensorsUnchanged, conn, peer, now>>

HangUp(s) ==
    /\ conn[s] \in {"queued", "open"} /\ peer[s] = "up"
    /\ \E how \in {"fin", "rst"} : peer' = [peer EXCEPT ![s] = how]
    /\ UNCHANGED <<sensorsUnchanged, conn, unread, now>>

Tick ==
    /\ now < MaxTime
    /\ now' = now + 1
    /\ UNCHANGED <<sensorsUnchanged, conn, peer, unread>>

\* The storage thread opens a file, a journal, say: the system gives it the
\* lowest free number, and the list still holds that of the listening socket.
FileOpens ==
    /\ ~listening /\ ~reused /\ files < MaxFiles
    /\ reused' = TRUE /\ files' = files + 1
    /\ UNCHANGED <<envUnchanged, conn, peer, unread, now>>

FileCloses ==
    /\ reused
    /\ reused' = FALSE
    /\ UNCHANGED <<envUnchanged, conn, peer, unread, now, files>>

-----------------------------------------------------------------------------
(* What poll reports, and the element it is asked about.                   *)

\* index is reset when it equals the size; dpl_get_element_at_index takes the
\* last element for an index beyond the list.
Turn_Mutant == index
Turn == IF index = size THEN 0 ELSE index
Polled == IF Turn < Len(list) THEN list[Turn + 1] ELSE Last(list)

Queued == {s \in Sensors : conn[s] = "queued"}

\* revents = POLLIN; a reset connection reports POLLERR and POLLHUP with it, and
\* a file can always be read.
PollIn(e) ==
    IF e = SERVER THEN (listening /\ Queued # {}) \/ reused
    ELSE (unread[e] /\ peer[e] # "rst") \/ peer[e] = "fin"

TimedOut(t) == t < now - TIMEOUT

-----------------------------------------------------------------------------
(* connmgr_remove_sensor(list_size, i, e): it closes the listening socket, *)
(* the element and, if shutdown() succeeds on it, the descriptor.          *)

Closed_Mutant(e) == "open"
Closed(e) == IF peer[e] = "rst" THEN "leaked" ELSE "closed"

ListWithout(i) == RemoveAt(list, IF i < Len(list) THEN i + 1 ELSE Len(list))

SizeWithout_Mutant == size - 2
SizeWithout == size - 1

RemoveSensor(i, e) ==
    /\ list' = ListWithout(i)
    /\ size' = SizeWithout
    /\ srvLast' = now
    /\ listening' = FALSE
    /\ conn' = [s \in Sensors |-> IF s = e THEN Closed(e)
                                  ELSE IF conn[s] = "queued" THEN "closed"
                                  ELSE conn[s]]

\* index only counts on from here; beyond the list its value is all the same.
IndexCap == Len(list) + 2
NextIndex_Mutant(i) == 0
NextIndex(i) == IF i < IndexCap THEN i + 1 ELSE i

\* After a receive that failed the loop goes on without index++.
AfterFailure_Mutant(i) == NextIndex(i)
AfterFailure(i) == i

Removed(i) ==
    /\ index' = NextIndex(i)
    /\ overshot' = (overshot \/ i + 1 > size - 1)

-----------------------------------------------------------------------------
(* The end of a turn (the two rules commented there) and the next index.   *)

Silent(i, e, seenAt) == TimedOut(seenAt) /\ i > 0
Idle_Mutant == size = 0 /\ TimedOut(srvLast)
Idle == size = 1 /\ TimedOut(srvLast)

\* Nothing to remove: stop, or go on.
GoOn(i) ==
    /\ IF Idle THEN state' = "stopped" /\ UNCHANGED index
               ELSE index' = NextIndex(i) /\ UNCHANGED state
    /\ UNCHANGED <<list, size, srvLast, overshot>>

-----------------------------------------------------------------------------
(* One turn of the loop.                                                   *)

Running == state = "run" /\ list # <<>>

\* dpl_get_element_at_index of an empty list is NULL.
PollEmpty ==
    /\ state = "run" /\ list = <<>>
    /\ state' = "crashed"
    /\ UNCHANGED <<list, size, index, last, srvLast, listening, conn, peer,
                   unread, now, heard, overshot, fileVars>>

\* connmgr_add_sensor.
Accept ==
    /\ Running /\ Turn = 0 /\ PollIn(Polled)
    /\ \E s \in Queued :
         /\ conn' = [conn EXCEPT ![s] = "open"]
         /\ list' = Append(list, s)
         /\ last' = [last EXCEPT ![s] = now]
         /\ heard' = [heard EXCEPT ![s] = now]
    /\ size' = size + 1
    /\ index' = 1
    /\ UNCHANGED <<srvLast, listening, peer, unread, now, state, overshot, fileVars>>

\* It fails on the closed socket, and the continue polls the file again.
AcceptFails ==
    /\ Running /\ Turn = 0 /\ Polled = SERVER /\ reused
    /\ index' = AfterFailure(Turn)
    /\ UNCHANGED <<list, size, last, srvLast, listening, conn, peer, unread, now,
                   state, heard, overshot, fileVars>>

\* connmgr_add_sensor_data; the time of the sensor is its own clock's, and if
\* the record is torn it is anything.
Receive(ts) ==
    /\ Running /\ Turn > 0 /\ Polled # SERVER
    /\ PollIn(Polled) /\ unread[Polled]
    /\ last' = [last EXCEPT ![Polled] = ts]
    /\ unread' = [unread EXCEPT ![Polled] = FALSE]
    /\ heard' = [heard EXCEPT ![Polled] = now]
    /\ IF Silent(Turn, Polled, ts)
         THEN RemoveSensor(Turn, Polled) /\ Removed(Turn) /\ UNCHANGED state
         ELSE GoOn(Turn) /\ UNCHANGED <<listening, conn>>
    /\ UNCHANGED <<peer, now, fileVars>>

\* The first receive fails: the sensor closed, or the element is the listening
\* socket.
ReceiveFails ==
    /\ Running /\ Turn > 0 /\ PollIn(Polled)
    /\ ~(Polled \in Sensors /\ unread[Polled])
    /\ RemoveSensor(Turn, Polled)
    /\ index' = AfterFailure(Turn)
    /\ UNCHANGED <<last, peer, unread, now, state, heard, overshot, fileVars>>

\* Nothing, or nothing that the two tests on revents recognise.
Quiet ==
    /\ Running /\ ~PollIn(Polled)
    /\ IF Silent(Turn, Polled, last[Polled])
         THEN RemoveSensor(Turn, Polled) /\ Removed(Turn) /\ UNCHANGED state
         ELSE GoOn(Turn) /\ UNCHANGED <<listening, conn>>
    /\ UNCHANGED <<last, peer, unread, now, heard, fileVars>>

Iterate ==
    \/ PollEmpty \/ Accept \/ AcceptFails \/ ReceiveFails \/ Quiet
    \/ \E ts \in {0, now} : Receive(ts)

Env == Tick \/ FileOpens \/ FileCloses \/ \E s \in Sensors : Connect(s) \/ Send(s) \/ HangUp(s)

Over == state # "run" /\ UNCHANGED cmVars

Next == Iterate \/ (state = "run" /\ Env) \/ Over

\* The thread keeps running, and an opened file is closed again (sqlite3_exec
\* ends); the sensors and the clock owe it nothing.
Spec == Init /\ [][Next]_cmVars /\ WF_cmVars(Iterate) /\ WF_cmVars(FileCloses)

-----------------------------------------------------------------------------
(* Properties.                                                             *)

TypeOK ==
    /\ list \in Seq(Sensors \cup {SERVER})
    /\ size \in 0..(Cardinality(Sensors) + 1) /\ index \in Nat
    /\ last \in [Sensors \cup {SERVER} -> 0..MaxTime] /\ srvLast \in 0..MaxTime
    /\ listening \in BOOLEAN
    /\ reused \in BOOLEAN /\ files \in 0..MaxFiles
    /\ conn \in [Sensors -> {"none", "queued", "open", "closed", "leaked"}]
    /\ peer \in [Sensors -> {"up", "fin", "rst"}]
    /\ unread \in [Sensors -> BOOLEAN]
    /\ now \in 0..MaxTime
    /\ state \in {"run", "stopped", "crashed"}
    /\ heard \in [Sensors -> 0..MaxTime]
    /\ overshot \in BOOLEAN

Watched == {s \in Sensors : s \in ToSet(list)}

\* list_size counts the list, no connection is in it twice, and the open sensor
\* sockets are those in it: connmgr_add_sensor and connmgr_remove_sensor, and
\* the clamping of the list operations they call, keep the three in step.
ListMatches ==
    /\ TypeOK
    /\ size = Len(list)
    /\ \A i, j \in 1..Len(list) : list[i] = list[j] => i = j
    /\ Watched = {s \in Sensors : conn[s] = "open"}

\* The index stays within the list, and the list is never polled empty, until a
\* time-out removes its last element and index++ follows.
IndexInRange == ~overshot => index <= size /\ state # "crashed"

\* Until then each sensor with something to say gets its turn, although turns
\* are spent on others, elements are removed in front of it, a failed receive
\* goes back to the top of the loop, and the loop spins while a file has the
\* number of the listening socket.
ServedUntilOvershot ==
    \A s \in Sensors :
        s \in Watched /\ PollIn(s) ~>
            s \notin Watched \/ ~PollIn(s) \/ overshot \/ state # "run"

\* A connection in the accept queue is accepted, or falls with the listening
\* socket at the first removal of another sensor, or with the loop.
NotLeftQueued ==
    \A s \in Sensors :
        conn[s] = "queued" ~> conn[s] # "queued" \/ state # "run"

\* With no sensor in the list for TIMEOUT seconds, and none waiting, the loop
\* ends, one way or the other.
EndsWhenIdle ==
    LET quiet == size = 1 /\ TimedOut(srvLast) /\ Queued = {}
    IN  quiet ~> state # "run" \/ ~quiet
=============================================================================
