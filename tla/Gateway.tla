------------------------------ MODULE Gateway ------------------------------
(***************************************************************************)
(* The gateway process: main and the threads it starts (connection, data   *)
(* and storage manager), around the shared buffer of module SensorBuffer.  *)
(* What they share besides the buffer is a counter of waiting items per    *)
(* reader, each with its mutex and condition variable, the flag            *)
(* connmgr_working, and the log with its mutex.                            *)
(*                                                                         *)
(* A thread's code between two accesses to shared state is one step; a     *)
(* critical section of a mutex is one step too when nothing in it can      *)
(* block or be cancelled.  Where a thread can block, be cancelled or hold  *)
(* one mutex while it waits for another, the steps are separate.           *)
(***************************************************************************)
EXTENDS SensorBuffer, FiniteSets, Sequences

CONSTANTS
    MaxSignals,     \* how many SIGINT/SIGTERM arrive (bound)
    Faults          \* which calls may fail, a subset of FaultKinds

FaultKinds == {"port", "map", "malloc", "open", "create", "insert"}

ASSUME GatewayAssumption == MaxSignals \in Nat /\ Faults \subseteq FaultKinds

\* The reader threads carry their number in the buffer.
CONNMGR == 2
MAIN == 3
NOBODY == 4
Workers == Readers \cup {CONNMGR}
Threads == Workers \cup {MAIN}

\* threads[], in the order in which main creates, joins and cancels them.
threads == <<CONNMGR, DB_THREAD, DATAMGR_THREAD>>
MAIN_PROCESS_THREAD_NR == 3

VARIABLES
    loc,            \* thread -> its control point
    ret,            \* thread -> its control point after log_message
    k,              \* main's loop variable over threads[]
    cnt,            \* reader -> *data_mgr, *data_sensor_db
    lock,           \* reader -> the owner of datamgr_lock, db_lock
    logMutex,       \* the thread that never unlocks log_mutex again
    working,        \* *connmgr_working
    conn,           \* the database connection: "none", "ok" or "lost"
    hloc, hk,       \* control point and loop variable of handle_signal
    signals,        \* how many signals were delivered
    cancelled,      \* the threads with a pthread_cancel pending or acted on
    proc,           \* "run", "exit" (cleanup_and_exit), "abort" (any other end)
    released        \* the nodes sbuffer_free gave back

\* History (no code): a malloc failed, a count was not taken down.
VARIABLES nomem, skipped

ctlVars == <<loc, ret, k, cnt, lock, logMutex, working, conn, hloc, hk,
             signals, cancelled, proc, released, nomem, skipped>>
vars == <<sbVars, ctlVars>>

GatewayInit ==
    /\ Init
    /\ loc = [t \in Threads |-> IF t = MAIN THEN "boot" ELSE "unborn"]
    /\ ret = [t \in Threads |-> "none"]
    /\ k = 1
    /\ cnt = [r \in Readers |-> 0]
    /\ lock = [r \in Readers |-> NOBODY]
    /\ logMutex = NOBODY
    /\ working = TRUE
    /\ conn = "none"
    /\ hloc = "none" /\ hk = 1
    /\ signals = 0
    /\ cancelled = {}
    /\ proc = "run"
    /\ released = {}
    /\ nomem = FALSE /\ skipped = FALSE

Alive == ~crashed /\ proc = "run"

\* Thread t moves from one control point to another; main only while no
\* handler runs on its stack.
At(t, l) == Alive /\ loc[t] = l /\ (t = MAIN => hloc = "none")

\* ... and where that point is a cancellation point (a file, database or socket
\* call, the write of log_message): a cancelled thread gets no further.
AtCancel(t, l) == At(t, l) /\ t \notin cancelled

Goto(t, l) == loc' = [loc EXCEPT ![t] = l]

\* A step of t that calls log_message before it goes on at l.
GotoLogged(t, l) ==
    /\ loc' = [loc EXCEPT ![t] = "log"]
    /\ ret' = [ret EXCEPT ![t] = l]

\* What the steps of a family leave alone.
mainVars  == <<k, hloc, hk, signals, cancelled, proc, released>>
dataVars  == <<cnt, working, conn, nomem, skipped>>
mutexVars == <<lock, logMutex>>

-----------------------------------------------------------------------------
(* log_message, by any thread: nothing in its critical section blocks, so  *)
(* it is one step.  Adjacent calls count as one.                           *)

LogMessage(t) ==
    /\ AtCancel(t, "log")
    /\ logMutex = NOBODY
    /\ Goto(t, ret[t])
    /\ ret' = [ret EXCEPT ![t] = "none"]
    /\ UNCHANGED <<sbVars, mutexVars, mainVars, dataVars>>

\* A cancelled thread ends in the write, and log_mutex stays locked.
LogCancelled(t) ==
    /\ At(t, "log")
    /\ t \in cancelled
    /\ logMutex = NOBODY
    /\ logMutex' = t
    /\ Goto(t, "gone")
    /\ UNCHANGED <<sbVars, ret, lock, mainVars, dataVars>>

-----------------------------------------------------------------------------
(* connmgr_listen.  What the sensors do decides which way it goes; module  *)
(* ConnectionManager says which of these ways its list really allows.      *)

ConnOpen ==
    /\ AtCancel(CONNMGR, "listen")
    /\ Goto(CONNMGR, "top")
    /\ UNCHANGED <<sbVars, ret, mutexVars, mainVars, dataVars>>

ConnOpenFails ==
    /\ AtCancel(CONNMGR, "listen")
    /\ "port" \in Faults
    /\ proc' = "abort"
    /\ UNCHANGED <<sbVars, loc, ret, k, hloc, hk, signals, cancelled, released,
                   mutexVars, dataVars>>

ConnTop ==
    /\ At(CONNMGR, "top")
    /\ Goto(CONNMGR, IF working THEN "poll" ELSE "done")
    /\ UNCHANGED <<sbVars, ret, mutexVars, mainVars, dataVars>>

\* The poll timed out, or reported a connection: back to the loop test.
PollNothing ==
    /\ AtCancel(CONNMGR, "poll")
    /\ Goto(CONNMGR, "top")
    /\ UNCHANGED <<sbVars, ret, mutexVars, mainVars, dataVars>>

\* A sensor is removed, with a log entry.
PollRemove ==
    /\ AtCancel(CONNMGR, "poll")
    /\ GotoLogged(CONNMGR, "top")
    /\ UNCHANGED <<sbVars, mutexVars, mainVars, dataVars>>

\* A record is coming in: the three blocking receives begin.
PollData ==
    /\ AtCancel(CONNMGR, "poll")
    /\ last < MaxItems
    /\ Goto(CONNMGR, "recv")
    /\ UNCHANGED <<sbVars, ret, mutexVars, mainVars, dataVars>>

\* All of it is there; the first record of a sensor id is logged.
Receive ==
    /\ AtCancel(CONNMGR, "recv")
    /\ \/ Goto(CONNMGR, "insert") /\ UNCHANGED ret
       \/ GotoLogged(CONNMGR, "insert")
    /\ UNCHANGED <<sbVars, mutexVars, mainVars, dataVars>>

\* connmgr_add_sensor_data returns once sbuffer_insert has.
ConnInsert ==
    /\ At(CONNMGR, "insert")
    /\ Insert
    /\ Goto(CONNMGR, IF wpc' = "idle" THEN "updLock" ELSE "insert")
    /\ UNCHANGED <<ret, mutexVars, mainVars, dataVars>>

\* sbuffer_insert's malloc fails: a message, and the counters go up anyway.
ConnInsertFails ==
    /\ At(CONNMGR, "insert")
    /\ "malloc" \in Faults /\ ~nomem      \* once (bound)
    /\ wpc = "idle"
    /\ nomem' = TRUE
    /\ Goto(CONNMGR, "updLock")
    /\ UNCHANGED <<sbVars, ret, mutexVars, mainVars, cnt, working, conn, skipped>>

-----------------------------------------------------------------------------
(* connmgr_update_threads, and connmgr_close_threads/sensor_close_threads: *)
(* both mutexes are taken, datamgr_lock first.                             *)

LockFirst(t, from, to) ==
    /\ At(t, from)
    /\ lock[DATAMGR_THREAD] = NOBODY
    /\ lock' = [lock EXCEPT ![DATAMGR_THREAD] = t]
    /\ Goto(t, to)
    /\ UNCHANGED <<sbVars, ret, logMutex, mainVars, dataVars>>

\* Both counters are set and both mutexes released.
LockSecond(t, from, to, counts) ==
    /\ At(t, from)
    /\ lock[DB_THREAD] = NOBODY
    /\ lock' = [lock EXCEPT ![DATAMGR_THREAD] = NOBODY]
    /\ cnt' = counts
    /\ Goto(t, to)
    /\ UNCHANGED <<sbVars, ret, logMutex, mainVars, working, conn, nomem, skipped>>

\* pthread_cond_broadcast on reader r's condition variable.
WakeUp_Mutant(r) == loc
WakeUp(r) == [loc EXCEPT ![r] = IF @ = "wait" THEN "woken" ELSE @]

Broadcast(t, r, from, to) ==
    /\ At(t, from)
    /\ loc' = [WakeUp(r) EXCEPT ![t] = to]
    /\ UNCHANGED <<sbVars, ret, mutexVars, mainVars, dataVars>>

Incremented_Mutant == [cnt EXCEPT ![DATAMGR_THREAD] = @ + 1]
Incremented == [r \in Readers |-> cnt[r] + 1]

Update ==
    \/ LockFirst(CONNMGR, "updLock", "updCount")
    \/ LockSecond(CONNMGR, "updCount", "updDb", Incremented)
    \/ Broadcast(CONNMGR, DB_THREAD, "updDb", "updData")
    \/ Broadcast(CONNMGR, DATAMGR_THREAD, "updData", "top")

\* No sensor left, and none came for TIMEOUT seconds.
PollClose ==
    /\ AtCancel(CONNMGR, "poll")
    /\ Goto(CONNMGR, "close")
    /\ UNCHANGED <<sbVars, ret, mutexVars, mainVars, dataVars>>

StopWorking(t) ==
    /\ At(t, "close")
    /\ working' = FALSE
    /\ Goto(t, "clsLock")
    /\ UNCHANGED <<sbVars, ret, mutexVars, mainVars, cnt, conn, nomem, skipped>>

Closed_Mutant == [r \in Readers |-> 0]
Closed == [r \in Readers |-> -1]

\* After it, connmgr logs and leaves the loop; init_connection returns NULL.
CloseThreads(t) ==
    \/ StopWorking(t)
    \/ LockFirst(t, "clsLock", "clsCount")
    \/ LockSecond(t, "clsCount", "clsDb", Closed)
    \/ Broadcast(t, DB_THREAD, "clsDb", "clsData")
    \/ Broadcast(t, DATAMGR_THREAD, "clsData",
                 IF t = CONNMGR THEN "bye" ELSE "top")

ConnBye ==
    /\ At(CONNMGR, "bye")
    /\ GotoLogged(CONNMGR, "done")
    /\ UNCHANGED <<sbVars, mutexVars, mainVars, dataVars>>

-----------------------------------------------------------------------------
(* The loop of datamgr_parse_sensor_files and sensor_db_listen.            *)

ReaderTop(r) ==
    /\ At(r, "top")
    /\ Goto(r, IF working THEN "lock" ELSE "done")
    /\ UNCHANGED <<sbVars, ret, mutexVars, mainVars, dataVars>>

\* With the mutex: wait on a zero counter, else give up or go on.  The mutex
\* is free again at the end of the step, whichever way it goes.
Decided(r) ==
    IF cnt[r] = 0 THEN "wait" ELSE IF working THEN "remove" ELSE "done"

ReaderLock(r) ==
    /\ At(r, "lock")
    /\ lock[r] = NOBODY
    /\ Goto(r, Decided(r))
    /\ UNCHANGED <<sbVars, ret, mutexVars, mainVars, dataVars>>

\* pthread_cond_wait may return without a broadcast.
SpuriousWakeUp(r) ==
    /\ AtCancel(r, "wait")
    /\ Goto(r, "woken")
    /\ UNCHANGED <<sbVars, ret, mutexVars, mainVars, dataVars>>

\* It returns with the mutex, and connmgr_working is looked at first.
Rechecked_Mutant(r) == IF working THEN "remove" ELSE "done"
Rechecked(r) == IF working THEN Decided(r) ELSE "done"

ReaderWoken(r) ==
    /\ At(r, "woken")
    /\ lock[r] = NOBODY
    /\ Goto(r, Rechecked(r))
    /\ UNCHANGED <<sbVars, ret, mutexVars, mainVars, dataVars>>

\* sbuffer_remove; anything but SBUFFER_SUCCESS ends the thread.
ReaderRemove(r) ==
    /\ At(r, "remove")
    /\ Remove(r)
    /\ Goto(r, IF pc'[r] # "idle" \/ crashed' THEN "remove"
               ELSE IF res'[r] = "SUCCESS" THEN "use" ELSE "done")
    /\ UNCHANGED <<ret, mutexVars, mainVars, dataVars>>

\* datamgr_add_sensor_data: a mean out of range is logged.
DataUse ==
    /\ At(DATAMGR_THREAD, "use")
    /\ \/ Goto(DATAMGR_THREAD, "count") /\ UNCHANGED ret
       \/ GotoLogged(DATAMGR_THREAD, "count")
    /\ UNCHANGED <<sbVars, mutexVars, mainVars, dataVars>>

\* insert_sensor.
DbUse ==
    /\ AtCancel(DB_THREAD, "use")
    /\ conn = "ok"
    /\ Goto(DB_THREAD, "count")
    /\ UNCHANGED <<sbVars, ret, mutexVars, mainVars, dataVars>>

\* sql_query closes the connection; the counter is not taken down.
DbUseFails ==
    /\ AtCancel(DB_THREAD, "use")
    /\ conn = "lost" \/ "insert" \in Faults
    /\ conn' = "lost"
    /\ skipped' = TRUE
    /\ GotoLogged(DB_THREAD, "top")
    /\ UNCHANGED <<sbVars, mutexVars, mainVars, cnt, working, nomem>>

ReaderCount(r) ==
    /\ At(r, "count")
    /\ lock[r] = NOBODY
    /\ cnt' = [cnt EXCEPT ![r] = @ - 1]
    /\ Goto(r, "top")
    /\ UNCHANGED <<sbVars, ret, mutexVars, mainVars, working, conn, nomem, skipped>>

-----------------------------------------------------------------------------
(* How the readers start: the sensor map, the database.                    *)

MapRead ==
    /\ AtCancel(DATAMGR_THREAD, "map")
    /\ Goto(DATAMGR_THREAD, "top")
    /\ UNCHANGED <<sbVars, ret, mutexVars, mainVars, dataVars>>

MapMissing ==
    /\ AtCancel(DATAMGR_THREAD, "map")
    /\ "map" \in Faults
    /\ proc' = "abort"
    /\ UNCHANGED <<sbVars, loc, ret, k, hloc, hk, signals, cancelled, released,
                   mutexVars, dataVars>>

DbOpen ==
    /\ AtCancel(DB_THREAD, "open")
    /\ conn' = "ok"
    /\ GotoLogged(DB_THREAD, "top")
    /\ UNCHANGED <<sbVars, mutexVars, mainVars, cnt, working, nomem, skipped>>

\* sqlite3_open fails: log, then stop everybody.
DbOpenFails ==
    /\ AtCancel(DB_THREAD, "open")
    /\ "open" \in Faults
    /\ conn' = "lost"
    /\ GotoLogged(DB_THREAD, "close")
    /\ UNCHANGED <<sbVars, mutexVars, mainVars, cnt, working, nomem, skipped>>

\* CREATE TABLE fails: log, and listen without a connection.
DbCreateFails ==
    /\ AtCancel(DB_THREAD, "open")
    /\ "create" \in Faults
    /\ conn' = "lost"
    /\ GotoLogged(DB_THREAD, "top")
    /\ UNCHANGED <<sbVars, mutexVars, mainVars, cnt, working, nomem, skipped>>

-----------------------------------------------------------------------------
(* main.                                                                   *)

FirstLoc(t) ==
    CASE t = CONNMGR -> "listen" [] t = DATAMGR_THREAD -> "map" [] OTHER -> "open"

\* The log file is open from here on.
MainBoot ==
    /\ At(MAIN, "boot")
    /\ GotoLogged(MAIN, "spawn")
    /\ UNCHANGED <<sbVars, mutexVars, mainVars, dataVars>>

MainSpawn ==
    /\ At(MAIN, "spawn")
    /\ IF k <= MAIN_PROCESS_THREAD_NR
         THEN /\ loc' = [loc EXCEPT ![threads[k]] = FirstLoc(threads[k])]
              /\ k' = k + 1
         ELSE Goto(MAIN, "join") /\ k' = 1
    /\ UNCHANGED <<sbVars, ret, mutexVars, dataVars, hloc, hk, signals, cancelled,
                   proc, released>>

Ended(t) == loc[t] \in {"done", "gone"}

MoreToJoin_Mutant == k < MAIN_PROCESS_THREAD_NR
MoreToJoin == k <= MAIN_PROCESS_THREAD_NR

MainJoin ==
    /\ At(MAIN, "join")
    /\ MoreToJoin
    /\ Ended(threads[k])
    /\ k' = k + 1
    /\ UNCHANGED <<sbVars, loc, ret, mutexVars, dataVars, hloc, hk, signals,
                   cancelled, proc, released>>

MainJoined ==
    /\ At(MAIN, "join")
    /\ ~MoreToJoin
    /\ GotoLogged(MAIN, "bye")
    /\ UNCHANGED <<sbVars, mutexVars, mainVars, dataVars>>

\* sbuffer_free walks the list from the head.
Reachable[n \in Addr] == IF n = NULL THEN {} ELSE {n} \cup Reachable[next[n]]

\* cleanup_and_exit.
MainBye ==
    /\ At(MAIN, "bye")
    /\ WrLockFree
    /\ released' = Reachable[head]
    /\ proc' = "exit"
    /\ Goto(MAIN, "done")
    /\ UNCHANGED <<sbVars, ret, mutexVars, dataVars, k, hloc, hk, signals, cancelled>>

-----------------------------------------------------------------------------
(* SIGINT and SIGTERM: handle_signal runs on the main thread, which is the *)
(* one that the kernel prefers for a signal to the process.                *)

Signal ==
    /\ Alive /\ hloc = "none"
    /\ signals < MaxSignals
    /\ signals' = signals + 1
    /\ hk' = 1
    /\ hloc' = IF loc[MAIN] = "boot" THEN "cancel" ELSE "log"
    /\ \/ UNCHANGED logMutex
       \/ /\ loc[MAIN] = "log" /\ logMutex = NOBODY  \* main is in log_message
          /\ logMutex' = MAIN
    /\ UNCHANGED <<sbVars, loc, ret, k, lock, dataVars, cancelled, proc, released>>

\* log_message from the handler: it waits for the mutex even if main has it.
HandlerLog ==
    /\ Alive /\ hloc = "log"
    /\ logMutex = NOBODY
    /\ hloc' = "cancel"
    /\ UNCHANGED <<sbVars, loc, ret, k, mutexVars, dataVars, hk, signals,
                   cancelled, proc, released>>

MoreToCancel_Mutant == hk < MAIN_PROCESS_THREAD_NR
MoreToCancel == hk <= MAIN_PROCESS_THREAD_NR

\* A thread that was not created yet has the id 0: the call crashes.
HandlerCancel ==
    /\ Alive /\ hloc = "cancel"
    /\ IF MoreToCancel
         THEN /\ hk' = hk + 1
              /\ cancelled' = cancelled \cup {threads[hk]}
              /\ proc' = IF loc[threads[hk]] = "unborn" THEN "abort" ELSE proc
              /\ UNCHANGED hloc
         ELSE hloc' = "none" /\ UNCHANGED <<hk, cancelled, proc>>
    /\ UNCHANGED <<sbVars, loc, ret, k, mutexVars, dataVars, signals, released>>

\* A cancelled thread ends at its next cancellation point (in log_message: see
\* LogCancelled).
CancelTaken(t) ==
    /\ Alive /\ t \in cancelled
    /\ \/ loc[t] \in {"listen", "poll", "recv", "map", "open"}
       \/ loc[t] = "use" /\ t = DB_THREAD
    /\ Goto(t, "gone")
    /\ UNCHANGED <<sbVars, ret, mutexVars, mainVars, dataVars>>

\* ... or in pthread_cond_wait, which first takes its mutex back.
CancelInWait(r) ==
    /\ Alive /\ r \in cancelled
    /\ loc[r] \in {"wait", "woken"}
    /\ lock[r] = NOBODY
    /\ lock' = [lock EXCEPT ![r] = r]
    /\ Goto(r, "gone")
    /\ UNCHANGED <<sbVars, ret, logMutex, mainVars, dataVars>>

-----------------------------------------------------------------------------
\* The steps a thread makes by itself, as long as it is scheduled: one of them
\* is enabled unless the thread has ended or waits for another thread, for a
\* record that is not complete, or for a mutex.
Logs(t) == LogMessage(t) \/ (t \in Workers /\ LogCancelled(t))

ConnRuns ==
    \/ ConnOpen \/ ConnTop \/ PollNothing \/ ConnInsert \/ Update
    \/ CloseThreads(CONNMGR) \/ ConnBye \/ Logs(CONNMGR) \/ CancelTaken(CONNMGR)

ReaderRuns(r) ==
    \/ ReaderTop(r) \/ ReaderLock(r) \/ ReaderWoken(r) \/ ReaderRemove(r)
    \/ ReaderCount(r) \/ Logs(r) \/ CancelTaken(r) \/ CancelInWait(r)

DataRuns == ReaderRuns(DATAMGR_THREAD) \/ MapRead \/ DataUse

DbRuns ==
    \/ ReaderRuns(DB_THREAD) \/ CloseThreads(DB_THREAD)
    \/ DbOpen \/ DbUse \/ DbUseFails

MainRuns ==
    \/ MainBoot \/ MainSpawn \/ MainJoin \/ MainJoined \/ MainBye \/ Logs(MAIN)
    \/ HandlerLog \/ HandlerCancel

\* What the outside decides.
Environment ==
    \/ ConnOpenFails \/ PollRemove \/ PollData \/ PollClose \/ Receive
    \/ ConnInsertFails \/ MapMissing \/ DbOpenFails \/ DbCreateFails \/ Signal
    \/ \E r \in Readers : SpuriousWakeUp(r)

Over == ~Alive /\ UNCHANGED vars

GatewayNext ==
    ConnRuns \/ DataRuns \/ DbRuns \/ MainRuns \/ Environment \/ Over

GatewaySpec == GatewayInit /\ [][GatewayNext]_vars

\* The scheduler runs every thread that can run.  Nothing is assumed of the
\* sensors: a record may never come, or never be complete.
Fairness ==
    WF_vars(ConnRuns) /\ WF_vars(DataRuns) /\ WF_vars(DbRuns) /\ WF_vars(MainRuns)

GatewayFairSpec == GatewaySpec /\ Fairness

-----------------------------------------------------------------------------
(* Properties.                                                             *)

GatewayTypeOK ==
    /\ TypeOK
    /\ loc \in [Threads -> {"boot", "unborn", "listen", "map", "open", "top",
         "poll", "recv", "insert", "updLock", "updCount", "updDb", "updData",
         "close", "clsLock", "clsCount", "clsDb", "clsData", "bye",
         "lock", "wait", "woken", "remove", "use", "count", "log",
         "spawn", "join", "done", "gone"}]
    /\ ret \in [Threads -> {"none", "top", "insert", "done", "count", "close",
                            "spawn", "bye"}]
    /\ k \in 1..4 /\ hk \in 1..4
    /\ cnt \in [Readers -> Int]
    /\ lock \in [Readers -> Workers \cup {NOBODY}]
    /\ logMutex \in Threads \cup {NOBODY}
    /\ working \in BOOLEAN
    /\ conn \in {"none", "ok", "lost"}
    /\ hloc \in {"none", "log", "cancel"}
    /\ signals \in 0..MaxSignals
    /\ cancelled \subseteq Workers
    /\ proc \in {"run", "exit", "abort"}
    /\ released \subseteq Node
    /\ nomem \in BOOLEAN /\ skipped \in BOOLEAN

Unread(r) == {n \in 1..linked : r \notin seen[n]}

\* Linked into the list, but not in the counters yet.
Uncounted ==
    \/ loc[CONNMGR] = "insert" /\ wpc \in {"tail", "unlock"}
    \/ loc[CONNMGR] \in {"updLock", "updCount"}

\* Between its successful read and the decrement, r has an item in hand.
InHand(r) ==
    /\ got[r]
    /\ \/ loc[r] = "remove" /\ pc[r] # "idle"
       \/ loc[r] \in {"use", "count"}
       \/ loc[r] = "log" /\ ret[r] = "count"

One(b) == IF b THEN 1 ELSE 0

\* *data_mgr and *data_sensor_db say how many items their reader has still to
\* read: sbuffer_insert and connmgr_update_threads, and sbuffer_remove and the
\* decrement, are apart, and what is under way makes the exact difference.  It
\* holds until the shutdown, a fault, or the reader's cancellation.  (With it, the
\* type invariant.)
CountMatches ==
    /\ GatewayTypeOK
    /\ \A r \in Readers :
        \/ ~working \/ nomem \/ (r = DB_THREAD /\ skipped) \/ overtaken
        \/ r \in cancelled
        \/ cnt[r] = Cardinality(Unread(r)) - One(Uncounted) + One(InHand(r))

\* A reader takes nothing for a new item, and gives up for want of one, only
\* if an item was lost to an overtaken removal, or after a fault.
NoBlindRead ==
    \A r \in Readers :
        \/ overtaken \/ nomem \/ (r = DB_THREAD /\ skipped)
        \/ /\ loc[r] = "use" => got[r]
           /\ ~(loc[r] = "done" /\ res[r] = "NO_DATA")

\* When main cleans up, no thread is left inside the buffer (it would use it
\* after sbuffer_free), and sbuffer_free gives back exactly the live nodes:
\* also with threads that were cancelled, wherever that was.
CleanExit ==
    proc = "exit" =>
        /\ \A t \in Workers : Ended(t)
        /\ wpc = "idle" /\ ~wr /\ \A r \in Readers : pc[r] = "idle"
        /\ released = {n \in Node : heap[n] = "live"}

\* A reader with items still to read comes to have read them all, or the
\* process stops, or an item was lost in a race.  (No wake-up is ever missed.
\* The bound MaxItems on the arrivals is why "all" can be asked for.)
Delivered ==
    \A r \in Readers :
        Unread(r) # {} ~> Unread(r) = {} \/ ~working \/ crashed \/ overtaken

\* Once connmgr_working is FALSE every thread ends and the process exits, or
\* crashes in the race of sbuffer_remove.
Stops == ~working ~> ~Alive

\* What can keep it from exiting: a crash, a mutex that a cancelled thread took
\* with it, or main interrupted in log_message by its own handler.
Abandoned ==
    \/ \E r \in Readers : lock[r] = r
    \/ logMutex # NOBODY

\* After a signal the process ends, unless a thread took a mutex with it:
\* whatever handle_signal cancels, and wherever, main's joins come to an end.
StopsUnlessAbandoned == signals > 0 ~> ~Alive \/ Abandoned

-----------------------------------------------------------------------------
(* What a comment promises and the code does not keep.                     *)

\* database_manager.c:233, "notify the threads": once connmgr_working is FALSE no
\* reader waits for ever.
Notified ==
    \A r \in Readers :
        ~working /\ loc[r] = "wait" ~> loc[r] # "wait" \/ ~Alive
=============================================================================
