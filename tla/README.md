# Verification of the sensor gateway

This directory holds TLA+ models of the sensor gateway, TLC configurations that
check them on small instances, and TLAPS proofs about all components for instances of
any size. The models are translated from the code under `src/`; line numbers below
and in `PROJECT.json` are those of that code.

    tlc -workers 2 -config SensorBuffer.cfg SensorBuffer_proofs
    tlapm SensorBuffer_proofs.tla
    tlapm Gateway_proofs.tla

The first is the run "buffer"; `PROJECT.json` names the configuration and the
module of every other one. The others check proofs; every `*_proofs.tla` is checked
the same way.

## 1. The system

Sensor nodes connect by TCP to the gateway and send records (id, value, time).
The gateway is one process of four threads:

    sensor nodes --TCP--> connection manager --> shared buffer --> data manager
                                   |                    \--------> storage manager --> SQLite
                                   +-- counters of waiting items, connmgr_working --^
    main: starts the threads, joins them, cleans up; handles SIGINT and SIGTERM
    log:  one file, one mutex, used by all four
    SQLite, log file --> REST service --HTTP--> dashboard and other pages

| component | state it keeps | operations | how it meets the others |
|---|---|---|---|
| shared buffer, `sensor_buffer.c` | linked list with head and tail, per node one read flag per reader, an rwlock | init, free, remove, insert | called by the connection manager (insert), both readers (remove), main (free) |
| main, `gateway_main.c` | the threads, two counters with mutex and condition variable, `connmgr_working` | start, join, clean up, `handle_signal` | creates, joins and cancels the others |
| connection manager, `connection_manager.c` | list of polled sockets, `list_size`, `index`, time stamps | the loop of `connmgr_listen` | inserts in the buffer, counts both counters up, broadcasts; on its end sets them to -1 |
| data manager, `data_manager.c` | list of sensors with a circular buffer and a mean each | read the map, parse, getters | waits on its counter, removes from the buffer, counts down |
| storage manager, `database_manager.c` | the SQLite connection | open, listen, insert, queries | the same; when the open fails it shuts the gateway down |
| logger, `logger.c` | log file, mutex | init, log, close | called by every thread and by the signal handler |
| pointer list, `lib/dplist.c` | doubly linked list | insert, remove, get by index, element or reference | under the connection and the data manager |
| TCP sockets, `lib/tcpsock.c` | socket with a magic cookie | open, close, accept, send, receive | under the connection manager and the node |
| sensor node, `node/sensor_client_node.c` | its value | send a record at a time | TCP |
| REST service, `API/app.py` | session cookies | login, queries on database and log, start a node | reads what the gateway writes |
| dashboard page, `web/js/dashboard.js` | room and period selected, cards, charts, displayed numbers, a timer | select, draw, update, redraw | calls the REST service, several requests at a time |
| log page, `web/js/admin.js` | page number, rows, a timer | turn pages, search, filter, refresh | the same |
| other pages, `web/js/` | none | login, logout, session test, theme | the same |

### What is hard in it, and what makes each part correct

* **Shared buffer.** The two readers race in `sbuffer_remove`: the emptiness
  test and the flag tests are outside the lock, the unlink is inside it and
  tests nothing. Correct would be: the list is always whole, memory is neither
  leaked nor used after free, each reader sees every item once and in order, an
  item leaves only after both have read it.
* **Threads.** An item is linked, then counted; read, then counted down. The
  counters must agree with the list up to what is under way, no wake-up may be
  missed, a shutdown must reach everybody, two mutexes are taken together. Main
  must not free what a thread still uses, with threads cancelled at any point.
* **Sockets and nodes.** A record is three sends and three receives on a stream
  that keeps no boundaries; a node may stop, and a connection break, between any
  two bytes. Correct would be: what is inserted is what was sent, every
  descriptor has one owner and is closed once, a turn of the loop ends.
* **Connection manager.** The index into a list that shrinks and grows under it,
  an index clamped silently by the list, two copies of the same poll record,
  time stamps of two clocks, receives that block or fail in the middle.
* **Data manager.** Uninitialised fields of copied elements, lines of the map
  longer than the buffer.
* **Storage.** A connection that one failed statement closes and later ones use;
  a database file that outlives the process and is read while it is written.
* **Logger.** A structure of the C library shared by all threads; a handler that
  logs on top of a main thread that logs; a mutex left by a cancelled thread.
* **Pages.** Every await lets clicks, timers and answers of other requests in;
  answers come out of order, and nothing is ever cancelled.

`PROJECT.json` ("hazards") lists them one by one, with line and property.

## 2. The modules

`Fanout` - the abstract buffer: items are published, taken by every reader in
order, and retired from the front. It does not promise that a retired item was
taken by all: the code does not keep that (section 3).

`SensorBuffer` - `sensor_buffer.c`, one action per lock operation, per unlocked
load of `buffer->head` and per unlocked flag test:

| actions | code |
|---|---|
| InsertAlloc, InsertLock, InsertFirst or InsertLink + InsertTail, InsertUnlock | `sbuffer_insert`, 112-144 |
| RemoveEmpty, RemoveEnter | the unlocked emptiness test, 66 |
| RdLock, ReadSkip*, ReadMark or ReadNone | `sbuffer_read` under the read lock, 68-70, 101-110 |
| Load, TestRead / TestUnread / TestNull | one turn of the unlocked loop, 74-76 |
| WrLock, Unlink, Free | 79-98 |

A node is named by the ordinal of its malloc, so a freed name never comes back;
that memory may be reused shows in `FlagValues`: the flag of a freed node reads
as either value, which includes what a node allocated at the same address would
show. `TestNull` is the dereference of a NULL head: the process is gone. `linked`,
`unlinked` and `overtaken` are history. There is one inserting thread, as in the
program; the readers may call whenever they like, which is more than they do.

`Gateway` - the process, EXTENDS `SensorBuffer` and schedules its actions inside
the threads: `loc` is the control point of each thread. A mutex-protected section
that can neither block nor be cancelled is one step (a reader's test of its
counter, its decrement, `log_message`); the sections that hold one mutex while
waiting for the next (`connmgr_update_threads`, `*_close_threads`) are split.
`pthread_cond_wait` is a location (`wait`), left by a broadcast or spuriously
(`woken`) and then by taking the mutex. `handle_signal` runs on main's stack, so
main stands still while it runs. A cancelled thread goes no further at its next
cancellation point (`AtCancel`, `CancelTaken`); in `pthread_cond_wait` it dies
with its mutex (`CancelInWait`), in the writes of `log_message` with the log's
(`LogCancelled`); inside the buffer there is no cancellation point.
`nomem` and `skipped` are history.

`ConnectionManager` - the loop of `connmgr_listen` with its list, and the sensors
and the clock as environment. One turn of the loop is one step: `Accept`,
`Receive`, `ReceiveFails`, `Quiet`, `PollEmpty`. `Turn` is the reset of the index,
`Polled` the clamped access; `RemoveSensor` closes the listening socket, as the
code does. The tests `revents == POLLIN` and `== POLLHUP` are equalities: what a
reset connection reports (both and POLLERR) is neither, and POLLHUP alone does
not occur on these sockets. `srvLast` and `last[SERVER]` are the two copies of
`last_modified`. After a removal, tcp_close on the pointer that is left dangling
finds no magic cookie (free overwrites the field, and no socket is allocated
afterwards), so it changes nothing. The number of the closed listening socket may
be given to a file that another thread opens (`FileOpens`, `FileCloses`); poll then
reports it as readable, and the loop tries to accept on it (`AcceptFails`).

In `Gateway` the connection manager's polls are nondeterministic (any number of
records, removals, and a shutdown at any time); `ConnectionManager` has the list
and abstracts from the other threads. Every step of the latter is a sequence of
steps the former allows.

`PointerList` - `dplist.c` on its linked nodes, one operator or action per
function, one step per call (a list belongs to one thread) and one per removal of
`dpl_free`. `Nth` is the walk along `next`; the four cases of the insertion and of
the removal have their names. A failing `assert` leads to the state "aborted".
Nodes come from a pool and are reused. The other modules use the list as a
sequence with clamped indices; `KeepsContract` is what entitles them to it.

`DataManager` - `data_manager.c` without its waiting loop (which is in `Gateway`):
`ReadPiece` is one turn of the loop on the map, `AddSensorData` the whole of
`datamgr_add_sensor_data`. A line of the map is a record of two numbers; what
`fgets` with eight bytes and `sscanf` make of it is computed from their digits
(`Behind`, `Overflows`). Numbers that `sscanf` does not find keep the value of the
turn before: `r_id` and `s_id` are never initialised, and without optimisation
they are the same two stack slots in every turn. What `sensor_copy` leaves out is
as malloc returned it (`Fresh`). An average is kept as its sum. Once a value is
written outside of a buffer the state is "wild", and nothing more is said.

`SensorLink` - the sensor node, both ends of its connection and one turn of the
receiving (`tcpsock.c`, `sensor_client_node.c`, `connmgr_listen` 252-270), byte by
byte. A record is three fields; `SendField` puts one on the stream, `Arrive` and
`Reset` cut and break it anywhere, `Begin` and `Receive` take what has arrived into
whatever field they are at. Descriptors are numbers with an owner:
opened, given out by accept, leaked where `tcp_close` returns before `close` (145)
or accept has no memory (177).

`Storage` - the storage thread and the database file over several starts of the
gateway: open, CREATE TABLE IF NOT EXISTS, the loop, what `sql_query` does when
a statement fails (it closes the connection, 201) and what the callers then do.
Clients of the REST service hold the file while they read, which makes a commit
at that moment fail; the file stays when the process ends anywhere. Records are
numbered; the storage thread has read those before `next`, the data manager those
before `dmNext`, at its own pace (`DataMgrReads`). `sbuffer_remove` finds the list
empty only when both have read everything: with nothing left for the storage thread
alone it returns SBUFFER_SUCCESS without data, and `insert_sensor` gets what the last
call left in `new_data` (pc "stale").

`Dashboard` - `dashboard.js`, one action per piece of JavaScript between two
awaits: `StartDraw` is what a selection does up to the first request, `DrawAnswer`
what one answer does up to the next, `Tick` and `UpdateAnswer` the same for an
update. `over` and `from` (in a drawing) are history: the drawings and the rooms
of the updates in progress when it began.

`MCPointerList`, `MCDataManager` - the same for TLC: symmetry, maps and memory.

`SensorBuffer_proofs`, `Gateway_proofs`, `ConnectionManager_proofs`,
`SensorLink_proofs`, `PointerList_proofs`, `DataManager_proofs`, `Storage_proofs` and
`Dashboard_proofs` - the inductive invariants and the theorems.

The components meet in these modules: `Gateway` extends `SensorBuffer` with all
threads; `ConnectionManager`, `SensorLink`, `Storage` and `DataManager` each open one
kind of step of `Gateway` up (a poll, a receive, a storage step, a record) and take
the others as environment; `Storage` has the clients of which `Dashboard` is one.

Definitions named `..._Mutant` are the plausible mistakes that each property was
tried against: every property is violated when the definition next to it is
replaced by its mutant.

## 3. The runs

| run | instance | shows |
|---|---|---|
| buffer | 3 items | list, memory, order and the exact conditions for loss and crash; `Fifo` is the refinement of `Fanout`; `IInv` is the invariant of the proofs |
| gateway | 2 items, no fault, no signal, fair | every item is read unless lost in the race, no missed wake-up (`Delivered`); the shutdown ends (`Stops`); no deadlock |
| gateway_failures | 2 items, every fault | counters agree with the list (`CountMatches`), no reader takes an item that is not there (`NoBlindRead`); `GInv` is the invariant of the proofs |
| gateway_signal | 1 item, 1 signal, fair | clean exit with cancelled threads; the process ends unless a mutex was abandoned |
| connections | 2 sensors, time-out 1, clock to 4, descriptors for 2 files, fair | list and sockets agree, who is served, who is accepted, when the loop ends |
| sensor_link | 2 nodes, 3 records of 1+2+1 bytes, 1 descriptor lost, fair | records whole unless a segment ended inside a field, descriptors owned once, a turn ends unless a node stalls inside a record |
| data_manager | 4 maps, 3 kinds of memory, averages over 3 | averages and warnings are those of the last values, ids and rooms are the map's, the total is that of the unique ids exactly if each is added once, writes stay inside |
| storage | 4 items, 2 starts, 2 clients, fair | the table is what was read, in order, up to the first failure; what the counter is off by; that the thread ends after one, once the data manager has caught up; clients see the table only grow |
| pointer_list | 5 nodes, 4 keys | links, contract and assertions under every sequence of calls; what a reference finds among equal elements and at the ends of the list |
| dashboard | 2 rooms of 2 sensors, 3 drawings, 1 update | everything displayed is explained, charts are accounted for, one timer exactly when wanted, numbers of the room |

Where a property carries an excuse, the excuse is the finding: `CountMatches` and
`NoBlindRead` stop at an item lost in the buffer's race (`overtaken`), a failed
malloc (`nomem`), a record skipped by the storage manager (`skipped`), and the
former also at the shutdown and at a cancelled reader; `ServedUntilOvershot` stops
when a time-out has moved the index past the list; `MeanOfLast` and `StaysInside`
say what holds although malloc's bytes are used; `RecordsWhole` stops at a segment
that ends inside a field; `EndsAfterFailure` says that after a failed INSERT the storage
thread ends if the data manager at last keeps the buffer empty, for as long as it does
not the thread runs round with an old record; `RoomsRight` and `ReferencesWork` say
exactly when a count is that of unique ids, and which reference finds its own node;
`ViewExplained` and `KpiRight` allow what was
in progress when the selection was made, `ChartsAccounted` a drawing of the same
room at the same time.

Bounds and why they suffice. Both readers look at the head and the node after
it: two items let a removal hit an unread node, three leave one behind it. One
signal: the handler's loop cancels all threads, a second one finds them
cancelled. One failed malloc (`nomem`). A time-out of one second against a clock
of three lets a sensor time out, and the server copy after it; two sensors give
a list with an element before and one behind the removed one. `IndexCap` stops
the index two beyond the list, where its value makes no difference any more. The
clock of a sensor is either right or so far behind that it looks silent (0); a
torn record can give any of the two. A buffer of three values has a first, an
inner and a last position; one map has each sensor once, one lists a sensor twice, one has a line that
just fits and one that is too long by the newline, one has a line that loses a
digit which is another sensor's. Five nodes give every case of the list an inner
neighbour on both sides; nodes and keys are only compared, so `MCPointerList`
permutes them. Two starts of the gateway let the second one find rows and a
table; two clients keep a commit from happening in every order of their reads.
Three drawings are the last one, one that was in progress when it began, and one
that was in progress when that one began and is over or not.

Deadlock is checked in buffer, gateway, connections, data_manager, pointer_list,
storage and dashboard. It is off in the gateway's runs with faults or signals and in
sensor_link, because the system really can hang there (`notify` and `Stalled` say
how).

Fairness. `GatewayFairSpec`: weak fairness of each thread's own steps, which is
the operating system's scheduling; the mutexes are modelled as taken in one step
by whoever is enabled, and no property needs strong fairness. Nothing is assumed
of the sensors: a receive may block for ever, and no poll need bring data. In
`ConnectionManager` the loop is fair, and a file that was opened is closed some day
(the journal of SQLite, the log); the sensors and the clock are not. `SensorLink`:
what was sent arrives or the connection breaks, and a receive with data returns;
no node need go on. `Storage`: the thread is fair, the clients need not give the
file back, and the data manager need not read. It may have ended (at an empty buffer,
`NoBlindRead`), so what depends on it is a premise of the property: `EndsAfterFailure`
assumes `<>[](dmNext > put)`, and without that TLC finds the loop that never ends.

### Where code and comments disagree

Each of these runs states what a comment says and is violated; `PROJECT.json`
("findings") has the line and the story.

| run | the comment | what happens |
|---|---|---|
| item_lost | "if both read it, remove" | the second of two racing removals drops the next node unread |
| notify | "notify the threads" | a counter is back at 0, a reader waits for ever |

Others have no run of their own; the properties above are stated so that they
say when each of them happens:

* `sensor_buffer.h` promises SBUFFER_NO_DATA for an empty buffer; in the race the
  code dereferences NULL (`CrashExplained`).
* "INSERT SENSOR ERROR - SKIPPED DATA": after it the storage thread stores nothing
  more. It ends at the next empty buffer; as long as the data manager still has items
  to read, `sbuffer_remove` succeeds without data and the thread goes round with an
  old record and a closed connection, for ever if the data manager has ended
  (`CountsUnstored`, `EndsAfterFailure`).
* "Stopping gracefully": hangs on a mutex left behind, or on its own
  (`StopsUnlessAbandoned`).
* New connections are taken at index 0, until the first removal closes the
  listening socket (`NotLeftQueued`).
* `data_manager.h` says that all data is in the list at the end; the data manager
  gives up at the first empty buffer (`NoBlindRead`).
* `connection_manager.c` resets the index when it equals the size; once it is past
  it only the last element is polled, and an emptied list crashes (`IndexInRange`,
  `ServedUntilOvershot`). Silence is judged by the time in the record, which is the
  sensor's own clock.
* `data_manager.h` says that the average is 0 with fewer than RUN_AVG_LENGTH
  values; it is if malloc returned zeros (`MeanOfLast`).
* `data_manager.h` (67) calls the result of `datamgr_get_total_sensors` the total of
  unique ids; it is the number of elements, and a sensor that the map lists twice, or
  whose line comes in two pieces, is two of them (`RoomsRight`).
* `dplist.h` (140-160) says that the reference next to the last node, and previous to
  the first, is NULL; the code clamps the index and returns the node itself
  (`ReferencesWork`).
* `dplist.h` says that a reference not in the list changes nothing and that the
  node referred to is removed; the code goes through the element, so it takes the
  first node that compares equal, or the first of the list if an element is
  not found (`ReferencesWork`, `KeepsContract`). The gateway calls none of these
  functions.
* An update that was started in real time may go on into the charts of another
  period of the same room, which `active` cannot tell from its own.
* `run_node` names a BASE_DIR that is not defined, so it always answers with an
  error.
* `logger.c` has a mutex for "thread-safe logging", but the time is converted
  before it is taken, into localtime's one structure for all threads: a line may
  get another call's time. And localtime has a lock of its own, which the handler
  may meet on top of main, as it may `log_mutex`.
* `admin.js`: the search text of the box goes with every request, the page number
  stays; the button to the next page is off only on the last page, not behind it.

## 4. The proofs

`SensorBuffer_proofs` proves, for every `MaxItems \in Nat`, each property the run
buffer checks: `TypeCorrect`, `ListStaysIntact`, `NothingLeaks`, `WalkStaysSafe`,
`ReadsInOrder`, `NothingLost`, `CrashNeedsRace`, `FlagsNeverReset`, and `ListIsFifo`
(every step of the list is a step of `Fanout` or a stutter). The only assumption
is that `MaxItems` is a natural number.

None of the properties is inductive alone. `IInv` adds:

* `LockInv` - who holds the lock is at the corresponding control point, and a
  writer is alone. Without it an unlink could come between two steps of an
  insert or under a walking reader.
* `ListInv` - the list is the interval from `unlinked + 1` to `linked`, but for the
  one link an insert may be in the middle of. It carries `ListIntact` through
  the states in which a writer is inside.
* `HeapInv` - a node is freed exactly when it was unlinked, but for the one in the
  hands of `Free`; `dummy` is still the head when it is unlinked.
* `ReadInv` - what a reader has read is a prefix, and a walking reader has
  everything behind it.
* `CheckInv` - a reader that was not overtaken tests the flags of one and the same
  head, so at its unlink all flags of the head are set. This is the argument for
  `NothingLost`, and it shows what the code relies on: that `buffer->head` does
  not change between lines 70 and 82.
* `CrashInv` - as long as nobody is overtaken, a reader that got a node still has
  a node at the head.

`NextIInv` has one step per action and under it one per conjunct. The theorems
follow from `IInv` by unfolding, the two action properties and the refinement
from `IInv` in both states of the step.

`Storage_proofs` proves, for any number of items, starts and clients, what the run
storage checks but for liveness: `TableIsPrefix` (`StoredPrefix`), `CounterIsUnstored`
(`CountsUnstored`) and `ClientsSeeGrowth` (`AnswersGrow`). Assumed is that the two
bounds are natural numbers. The properties speak of sets; `IInv` counts instead:

* `Shape` - the rows are those of earlier starts, some number b of them, and behind
  these the items of this start from its first one on, without a gap. Every step
  keeps b, a start makes all rows those of earlier starts.
* `Counts`, `Control` - with the connection open, as many are stored as were read;
  a commit only happens with an open connection, and a record left in `new_data` only
  meets a closed one: as long as the connection stands the counter is the number of
  items unread, and the thread goes to the buffer only if there is one for it. So a row is appended only
  behind its predecessor. This is the argument for `StoredPrefix`: the code never
  opens the connection again after a failure. If it did, items would be missing in
  the middle, and the proof would stop at `CommitStored`.
* `Closing` - a freed connection means that an item is missing or the thread is
  over, and one closed again means the former.
* `Shown` - who reads has been answered nothing better than what it reads now.

`StoredIsInterval` turns these numbers back into the sets of the properties.

`Dashboard_proofs` proves, for any set of rooms, any number of sensors and any
bounds on drawings and updates, the four properties of the run dashboard:
`ShownIsExplained`, `OneTimer`, `NumbersOfTheRoom` and `ChartsStayAccounted`. Assumed
is only that `NoRoom` is not a room and that the numbers are natural, the sensors of
a room at least one.
`IInv` adds to the first three:

* `DrawingsKnown` - a drawing in progress is the last one or was in progress when
  that one began. An answer appends a card of its drawing, so without this
  `ViewExplained` could not survive one.
* `UpdatesKnown` - the room of an update is the current one or was that of an update
  in progress then: the same for `KpiRight`.
* `TimerComes` - without a running timer, in real time and with the box checked, a
  real-time drawing is in progress, whose last answer starts the timer. It is
  the argument for the second half of `TimerRight`.
* `Current`, `OverBefore` - the last drawing is of what is selected, and the
  drawings it found in progress are older.

`AInv` is a second invariant on top of it, for the fourth property
(`ChartsStayAccounted`, `ChartsAccounted`): any two drawings that may be in progress
were so together, an active chart is of one of them and of its room, and a chart that
is not active gave way to another drawing's. The last part alone is the property; it
needs the other two because a drawing that puts its chart over another one must have
been in progress at the same time.

### The process

`Gateway_proofs`, for any numbers of items and signals and any set of faults.
`GatewayUsesBuffer` comes first: every step of the process is a step of `SensorBuffer`
or leaves its variables alone. So what is proved of the buffer holds inside the
process (`GatewayBufferIsSafe`), and so does the refinement of `Fanout`
(`GatewayBufferIsFifo`).

`CountersMatch`, `NoReaderReadsBlind` and `ExitIsClean` (the properties `CountMatches`,
`NoBlindRead`, `CleanExit`) follow from `GInv`, which adds to `IInv`:

* `Places`, `Inside` - every thread is at a point of its own code, and only a thread
  at the call is inside the buffer. Nobody is cancelled there, so an unlink is never
  left half done.
* `Joining` - what main has not created is unborn, what it has joined is over: main
  reaches its cleanup only when all have ended. This is the argument for
  `CleanExit`, and it holds however the threads ended.
* `CountInv` - as long as nothing failed: a reader that goes for an item has one in
  the list for itself, and while the process works its counter is what it has not yet
  read, less what is linked and not yet counted, plus what it has in hand.
  `NoBlindRead` needs the first half also after the shutdown has set the counters to
  -1, which is why the two halves are kept apart.
* `LinksUp` - a link leads to the next node, from a freed node too, so what
  `sbuffer_free` walks over is exactly the live list.

### The connection manager and its sockets

`ConnectionManager_proofs`, for any finite set of sensors: `ListStaysMatched`
(`ListMatches`) and `IndexStaysInRange` (`IndexInRange`). `CInv` adds to the former that
up to the first overshooting removal the list has an element: without it the index
could be in range of an empty list, and the poll of it would crash.

`SensorLink_proofs`, for any finite set of nodes, any records and widths of fields:
`DescriptorsStayOwned` (`DescriptorsOwned`) and `RecordsStayWhole` (`RecordsWhole`).
`LInv` has two parts:

* `Descriptors` - descriptors are at most as many as nodes and the listening socket,
  those of the living are different, and orphans are as many as their causes. The least free number
  is new, so no two sockets share one.
* `Streams` - where no segment ended inside a field, what has arrived ends at a field,
  and the next byte to be received is the first byte of the field the thread is at,
  or the stream is over. "The first byte of the field" is what makes the step
  inductive: three receives with no length check stay in step only as long as each
  finds its whole field.

### The pointer list

`PointerList_proofs`, for any finite set of nodes and any elements: `LinksStayWhole`
(`WellLinked`), `ReferencesFindTheirNodes` (`ReferencesWork`) and `ContractIsKept`
(`KeepsContract`, an action property). `PInv` says that a walk exists: a function from
the positions to the nodes that the links agree with. An insertion splices a node
into it, a removal drops one, whichever of the four cases it is (`Splice`, `Drop`); `Nth`,
which follows the links recursively, is then shown to be that walk (`WalkIsList`), and
`dpl_size` its length. The contract needs no more than the two walks, before and
after. A reference is used by way of its element (`Found`, `FoundAgain`): the search
returns the first position with an equal element, which is the node's own exactly if
none before it is equal. The rest of `ReferencesWork`, and the removal at a reference
(`RemoveAtReference`), follow from that without a premise on the elements.

### The data manager

`DataManager_proofs`, for any length of the running average that a `uint16_t` can hold
and is not 0, any values, maps and contents of fresh memory: `WritesStayInside`
(`StaysInside`), `AveragesAreRight` (`MeanOfLast`), `WarningsAreRight` (`WarnsRightly`,
an action property) and `MapIsRead` (`RoomsRight`). That the length fits is what the
code relies on: `buffer_position` is a `uint16_t` that is compared with it by equality,
and with a longer buffer it would wrap and never meet it. `DInv` adds:

* `Reading` - the pieces still to be read are the rest of those of the map, and the
  elements made so far are those of the pieces before, each with the ids of the line
  its piece belongs to, if no line loses a digit. A piece without numbers takes those
  of the turn before, which is why the two variables on the stack are in it.
  `Covers` says which line each piece belongs to, one to one exactly if every line is
  one piece; so the count of elements is that of ids exactly if, besides, no id is on
  two lines.
* `Buffers` - going back from the position, the slots hold the last values, newest
  first; the sum is of all slots once the average is taken. The new value goes over
  the oldest one, and with as many values as slots the slots are the values: the two
  sums are of the same numbers in another order (`SumMoves`).
* `Inside` - the position stays in the buffer unless it began outside.

### What the proofs rest on

Assumed are only the ASSUMEs of the modules: bounds are natural numbers, names are
different from the special values, the sets of sensors (in `ConnectionManager`), of
sensor nodes (in `SensorLink`) and of list nodes (in `PointerList`) are finite, and
the constants of `DataManager` have their C types. What is finite are the connections
one process can have and the nodes its memory can hold; the proofs need it to count
lists and descriptors.

Several lemmas are inductions: that a walk has a length, that the fold which defines
a sum does not depend on the order, that the pieces of a map cover its lines. They
are proved by the least counterexample (`LeastNat`, from the well-foundedness of < on
the numbers), or by giving the recursive function's values explicitly, since the
induction theorems of the library take an operator as parameter.

Only model-checked: liveness (`Delivered`, `Stops`, `StopsUnlessAbandoned`,
`ServedUntilOvershot`, `NotLeftQueued`, `EndsWhenIdle`, `TurnEnds` and
`EndsAfterFailure`), for the prover has no rules for fairness or ENABLED. The
violations of `RemovedOnlyWhenRead` and `Notified` are TLC's counterexamples. Every
other property of a run is a theorem.

## 5. Limits

* `log_message` is one step, two adjacent calls count as one, and localtime's own
  lock and structure are left out; so are the file and what a line says.
* A second signal while the handler runs, and cancelling a thread that was
  already joined, are left out.
* A data race on a flag or on `connmgr_working` is the choice of the old or the
  new value: these are single bytes, and the program is built without
  optimisation.
* In `ConnectionManager` only the number of the listening socket is reused, and a
  short read of a field is the torn record of `Receive`; `SensorLink` has all
  descriptors and all bytes, without list and time-outs.
* The sensor map has only lines of two numbers; blank lines and read errors are
  left out. A read error would keep the data manager in the loop of line 122 for
  ever.
* Lists are never NULL, references are in their list, and elements are copied in
  and freed with their node, which is all the gateway does.
* Values of the data manager are integers: what double arithmetic rounds is left out.
* Values, dates, titles and colours of the dashboard are left out.
* Rooms have the same number of sensors, one of each type.

Not modelled:

* `insert_sensor_from_file` and `find_sensor_*` of the storage manager, which
  nothing calls, and DROP TABLE, which the build switches off;
* sessions, the map and log routes of the REST service: lookups for one
  request that keep nothing between requests; `run_node` starts a process and
  forgets it;
* login form, session test and theme: one request or none, no state; the log page,
  whose race between answers is the dashboard's on one variable;
* the diagnosis script, which prints the state of files and ports once, and the
  build, which only gives the constants used here.

## 6. Plan

Done: all modules of section 2, and a theorem for every safety and action property of
the runs.

Next, proofs that would say more than the runs do:

1. `ConnectionManager`, `DataManager` and `Storage` as refinements of the steps that
   `Gateway` leaves open (section 2 says which; so far this is an argument, not a
   theorem), beginning with what a record does to the counters.
2. The safety half of the liveness properties: that a waiting reader's counter is 0
   only if nothing is there for it (`Delivered`), and that the shutdown, once begun,
   leaves no thread in a state that nobody wakes.
