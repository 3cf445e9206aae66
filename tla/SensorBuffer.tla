---------------------------- MODULE SensorBuffer ----------------------------
(***************************************************************************)
(* The shared buffer between the connection manager (the one thread that   *)
(* inserts) and the two reader threads, src/src/sensor_buffer.c, at the    *)
(* granularity at which its threads can interleave: every lock operation,  *)
(* every unlocked load of buffer->head and every unlocked load of a flag   *)
(* through that pointer is a step of its own.                              *)
(*                                                                         *)
(* A node is named by the ordinal of the malloc that returned it, so names *)
(* are never reused; address reuse shows as the arbitrary flag a reader    *)
(* may see when it follows a pointer to a freed node (Test).  The readers  *)
(* here are the most general client: they may call sbuffer_remove at any   *)
(* time.  Module Gateway restricts them to what the two threads do.        *)
(***************************************************************************)
EXTENDS Integers

CONSTANT MaxItems       \* how many nodes sbuffer_insert allocates (bound)

ASSUME MaxItemsAssumption == MaxItems \in Nat

NULL == 0
Node == 1..MaxItems
Addr == 0..MaxItems

\* sensor_buffer.h: THREAD_NR and the two values of READ_TH_ENUM.
THREAD_NR == 2
DATAMGR_THREAD == 0
DB_THREAD == 1
Readers == {DATAMGR_THREAD, DB_THREAD}

VARIABLES
    head, tail,     \* struct sbuffer
    next,           \* node -> the node its next field points to
    seen,           \* node -> the readers whose reader_threads[] flag is READ
    heap,           \* node -> whether its memory is "none", "live" or "freed"
    last,           \* the node malloc returned last
    rd, wr,         \* rwlock: the readers that hold it, whether a writer does
    wpc,            \* control point of sbuffer_insert (one inserting thread)
    pc,             \* reader -> control point of sbuffer_remove
    ptr,            \* reader -> the node pointer the current step works on
    idx,            \* reader -> the loop variable i
    got,            \* reader -> sbuffer_read stored something in *data
    res,            \* reader -> what its last call returned
    crashed         \* a NULL pointer was dereferenced: the process is gone

\* History of the list, and of the interleaving it depends on (no code).
VARIABLES
    linked,         \* how many nodes were linked in
    unlinked,       \* how many nodes were unlinked
    overtaken       \* some reader unlinked a node while the other one was
                    \* between its own read and the end of its call

listVars == <<head, tail, next, linked, unlinked>>
insVars  == <<last, wpc>>
sbVars   == <<head, tail, next, seen, heap, last, rd, wr, wpc, pc, ptr, idx,
              got, res, crashed, linked, unlinked, overtaken>>

Init ==
    /\ head = NULL
    /\ tail = NULL
    /\ next = [n \in Node |-> NULL]
    /\ seen = [n \in Node |-> {}]
    /\ heap = [n \in Node |-> "none"]
    /\ last = 0
    /\ rd = {}
    /\ wr = FALSE
    /\ wpc = "idle"
    /\ pc = [r \in Readers |-> "idle"]
    /\ ptr = [r \in Readers |-> NULL]
    /\ idx = [r \in Readers |-> 0]
    /\ got = [r \in Readers |-> FALSE]
    /\ res = [r \in Readers |-> "none"]
    /\ crashed = FALSE
    /\ linked = 0
    /\ unlinked = 0
    /\ overtaken = FALSE

-----------------------------------------------------------------------------
(* The rwlock: pthread_rwlock_wrlock waits for all, rdlock for a writer.   *)

WrLockFree_Mutant == ~wr
WrLockFree == ~wr /\ rd = {}

-----------------------------------------------------------------------------
(* sbuffer_insert.  A failing malloc returns before anything is touched.   *)

\* The node is allocated and filled before the lock is taken.
InsertAlloc ==
    /\ ~crashed
    /\ wpc = "idle"
    /\ last < MaxItems
    /\ last' = last + 1
    /\ heap' = [heap EXCEPT ![last + 1] = "live"]
    /\ next' = [next EXCEPT ![last + 1] = NULL]
    /\ seen' = [seen EXCEPT ![last + 1] = {}]
    /\ wpc' = "lock"
    /\ UNCHANGED <<head, tail, rd, wr, pc, ptr, idx, got, res, crashed,
                   linked, unlinked, overtaken>>

InsertLock ==
    /\ ~crashed
    /\ wpc = "lock"
    /\ WrLockFree
    /\ wr' = TRUE
    /\ wpc' = "link"
    /\ UNCHANGED <<listVars, seen, heap, last, rd, pc, ptr, idx, got, res,
                   crashed, overtaken>>

InsertFirst ==
    /\ ~crashed
    /\ wpc = "link"
    /\ tail = NULL
    /\ head' = last
    /\ tail' = last
    /\ linked' = linked + 1
    /\ wpc' = "unlock"
    /\ UNCHANGED <<next, seen, heap, last, rd, wr, pc, ptr, idx, got, res,
                   crashed, unlinked, overtaken>>

InsertLink ==
    /\ ~crashed
    /\ wpc = "link"
    /\ tail # NULL
    /\ next' = [next EXCEPT ![tail] = last]
    /\ linked' = linked + 1
    /\ wpc' = "tail"
    /\ UNCHANGED <<head, tail, seen, heap, last, rd, wr, pc, ptr, idx, got,
                   res, crashed, unlinked, overtaken>>

InsertTail ==
    /\ ~crashed
    /\ wpc = "tail"
    /\ tail' = last
    /\ wpc' = "unlock"
    /\ UNCHANGED <<head, next, seen, heap, last, rd, wr, pc, ptr, idx, got,
                   res, crashed, linked, unlinked, overtaken>>

InsertUnlock ==
    /\ ~crashed
    /\ wpc = "unlock"
    /\ wr' = FALSE
    /\ wpc' = "idle"
    /\ UNCHANGED <<listVars, seen, heap, last, rd, pc, ptr, idx, got, res,
                   crashed, overtaken>>

-----------------------------------------------------------------------------
(* sbuffer_remove(buffer, data, r).                                        *)

\* The emptiness test is made without the lock.
RemoveEmpty(r) ==
    /\ ~crashed
    /\ pc[r] = "idle"
    /\ head = NULL
    /\ res' = [res EXCEPT ![r] = "NO_DATA"]
    /\ got' = [got EXCEPT ![r] = FALSE]
    /\ UNCHANGED <<listVars, insVars, seen, heap, rd, wr, pc, ptr, idx,
                   crashed, overtaken>>

RemoveEnter(r) ==
    /\ ~crashed
    /\ pc[r] = "idle"
    /\ head # NULL
    /\ pc' = [pc EXCEPT ![r] = "rdlock"]
    /\ res' = [res EXCEPT ![r] = "none"]
    /\ got' = [got EXCEPT ![r] = FALSE]
    /\ UNCHANGED <<listVars, insVars, seen, heap, rd, wr, ptr, idx,
                   crashed, overtaken>>

ReadFrom_Mutant == tail
ReadFrom == head

RdLock(r) ==
    /\ ~crashed
    /\ pc[r] = "rdlock"
    /\ ~wr
    /\ rd' = rd \cup {r}
    /\ ptr' = [ptr EXCEPT ![r] = ReadFrom]
    /\ pc' = [pc EXCEPT ![r] = "read"]
    /\ UNCHANGED <<listVars, insVars, seen, heap, wr, idx, got, res,
                   crashed, overtaken>>

\* sbuffer_read calls itself on the next node.
ReadSkip(r) ==
    /\ ~crashed
    /\ pc[r] = "read"
    /\ ptr[r] # NULL
    /\ r \in seen[ptr[r]]
    /\ ptr' = [ptr EXCEPT ![r] = next[ptr[r]]]
    /\ UNCHANGED <<listVars, insVars, seen, heap, rd, wr, pc, idx, got, res,
                   crashed, overtaken>>

\* reader_threads[] of node n once r has read it.
Marked_Mutant(n, r) == {r}
Marked(n, r) == seen[n] \cup {r}

\* The first node unread by r is copied out and marked; the lock is released.
ReadMark(r) ==
    /\ ~crashed
    /\ pc[r] = "read"
    /\ ptr[r] # NULL
    /\ r \notin seen[ptr[r]]
    /\ seen' = [seen EXCEPT ![ptr[r]] = Marked(ptr[r], r)]
    /\ got' = [got EXCEPT ![r] = TRUE]
    /\ rd' = rd \ {r}
    /\ idx' = [idx EXCEPT ![r] = 0]
    /\ pc' = [pc EXCEPT ![r] = "load"]
    /\ UNCHANGED <<listVars, insVars, heap, wr, ptr, res, crashed, overtaken>>

\* sbuffer_read ran off the list: its SBUFFER_NO_DATA is ignored.
ReadNone(r) ==
    /\ ~crashed
    /\ pc[r] = "read"
    /\ ptr[r] = NULL
    /\ rd' = rd \ {r}
    /\ idx' = [idx EXCEPT ![r] = 0]
    /\ pc' = [pc EXCEPT ![r] = "load"]
    /\ UNCHANGED <<listVars, insVars, seen, heap, wr, ptr, got, res, crashed,
                   overtaken>>

\* (buffer->head)->reader_threads[i], unlocked: first the pointer ...
Loaded_Mutant == IF head = NULL THEN NULL ELSE next[head]
Loaded == head

Load(r) ==
    /\ ~crashed
    /\ pc[r] = "load"
    /\ ptr' = [ptr EXCEPT ![r] = Loaded]
    /\ pc' = [pc EXCEPT ![r] = "test"]
    /\ UNCHANGED <<listVars, insVars, seen, heap, rd, wr, idx, got, res,
                   crashed, overtaken>>

\* ... then the flag.  A freed node's memory, or what lies beyond the array,
\* may hold either value.
FlagValues(n, i) ==
    IF heap[n] = "live" /\ i < THREAD_NR THEN {i \in seen[n]} ELSE BOOLEAN

\* return SBUFFER_SUCCESS: the locals are gone.
Return(r) ==
    /\ pc' = [pc EXCEPT ![r] = "idle"]
    /\ res' = [res EXCEPT ![r] = "SUCCESS"]
    /\ ptr' = [ptr EXCEPT ![r] = NULL]
    /\ idx' = [idx EXCEPT ![r] = 0]

TestNull(r) ==
    /\ ~crashed
    /\ pc[r] = "test"
    /\ ptr[r] = NULL
    /\ crashed' = TRUE
    /\ UNCHANGED <<listVars, insVars, seen, heap, rd, wr, pc, ptr, idx, got,
                   res, overtaken>>

TestUnread(r) ==
    /\ ~crashed
    /\ pc[r] = "test"
    /\ ptr[r] # NULL
    /\ FALSE \in FlagValues(ptr[r], idx[r])
    /\ Return(r)
    /\ UNCHANGED <<listVars, insVars, seen, heap, rd, wr, got, crashed,
                   overtaken>>

\* The loop over the threads goes on after flag i.
MoreFlags_Mutant1(i) == i < THREAD_NR
MoreFlags_Mutant2(i) == FALSE
MoreFlags(i) == i + 1 < THREAD_NR

TestRead(r) ==
    /\ ~crashed
    /\ pc[r] = "test"
    /\ ptr[r] # NULL
    /\ TRUE \in FlagValues(ptr[r], idx[r])
    /\ idx' = [idx EXCEPT ![r] = @ + 1]
    /\ pc' = [pc EXCEPT ![r] = IF MoreFlags(idx[r]) THEN "load" ELSE "wrlock"]
    /\ UNCHANGED <<listVars, insVars, seen, heap, rd, wr, ptr, got, res,
                   crashed, overtaken>>

\* The write lock, and dummy = buffer->head.
Dummy_Mutant(r) == ptr[r]
Dummy(r) == head

WrLock(r) ==
    /\ ~crashed
    /\ pc[r] = "wrlock"
    /\ WrLockFree
    /\ wr' = TRUE
    /\ ptr' = [ptr EXCEPT ![r] = Dummy(r)]
    /\ pc' = [pc EXCEPT ![r] = "unlink"]
    /\ UNCHANGED <<listVars, insVars, seen, heap, rd, idx, got, res, crashed,
                   overtaken>>

\* Reader r has read but not yet finished: an unlink by the other overtakes it.
Checking(r) == pc[r] \in {"load", "test", "wrlock"}

\* The head is dropped whatever it is by now; on an empty list nothing moves.
NewHead_Mutant == IF head = tail THEN NULL ELSE tail
NewHead == IF head = tail THEN NULL ELSE next[head]
NewTail_Mutant == tail
NewTail == IF head = tail THEN NULL ELSE tail

Unlink(r) ==
    /\ ~crashed
    /\ pc[r] = "unlink"
    /\ head' = NewHead
    /\ tail' = NewTail
    /\ unlinked' = IF head = NULL THEN unlinked ELSE unlinked + 1
    /\ overtaken' = (overtaken \/ \E q \in Readers \ {r} : Checking(q))
    /\ pc' = [pc EXCEPT ![r] = "free"]
    /\ UNCHANGED <<next, linked, insVars, seen, heap, rd, wr, ptr, idx, got,
                   res, crashed>>

\* free(dummy) (free(NULL) does nothing), unlock, return.
Free(r) ==
    /\ ~crashed
    /\ pc[r] = "free"
    /\ heap' = [n \in Node |-> IF n = ptr[r] THEN "freed" ELSE heap[n]]
    /\ wr' = FALSE
    /\ Return(r)
    /\ UNCHANGED <<listVars, insVars, seen, rd, got, crashed, overtaken>>

-----------------------------------------------------------------------------
Insert ==
    \/ InsertAlloc \/ InsertLock \/ InsertFirst \/ InsertLink \/ InsertTail
    \/ InsertUnlock

\* sbuffer_remove after its call and until its return.
RemoveStep(r) ==
    \/ RdLock(r) \/ ReadSkip(r) \/ ReadMark(r) \/ ReadNone(r)
    \/ Load(r) \/ TestNull(r) \/ TestUnread(r) \/ TestRead(r)
    \/ WrLock(r) \/ Unlink(r) \/ Free(r)

Remove(r) == RemoveEmpty(r) \/ RemoveEnter(r) \/ RemoveStep(r)

\* After the crash no thread of the process runs.
Halted == crashed /\ UNCHANGED sbVars

Next == Insert \/ (\E r \in Readers : Remove(r)) \/ Halted

Spec == Init /\ [][Next]_sbVars

-----------------------------------------------------------------------------
(* What the code guarantees under every interleaving.                      *)

TypeOK ==
    /\ head \in Addr /\ tail \in Addr
    /\ next \in [Node -> Addr]
    /\ seen \in [Node -> SUBSET Readers]
    /\ heap \in [Node -> {"none", "live", "freed"}]
    /\ last \in Addr
    /\ rd \in SUBSET Readers /\ wr \in BOOLEAN
    /\ wpc \in {"idle", "lock", "link", "tail", "unlock"}
    /\ pc \in [Readers -> {"idle", "rdlock", "read", "load", "test", "wrlock",
                           "unlink", "free"}]
    /\ ptr \in [Readers -> Addr]
    /\ idx \in [Readers -> 0..THREAD_NR]
    /\ got \in [Readers -> BOOLEAN]
    /\ res \in [Readers -> {"none", "SUCCESS", "NO_DATA"}]
    /\ crashed \in BOOLEAN
    /\ linked \in Addr /\ unlinked \in Addr
    /\ overtaken \in BOOLEAN

InList == (unlinked + 1)..linked

\* Whoever holds the read lock, the list is whole: head and tail are both NULL
\* or both its ends, every link leads to the next live node, and the tail's
\* is NULL.  (sbuffer_insert, sbuffer_remove; also after an overtaken unlink.)
ListIntact ==
    ~wr => /\ head = (IF InList = {} THEN NULL ELSE unlinked + 1)
           /\ tail = (IF InList = {} THEN NULL ELSE linked)
           /\ \A n \in InList :
                /\ heap[n] = "live"
                /\ next[n] = (IF n = linked THEN NULL ELSE n + 1)

\* Every allocated node is in the list, on its way in, or freed exactly when
\* it was unlinked: sbuffer_remove neither leaks a node nor frees one that the
\* list still reaches, even when both readers decide to remove at once.
NoLeak ==
    ~wr => \A n \in 1..last :
             heap[n] = "live" <=> (n \in InList \/ (n = last /\ wpc = "lock"))

\* A reader walking the list under the read lock never stands on freed memory.
WalkIsSafe ==
    \A r \in Readers :
        pc[r] = "read" /\ ptr[r] # NULL => heap[ptr[r]] = "live"

\* In the list, what a reader has read is a prefix: items reach each reader in
\* insertion order (the search for the first unread node in sbuffer_read).
ReadPrefix ==
    \A r \in Readers : \A m \in InList :
        r \in seen[m] => \A n \in (unlinked + 1)..m : r \in seen[n]

Lost == {n \in 1..unlinked : seen[n] # Readers}

\* The comment "if both read it, remove": a node leaves the list only after
\* both readers have read it.  The code keeps this only as long as no reader
\* unlinks while the other is between its read and the end of its call.
NoLossUnlessOvertaken == ~overtaken => Lost = {}

\* The unconditional reading of the comments at sensor_buffer.c:73 and :81.
RemovedOnlyWhenRead == Lost = {}

\* A NULL head is dereferenced only by a reader that was overtaken, or that
\* entered with data in the list and found none when it came to read it.
CrashExplained ==
    crashed => overtaken \/ \E r \in Readers : pc[r] = "test" /\ ~got[r]

\* What reader r gains in a step: only as the holder of the read lock, by a call that
\* has read nothing before, on the oldest node of the list that r has not read.
Takes(r, n) ==
    /\ r \in rd /\ ~got[r] /\ got'[r]
    /\ n \in InList
    /\ \A m \in InList : m < n => r \in seen[m]

\* The flag of a node that is not freed never goes back to UNREAD, and no call of
\* sbuffer_remove skips a node or marks two: reader_threads[r] is set for one node a
\* call, the oldest unread one, under the read lock.  (That the other reader sets its
\* own flag of the same node at the same time must not lose either.)  It is not said
\* that every call which returns SBUFFER_SUCCESS has marked one: some have not.
FlagsOnlyGrow ==
    [][\A n \in Node : heap[n] = "live" =>
         /\ seen[n] \subseteq seen'[n]
         /\ \A r \in seen'[n] \ seen[n] : Takes(r, n)]_sbVars

-----------------------------------------------------------------------------
(* The abstract buffer this list implements.                               *)

F == INSTANCE Fanout WITH
        Readers <- Readers,
        MaxPublished <- MaxItems,
        published <- linked,
        retired <- unlinked,
        taken <- [r \in Readers |-> {n \in Node : r \in seen[n]}]

Fifo == F!Spec
=============================================================================
