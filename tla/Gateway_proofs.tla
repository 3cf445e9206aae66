--------------------------- MODULE Gateway_proofs ---------------------------
(***************************************************************************)
(* Proofs about Gateway, for any number of items and signals and any set   *)
(* of faults.  The process only uses the buffer the way module             *)
(* SensorBuffer allows, so that everything proved there holds in the       *)
(* process too; on top of that, the counters agree with the list, no       *)
(* reader takes an item that is not there, and main cleans up after the    *)
(* last use of the buffer.                                                 *)
(***************************************************************************)
EXTENDS Gateway, SensorBuffer_proofs, FiniteSetTheorems, WellFoundedInduction

-----------------------------------------------------------------------------
(* The inductive invariant, on top of IInv of the buffer.                  *)

\* GatewayTypeOK without the buffer's types, the Boolean variables apart.
Locs == {"boot", "unborn", "listen", "map", "open", "top", "poll", "recv", "insert",
         "updLock", "updCount", "updDb", "updData", "close", "clsLock", "clsCount",
         "clsDb", "clsData", "bye", "lock", "wait", "woken", "remove", "use", "count",
         "log", "spawn", "join", "done", "gone"}
Rets == {"none", "top", "insert", "done", "count", "close", "spawn", "bye"}

CtlTypes ==
    /\ loc \in [Threads -> Locs] /\ ret \in [Threads -> Rets]
    /\ k \in 1..4 /\ hk \in 1..4
    /\ cnt \in [Readers -> Int]
    /\ lock \in [Readers -> Workers \cup {NOBODY}]
    /\ logMutex \in Threads \cup {NOBODY}
    /\ conn \in {"none", "ok", "lost"}
    /\ hloc \in {"none", "log", "cancel"}
    /\ signals \in 0..MaxSignals
    /\ cancelled \subseteq Workers
    /\ proc \in {"run", "exit", "abort"}
    /\ released \subseteq Node

Flags == working \in BOOLEAN /\ nomem \in BOOLEAN /\ skipped \in BOOLEAN

\* Every thread is at a point of its own code, and a log entry leads it back.
Places ==
    /\ loc[CONNMGR] \in {"unborn", "listen", "top", "poll", "recv", "insert",
         "updLock", "updCount", "updDb", "updData", "close", "clsLock", "clsCount",
         "clsDb", "clsData", "bye", "log", "done", "gone"}
    /\ \A r \in Readers : loc[r] \in {"unborn", "map", "open", "top", "lock", "wait",
         "woken", "remove", "use", "count", "close", "clsLock", "clsCount", "clsDb",
         "clsData", "log", "done", "gone"}
    /\ loc[MAIN] \in {"boot", "spawn", "join", "bye", "log", "done"}
    /\ loc[CONNMGR] = "log" => ret[CONNMGR] \in {"top", "insert", "done"}
    /\ \A r \in Readers : loc[r] = "log" => ret[r] \in {"top", "count", "close"}
    /\ loc[MAIN] = "log" => ret[MAIN] \in {"spawn", "bye"}

\* Who is inside the buffer is at the call; who sets the counters to -1 has
\* lowered the flag before; only the cancelled are gone.
Inside ==
    /\ wpc # "idle" => loc[CONNMGR] = "insert"
    /\ \A r \in Readers : pc[r] # "idle" => loc[r] = "remove"
    /\ \A t \in Workers :
         loc[t] \in {"clsLock", "clsCount", "clsDb", "clsData"} => ~working
    /\ \A t \in Workers : loc[t] = "gone" => t \in cancelled

\* main has created threads[1..k-1], or joined them, and cleans up behind all.
Before(l) == loc[MAIN] = l \/ (loc[MAIN] = "log" /\ ret[MAIN] = l)

Joining ==
    /\ loc[MAIN] = "boot" \/ Before("spawn") =>
         \A i \in 1..3 : i >= k => loc[threads[i]] = "unborn"
    /\ loc[MAIN] = "boot" \/ (loc[MAIN] = "log" /\ ret[MAIN] = "spawn") => k = 1
    /\ loc[MAIN] = "join" => \A i \in 1..3 : i < k => Ended(threads[i])
    /\ Before("bye") \/ loc[MAIN] = "done" => \A t \in Workers : Ended(t)
    /\ proc = "exit" => loc[MAIN] = "done"

\* A link leads to the next node or nowhere, also from a freed node.
LinksUp == \A n \in Node : next[n] # NULL => next[n] = n + 1

-----------------------------------------------------------------------------
(* The counters.  A fault, or the race in the buffer, ends what can be     *)
(* said of them.                                                           *)

Fault(r) == overtaken \/ nomem \/ (r = DB_THREAD /\ skipped)

\* r has still to read, of what is in the counters, this many.
Surplus(r) == Cardinality(Unread(r)) - One(Uncounted)

BeforeRead(r) == loc[r] = "remove" /\ pc[r] \in {"idle", "rdlock", "read"}
AfterRead(r) ==
    \/ loc[r] = "remove" /\ pc[r] \notin {"idle", "rdlock", "read"}
    \/ loc[r] \in {"use", "count"}
    \/ loc[r] = "log" /\ ret[r] = "count"

\* A reader that goes for an item leaves one for itself in the list: Surplus
\* drops by its own read only.
CountInv(r) ==
    /\ res[r] # "NO_DATA"
    /\ AfterRead(r) => got[r]
    /\ Surplus(r) >= One(BeforeRead(r))
    /\ working /\ loc[r] # "gone" => cnt[r] = Surplus(r) + One(AfterRead(r))

Control == CtlTypes /\ Places /\ Inside /\ Joining

GInv ==
    /\ IInv /\ Flags /\ Control /\ LinksUp /\ CleanExit
    /\ \A r \in Readers : Fault(r) \/ CountInv(r)

-----------------------------------------------------------------------------
(* The process uses the buffer as module SensorBuffer says.                *)

\* A step of the gateway is a step of the buffer or leaves it alone.
LEMMA BufferStep == [GatewayNext]_vars => [Next]_sbVars
  <1> SUFFICES ASSUME [GatewayNext]_vars PROVE [Next]_sbVars
    OBVIOUS
  <1>1. CASE ConnInsert
    BY <1>1 DEF ConnInsert, Next
  <1>2. ASSUME NEW r \in Readers, ReaderRemove(r) PROVE Next
    BY <1>2 DEF ReaderRemove, Next
  <1>3. CASE UNCHANGED sbVars
    BY <1>3
  <1>4. ConnRuns => ConnInsert \/ UNCHANGED sbVars
    BY DEF ConnRuns, ConnOpen, ConnTop, PollNothing, Update, LockFirst, LockSecond,
       Broadcast, CloseThreads, StopWorking, ConnBye, Logs, LogMessage, LogCancelled,
       CancelTaken
  <1>5. \A r \in Readers : ReaderRuns(r) => ReaderRemove(r) \/ UNCHANGED sbVars
    BY DEF ReaderRuns, ReaderTop, ReaderLock, ReaderWoken, ReaderCount, Logs,
       LogMessage, LogCancelled, CancelTaken, CancelInWait
  <1>6. DataRuns => ReaderRuns(DATAMGR_THREAD) \/ UNCHANGED sbVars
    BY DEF DataRuns, MapRead, DataUse
  <1>7. DbRuns => ReaderRuns(DB_THREAD) \/ UNCHANGED sbVars
    BY DEF DbRuns, CloseThreads, StopWorking, LockFirst, LockSecond, Broadcast,
       DbOpen, DbUse, DbUseFails
  <1>8. MainRuns => UNCHANGED sbVars
    BY DEF MainRuns, MainBoot, MainSpawn, MainJoin, MainJoined, MainBye, Logs,
       LogMessage, LogCancelled, HandlerLog, HandlerCancel
  <1>9. Environment => UNCHANGED sbVars
    BY DEF Environment, ConnOpenFails, PollRemove, PollData, PollClose, Receive,
       ConnInsertFails, MapMissing, DbOpenFails, DbCreateFails, Signal, SpuriousWakeUp
  <1>10. Over \/ UNCHANGED vars => UNCHANGED sbVars
    BY DEF Over, vars
  <1> QED BY <1>1, <1>2, <1>3, <1>4, <1>5, <1>6, <1>7, <1>8, <1>9, <1>10
          DEF GatewayNext, Readers

\* Each behaviour of the gateway is one of the buffer: its theorems hold here too.
THEOREM GatewayUsesBuffer == GatewaySpec => Spec
  <1>1. GatewayInit => Init
    BY DEF GatewayInit
  <1> QED BY <1>1, BufferStep, PTL DEF GatewaySpec, Spec

-----------------------------------------------------------------------------
(* sbuffer_free.  Its walk is a recursive function: that there is one with *)
(* that equation, and what it is on the list, takes the induction on the   *)
(* natural numbers, in the form of the least element of a set.             *)

\* A set of numbers that has a member has a least one.
LEMMA LeastNat ==
    ASSUME NEW T, T \subseteq Nat, T # {}
    PROVE  \E x \in T : \A y \in T : x <= y
  <1> DEFINE R == OpToRel(<, Nat)
  <1>1. IsWellFoundedOn(R, Nat)
    BY NatLessThanWellFounded
  <1> HIDE DEF R
  <1>2. PICK x \in T : \A y \in T : ~ (<<y, x>> \in R)
    BY <1>1, WFMin
  <1>3. ASSUME NEW y \in T PROVE x <= y
    <2>1. x \in Nat /\ y \in Nat
      OBVIOUS
    <2>2. y < x => <<y, x>> \in R
      BY <2>1 DEF R, OpToRel
    <2> QED BY <1>2, <2>1, <2>2
  <1> QED BY <1>3

\* A step of the buffer keeps its chain in the order of insertion.
LEMMA LinksUpStep == ASSUME IInv, LinksUp, [Next]_sbVars PROVE LinksUp'
  <1> USE MaxItemsAssumption DEF LinksUp, NULL, Node, Addr, IInv, TypeOK
  <1>1. CASE InsertAlloc
    BY <1>1 DEF InsertAlloc
  <1>2. CASE InsertLink
    BY <1>2 DEF InsertLink, ListInv
  <1>3. CASE UNCHANGED next
    BY <1>3
  <1> QED BY <1>1, <1>2, <1>3 DEF Next, Insert, Remove, RemoveStep, InsertLock, InsertFirst,
       InsertTail, InsertUnlock, RemoveEmpty, RemoveEnter, RdLock, ReadSkip, ReadMark,
       ReadNone, Load, TestNull, TestUnread, TestRead, WrLock, Unlink, Free, Halted,
       sbVars, listVars

\* The walk is well defined, as links only lead up.
LEMMA ReachableDef ==
    ASSUME TypeOK, LinksUp
    PROVE  Reachable =
             [n \in Addr |-> IF n = NULL THEN {} ELSE {n} \cup Reachable[next[n]]]
  <1> USE MaxItemsAssumption DEF NULL, Node, Addr
  <1> DEFINE g == [n \in Addr |->
                    {m \in Node : n # NULL /\ n <= m /\ \A i \in n..m - 1 : next[i] # NULL}]
             G(n) == IF n = NULL THEN {} ELSE {n} \cup g[next[n]]
  <1>0. \A n \in Node : next[n] \in Addr
    BY DEF TypeOK
  <1>1. g = [n \in Addr |-> IF n = NULL THEN {} ELSE {n} \cup g[next[n]]]
    <2>1. g[NULL] = {}
      OBVIOUS
    <2>2. ASSUME NEW n \in Node PROVE g[n] = {n} \cup g[next[n]]
      <3>1. g[n] \subseteq Node /\ g[next[n]] \subseteq Node
        <4>1. \A a \in Addr : g[a] \subseteq Node
          OBVIOUS
        <4> HIDE DEF g
        <4> QED BY <4>1, <1>0
      <3>2. ASSUME NEW m \in Node PROVE m \in g[n] <=> m = n \/ m \in g[next[n]]
        <4>1. CASE next[n] = NULL
          BY <4>1, <2>1
        <4>2. CASE next[n] # NULL
          <5>1. next[n] = n + 1 /\ n + 1 \in Node
            BY <1>0, <4>2 DEF LinksUp
          <5>2. m \in g[n] <=> n <= m /\ \A i \in n..m - 1 : next[i] # NULL
            OBVIOUS
          <5>3. m \in g[n + 1] <=> n + 1 <= m /\ \A i \in n + 1..m - 1 : next[i] # NULL
            BY <5>1
          <5> QED BY <4>2, <5>1, <5>2, <5>3
        <4> QED BY <4>1, <4>2
      <3> QED BY <3>1, <3>2
    <2>3. \A n \in Addr : g[n] = G(n)
      <3> HIDE DEF g
      <3> QED BY <2>1, <2>2
    <2>4. g = [n \in Addr |-> g[n]]
      BY Zenon
    <2> HIDE DEF g
    <2> QED BY <2>3, <2>4
  <1>2. \E h : h = [n \in Addr |-> IF n = NULL THEN {} ELSE {n} \cup h[next[n]]]
    BY <1>1
  <1> QED BY <1>2, Zenon DEF Reachable

\* From any node of the list on, the walk gives back that node and all behind it.
LEMMA ReachableInList ==
    ASSUME TypeOK, ListInv, LinksUp
    PROVE  Reachable[head] = unlinked + 1..linked
  <1> USE MaxItemsAssumption DEF NULL, Node, Addr
  <1>0. /\ linked \in Addr /\ unlinked \in Addr /\ unlinked <= linked
        /\ \A n \in Node : unlinked < n /\ n < linked => next[n] = n + 1
        /\ \A n \in Node : linked <= n => next[n] = NULL
    BY DEF TypeOK, ListInv
  <1>1. /\ Reachable[NULL] = {}
        /\ \A n \in Node : Reachable[n] = {n} \cup Reachable[next[n]]
    BY ReachableDef
  <1> DEFINE T == {d \in Nat : /\ unlinked < linked - d
                               /\ Reachable[linked - d] # linked - d..linked}
  <1>2. T = {}
    <2> SUFFICES ASSUME T # {} PROVE FALSE
      OBVIOUS
    <2>1. PICK d \in T : \A e \in T : d <= e
      BY LeastNat
    <2> DEFINE n == linked - d
    <2>2. n \in Node /\ unlinked < n /\ d \in Nat
      BY <1>0
    <2>3. CASE d = 0
      <3>1. n = linked /\ next[n] = NULL
        BY <1>0, <2>2, <2>3
      <3>2. Reachable[n] = {n}
        BY <1>1, <2>2, <3>1
      <3>3. linked..linked = {linked}
        BY <1>0
      <3>4. Reachable[linked - d] # linked - d..linked /\ linked - d = linked
        BY <1>0, <2>1, <2>3
      <3> QED BY <3>1, <3>2, <3>3, <3>4
    <2>4. CASE d # 0
      <3>1. d - 1 \notin T /\ d - 1 \in Nat
        BY <2>1, <2>2, <2>4
      <3>2. Reachable[n + 1] = n + 1..linked
        <4>1. linked - (d - 1) = n + 1
          BY <1>0, <2>2
        <4> QED BY <3>1, <4>1, <2>2, <1>0
      <3>3. Reachable[n] = {n} \cup (n + 1..linked)
        BY <1>0, <1>1, <2>2, <2>4, <3>2
      <3>4. {n} \cup (n + 1..linked) = n..linked
        <4>1. n \in Int /\ linked \in Int /\ n <= linked
          BY <1>0, <2>2
        <4>2. \A x : x \in {n} \cup (n + 1..linked) <=> x \in n..linked
          BY <4>1
        <4> QED BY <4>2
      <3> QED BY <2>1, <3>3, <3>4
    <2> QED BY <2>3, <2>4
  <1>3. CASE unlinked = linked
    BY <1>0, <1>1, <1>3 DEF ListInv
  <1>4. CASE unlinked # linked
    <2>1. head = unlinked + 1 /\ unlinked < linked
      BY <1>0, <1>4 DEF ListInv
    <2>2. linked - (unlinked + 1) \notin T /\ linked - (unlinked + 1) \in Nat
      <3>1. linked - (unlinked + 1) \notin T
        BY <1>2
      <3>2. linked - (unlinked + 1) \in Nat
        BY <1>0, <2>1
      <3> QED BY <3>1, <3>2
    <2>3. linked - (linked - (unlinked + 1)) = unlinked + 1
      BY <1>0
    <2> QED BY <1>0, <2>1, <2>2, <2>3
  <1> QED BY <1>3, <1>4

\* With nobody inside the buffer, these are the live nodes.
LEMMA ReleasedIsLive ==
    ASSUME IInv, LinksUp, wpc = "idle", \A r \in Readers : pc[r] = "idle"
    PROVE  Reachable[head] = {n \in Node : heap[n] = "live"}
  <1> USE MaxItemsAssumption DEF NULL, Node, Addr
  <1>1. Reachable[head] = unlinked + 1..linked
    BY ReachableInList DEF IInv
  <1>2. linked \in Addr /\ unlinked \in Addr /\ last = linked
    BY DEF IInv, TypeOK, ListInv
  <1>3. ASSUME NEW n \in Node PROVE heap[n] = "live" <=> n \in unlinked + 1..linked
    BY <1>2 DEF IInv, HeapInv
  <1> QED BY <1>1, <1>2, <1>3

-----------------------------------------------------------------------------
(* The steps of GatewayNext again, in families that are proved alike.      *)

ConnMoves ==
    \/ ConnOpen \/ ConnTop \/ PollNothing \/ PollRemove \/ PollData \/ Receive
    \/ PollClose \/ ConnBye
Aborts == ConnOpenFails \/ MapMissing
Inserts == ConnInsert \/ ConnInsertFails
ReaderWaits(r) == ReaderTop(r) \/ ReaderLock(r) \/ SpuriousWakeUp(r) \/ ReaderWoken(r)
ReaderUses(r) ==
    \/ r = DATAMGR_THREAD /\ DataUse
    \/ r = DB_THREAD /\ (DbUse \/ DbUseFails)
    \/ ReaderCount(r)
ReaderStarts == MapRead \/ DbOpen \/ DbOpenFails \/ DbCreateFails
MainMoves == MainBoot \/ MainSpawn \/ MainJoin \/ MainJoined \/ MainBye
Cancels(t) == LogCancelled(t) \/ CancelTaken(t) \/ (t \in Readers /\ CancelInWait(t))
Handles == Signal \/ HandlerLog \/ HandlerCancel
Stays == Over \/ UNCHANGED vars

\* The actions of the gateway, by the thread that takes them.
LEMMA Families ==
    ASSUME [GatewayNext]_vars
    PROVE  \/ ConnMoves \/ Aborts \/ Inserts \/ Update
           \/ CloseThreads(CONNMGR) \/ CloseThreads(DB_THREAD)
           \/ \E r \in Readers : ReaderWaits(r) \/ ReaderRemove(r) \/ ReaderUses(r)
           \/ ReaderStarts \/ MainMoves
           \/ \E t \in Threads : LogMessage(t)
           \/ \E t \in Workers : Cancels(t)
           \/ Handles \/ Stays
  <1> USE DEF ConnMoves, Aborts, Inserts, ReaderWaits, ReaderUses, ReaderStarts, MainMoves,
          Cancels, Handles, Stays, Readers, Workers, Threads
  <1>1. CASE ConnRuns
    BY <1>1 DEF ConnRuns, Logs
  <1>2. CASE DataRuns
    BY <1>2 DEF DataRuns, ReaderRuns, Logs
  <1>3. CASE DbRuns
    BY <1>3 DEF DbRuns, ReaderRuns, Logs
  <1>4. CASE MainRuns
    BY <1>4 DEF MainRuns, Logs
  <1>5. CASE Environment
    BY <1>5 DEF Environment
  <1>6. CASE Over \/ UNCHANGED vars
    BY <1>6
  <1> QED BY <1>1, <1>2, <1>3, <1>4, <1>5, <1>6 DEF GatewayNext

\* The connection manager's own moves.
LEMMA ConnMovesControl ==
    ASSUME TypeOK, IInv', Control, ConnMoves
    PROVE  Control'
  <1> USE GatewayAssumption DEF Control, ConnMoves, ConnOpen, ConnTop, PollNothing,
          PollRemove, PollData, Receive, PollClose, ConnBye, At, AtCancel, Goto,
          GotoLogged, Alive, mainVars, dataVars, mutexVars, Workers, Threads, Readers,
          CONNMGR, MAIN, NOBODY, DATAMGR_THREAD, DB_THREAD
  <1>1. CtlTypes'
    <2>1. loc' \in [Threads -> Locs]
      BY DEF CtlTypes, Locs
    <2>2. ret' \in [Threads -> Rets]
      BY DEF CtlTypes, Rets
    <2> QED BY <2>1, <2>2 DEF CtlTypes
  <1>2. Places'
    BY DEF CtlTypes, Places
  <1>3. Inside'
    BY DEF CtlTypes, Places, Inside, sbVars
  <1>4. Joining'
    BY DEF CtlTypes, Places, Inside, Joining, Before, Ended, threads
  <1> QED BY <1>1, <1>2, <1>3, <1>4

\* A start that fails ends the process.
LEMMA AbortsControl ==
    ASSUME TypeOK, IInv', Control, Aborts
    PROVE  Control'
  <1> USE GatewayAssumption DEF Control, Aborts, ConnOpenFails, MapMissing, At,
          AtCancel, Goto, GotoLogged, Alive, mainVars, dataVars, mutexVars, Workers,
          Threads, Readers, CONNMGR, MAIN, NOBODY, DATAMGR_THREAD, DB_THREAD
  <1>1. CtlTypes'
    <2>1. loc' \in [Threads -> Locs]
      BY DEF CtlTypes, Locs
    <2>2. ret' \in [Threads -> Rets]
      BY DEF CtlTypes, Rets
    <2> QED BY <2>1, <2>2 DEF CtlTypes
  <1>2. Places'
    BY DEF CtlTypes, Places
  <1>3. Inside'
    BY DEF CtlTypes, Places, Inside, sbVars
  <1>4. Joining'
    BY DEF CtlTypes, Places, Inside, Joining, Before, Ended, threads
  <1> QED BY <1>1, <1>2, <1>3, <1>4

\* sbuffer_insert, and its failing malloc.
LEMMA InsertsControl ==
    ASSUME TypeOK, IInv', Control, Inserts
    PROVE  Control'
  <1> USE GatewayAssumption DEF Control, Inserts, ConnInsert, ConnInsertFails, Insert,
          InsertAlloc, InsertLock, InsertFirst, InsertLink, InsertTail, InsertUnlock,
          insVars, listVars, At, AtCancel, Goto, GotoLogged, Alive, mainVars, dataVars,
          mutexVars, Workers, Threads, Readers, CONNMGR, MAIN, NOBODY, DATAMGR_THREAD,
          DB_THREAD
  <1>1. CtlTypes'
    <2>1. loc' \in [Threads -> Locs]
      BY DEF CtlTypes, Locs
    <2>2. ret' \in [Threads -> Rets]
      BY DEF CtlTypes, Rets
    <2> QED BY <2>1, <2>2 DEF CtlTypes
  <1>2. Places'
    BY DEF CtlTypes, Places
  <1>3. Inside'
    BY DEF CtlTypes, Places, Inside, sbVars
  <1>4. Joining'
    BY DEF CtlTypes, Places, Inside, Joining, Before, Ended, threads
  <1> QED BY <1>1, <1>2, <1>3, <1>4

\* connmgr_update_threads.
LEMMA UpdatesControl ==
    ASSUME TypeOK, IInv', Control, Update
    PROVE  Control'
  <1> USE GatewayAssumption DEF Control, Update, LockFirst, LockSecond, Broadcast,
          WakeUp, Incremented, At, AtCancel, Goto, GotoLogged, Alive, mainVars,
          dataVars, mutexVars, Workers, Threads, Readers, CONNMGR, MAIN, NOBODY,
          DATAMGR_THREAD, DB_THREAD
  <1>1. CtlTypes'
    <2>1. loc' \in [Threads -> Locs]
      BY DEF CtlTypes, Locs
    <2>2. ret' \in [Threads -> Rets]
      BY DEF CtlTypes, Rets
    <2>3. cnt' \in [Readers -> Int]
      BY DEF CtlTypes
    <2>4. /\ lock' \in [Readers -> Workers \cup {NOBODY}]
          /\ logMutex' \in Threads \cup {NOBODY}
      BY DEF CtlTypes
    <2> QED BY <2>1, <2>2, <2>3, <2>4 DEF CtlTypes
  <1>2. Places'
    BY DEF CtlTypes, Places
  <1>3. Inside'
    BY DEF CtlTypes, Places, Inside, sbVars
  <1>4. Joining'
    BY DEF CtlTypes, Places, Inside, Joining, Before, Ended, threads
  <1> QED BY <1>1, <1>2, <1>3, <1>4

\* connmgr_close_threads and sensor_close_threads.
LEMMA ClosesControl ==
    ASSUME TypeOK, IInv', Control, NEW t \in {CONNMGR, DB_THREAD}, CloseThreads(t)
    PROVE  Control'
  <1> USE GatewayAssumption DEF Control, CloseThreads, StopWorking, LockFirst,
          LockSecond, Broadcast, WakeUp, Closed, At, AtCancel, Goto, GotoLogged, Alive,
          mainVars, dataVars, mutexVars, Workers, Threads, Readers, CONNMGR, MAIN,
          NOBODY, DATAMGR_THREAD, DB_THREAD
  <1>1. CtlTypes'
    <2>1. loc' \in [Threads -> Locs]
      BY DEF CtlTypes, Locs
    <2>2. ret' \in [Threads -> Rets]
      BY DEF CtlTypes, Rets
    <2>3. cnt' \in [Readers -> Int]
      BY DEF CtlTypes
    <2>4. /\ lock' \in [Readers -> Workers \cup {NOBODY}]
          /\ logMutex' \in Threads \cup {NOBODY}
      BY DEF CtlTypes
    <2> QED BY <2>1, <2>2, <2>3, <2>4 DEF CtlTypes
  <1>2. Places'
    BY DEF CtlTypes, Places
  <1>3. Inside'
    BY DEF CtlTypes, Places, Inside, sbVars
  <1>4. Joining'
    BY DEF CtlTypes, Places, Inside, Joining, Before, Ended, threads
  <1> QED BY <1>1, <1>2, <1>3, <1>4

\* The readers' loop test and their wait.
LEMMA ReaderWaitsControl ==
    ASSUME TypeOK, IInv', Control, NEW r \in Readers, ReaderWaits(r)
    PROVE  Control'
  <1> USE GatewayAssumption DEF Control, ReaderWaits, ReaderTop, ReaderLock,
          SpuriousWakeUp, ReaderWoken, Decided, Rechecked, At, AtCancel, Goto,
          GotoLogged, Alive, mainVars, dataVars, mutexVars, Workers, Threads, Readers,
          CONNMGR, MAIN, NOBODY, DATAMGR_THREAD, DB_THREAD
  <1>1. CtlTypes'
    <2>1. loc' \in [Threads -> Locs]
      BY DEF CtlTypes, Locs
    <2>2. ret' \in [Threads -> Rets]
      BY DEF CtlTypes, Rets
    <2> QED BY <2>1, <2>2 DEF CtlTypes
  <1>2. Places'
    BY DEF CtlTypes, Places
  <1>3. Inside'
    BY DEF CtlTypes, Places, Inside, sbVars
  <1>4. Joining'
    BY DEF CtlTypes, Places, Inside, Joining, Before, Ended, threads
  <1> QED BY <1>1, <1>2, <1>3, <1>4

\* sbuffer_remove: only its own reader moves, and stays at the call until it returns.
LEMMA ReaderRemovesControl ==
    ASSUME TypeOK, IInv', Control, NEW r \in Readers, ReaderRemove(r)
    PROVE  Control'
  <1> USE GatewayAssumption DEF Control, ReaderRemove, Remove, RemoveEmpty, RemoveEnter,
          RemoveStep, RdLock, ReadSkip, ReadMark, ReadNone, Load, TestNull, TestUnread,
          TestRead, WrLock, Unlink, Free, Return, insVars, listVars, At, AtCancel, Goto,
          GotoLogged, Alive, mainVars, dataVars, mutexVars, Workers, Threads, Readers,
          CONNMGR, MAIN, NOBODY, DATAMGR_THREAD, DB_THREAD
  <1>1. CtlTypes'
    <2>1. loc' \in [Threads -> Locs]
      BY DEF CtlTypes, Locs
    <2>2. ret' \in [Threads -> Rets]
      BY DEF CtlTypes, Rets
    <2> QED BY <2>1, <2>2 DEF CtlTypes
  <1>2. Places'
    BY DEF CtlTypes, Places
  <1>3. Inside'
    <2>1. /\ wpc' = wpc /\ \A q \in Readers \ {r} : pc'[q] = pc[q]
          /\ loc[r] = "remove" /\ loc'[r] \in {"remove", "use", "done"}
          /\ pc'[r] # "idle" => loc'[r] = "remove"
          /\ \A t \in Workers \ {r} : loc'[t] = loc[t]
      BY DEF TypeOK, CtlTypes
    <2> QED BY <2>1 DEF Inside
  <1>4. Joining'
    BY DEF CtlTypes, Places, Inside, Joining, Before, Ended, threads
  <1> QED BY <1>1, <1>2, <1>3, <1>4

\* What a reader does with an item, and the decrement.
LEMMA ReaderUsesControl ==
    ASSUME TypeOK, IInv', Control, NEW r \in Readers, ReaderUses(r)
    PROVE  Control'
  <1> USE GatewayAssumption DEF Control, ReaderUses, DataUse, DbUse, DbUseFails,
          ReaderCount, At, AtCancel, Goto, GotoLogged, Alive, mainVars, dataVars,
          mutexVars, Workers, Threads, Readers, CONNMGR, MAIN, NOBODY, DATAMGR_THREAD,
          DB_THREAD
  <1>1. CtlTypes'
    <2>1. loc' \in [Threads -> Locs]
      BY DEF CtlTypes, Locs
    <2>2. ret' \in [Threads -> Rets]
      BY DEF CtlTypes, Rets
    <2>3. cnt' \in [Readers -> Int]
      BY DEF CtlTypes
    <2>4. /\ lock' \in [Readers -> Workers \cup {NOBODY}]
          /\ logMutex' \in Threads \cup {NOBODY}
      BY DEF CtlTypes
    <2> QED BY <2>1, <2>2, <2>3, <2>4 DEF CtlTypes
  <1>2. Places'
    BY DEF CtlTypes, Places
  <1>3. Inside'
    BY DEF CtlTypes, Places, Inside, sbVars
  <1>4. Joining'
    BY DEF CtlTypes, Places, Inside, Joining, Before, Ended, threads
  <1> QED BY <1>1, <1>2, <1>3, <1>4

\* The readers' starts.
LEMMA ReaderStartsControl ==
    ASSUME TypeOK, IInv', Control, ReaderStarts
    PROVE  Control'
  <1> USE GatewayAssumption DEF Control, ReaderStarts, MapRead, DbOpen, DbOpenFails,
          DbCreateFails, At, AtCancel, Goto, GotoLogged, Alive, mainVars, dataVars,
          mutexVars, Workers, Threads, Readers, CONNMGR, MAIN, NOBODY, DATAMGR_THREAD,
          DB_THREAD
  <1>1. CtlTypes'
    <2>1. loc' \in [Threads -> Locs]
      BY DEF CtlTypes, Locs
    <2>2. ret' \in [Threads -> Rets]
      BY DEF CtlTypes, Rets
    <2> QED BY <2>1, <2>2 DEF CtlTypes
  <1>2. Places'
    BY DEF CtlTypes, Places
  <1>3. Inside'
    BY DEF CtlTypes, Places, Inside, sbVars
  <1>4. Joining'
    BY DEF CtlTypes, Places, Inside, Joining, Before, Ended, threads
  <1> QED BY <1>1, <1>2, <1>3, <1>4

\* main: the spawned are those before k, and so are the joined.
LEMMA MainMovesControl ==
    ASSUME IInv, IInv', LinksUp, Control, MainMoves
    PROVE  Control'
  <1> USE GatewayAssumption DEF Control, MainMoves, MainBoot, MainSpawn, MainJoin,
          MainJoined, MainBye, MoreToJoin, MAIN_PROCESS_THREAD_NR, threads, FirstLoc,
          Ended, At, AtCancel, Goto, GotoLogged, Alive, mainVars, dataVars, mutexVars,
          Workers, Threads, Readers, CONNMGR, MAIN, NOBODY, DATAMGR_THREAD, DB_THREAD
  <1>1. CtlTypes'
    <2>1. loc' \in [Threads -> Locs]
      BY DEF CtlTypes, Locs
    <2>2. ret' \in [Threads -> Rets]
      BY DEF CtlTypes, Rets
    <2>3. /\ k' \in 1..4 /\ hk' \in 1..4
          /\ conn' \in {"none", "ok", "lost"}
          /\ hloc' \in {"none", "log", "cancel"}
          /\ signals' \in 0..MaxSignals
          /\ proc' \in {"run", "exit", "abort"}
      BY DEF CtlTypes
    <2>4. cnt' \in [Readers -> Int]
      BY DEF CtlTypes
    <2>5. /\ lock' \in [Readers -> Workers \cup {NOBODY}] /\ logMutex' \in Threads \cup {NOBODY}
      BY DEF CtlTypes
    <2>6. cancelled' \subseteq Workers
      BY DEF CtlTypes
    <2>7. released' \subseteq Node
      <3>1. CASE MainBye
        <4>1. \A t \in Workers : loc[t] # "insert" /\ loc[t] # "remove"
          BY <3>1 DEF Joining, Before, Ended
        <4>2. wpc = "idle" /\ \A r \in Readers : pc[r] = "idle"
          BY <4>1 DEF Inside
        <4>3. released' = {n \in Node : heap[n] = "live"}
          BY <3>1, <4>2, ReleasedIsLive DEF Readers, MainBye
        <4> QED BY <4>3
      <3>2. CASE ~MainBye
        BY <3>2 DEF CtlTypes
      <3> QED BY <3>1, <3>2
    <2> QED BY <2>1, <2>2, <2>3, <2>4, <2>5, <2>6, <2>7 DEF CtlTypes
  <1>2. Places'
    BY DEF CtlTypes, Places
  <1>3. Inside'
    BY DEF CtlTypes, Places, Inside, Joining, Before, sbVars
  <1>4. Joining'
    BY DEF CtlTypes, Places, Inside, Joining, Before, Ended, threads
  <1> QED BY <1>1, <1>2, <1>3, <1>4

\* log_message.
LEMMA LogsControl ==
    ASSUME TypeOK, IInv', Control, NEW t \in Threads, LogMessage(t)
    PROVE  Control'
  <1> USE GatewayAssumption DEF Control, LogMessage, At, AtCancel, Goto, GotoLogged,
          Alive, mainVars, dataVars, mutexVars, Workers, Threads, Readers, CONNMGR,
          MAIN, NOBODY, DATAMGR_THREAD, DB_THREAD
  <1>1. CtlTypes'
    <2>1. loc' \in [Threads -> Locs]
      BY DEF CtlTypes, Places, Locs, Rets
    <2>2. ret' \in [Threads -> Rets]
      BY DEF CtlTypes, Rets
    <2> QED BY <2>1, <2>2 DEF CtlTypes
  <1>2. Places'
    BY DEF CtlTypes, Places
  <1>3. Inside'
    BY DEF CtlTypes, Places, Inside, sbVars
  <1>4. Joining'
    BY DEF CtlTypes, Places, Inside, Joining, Before, Ended, threads
  <1> QED BY <1>1, <1>2, <1>3, <1>4

\* A cancelled thread ends.
LEMMA CancelsControl ==
    ASSUME TypeOK, IInv', Control, NEW t \in Workers, Cancels(t)
    PROVE  Control'
  <1> USE GatewayAssumption DEF Control, Cancels, LogCancelled, CancelTaken,
          CancelInWait, At, AtCancel, Goto, GotoLogged, Alive, mainVars, dataVars,
          mutexVars, Workers, Threads, Readers, CONNMGR, MAIN, NOBODY, DATAMGR_THREAD,
          DB_THREAD
  <1>1. CtlTypes'
    <2>1. loc' \in [Threads -> Locs]
      BY DEF CtlTypes, Locs
    <2>2. ret' \in [Threads -> Rets]
      BY DEF CtlTypes, Rets
    <2>3. cnt' \in [Readers -> Int]
      BY DEF CtlTypes
    <2>4. /\ lock' \in [Readers -> Workers \cup {NOBODY}]
          /\ logMutex' \in Threads \cup {NOBODY}
      BY DEF CtlTypes
    <2> QED BY <2>1, <2>2, <2>3, <2>4 DEF CtlTypes
  <1>2. Places'
    BY DEF CtlTypes, Places
  <1>3. Inside'
    BY DEF CtlTypes, Places, Inside, sbVars
  <1>4. Joining'
    BY DEF CtlTypes, Places, Inside, Joining, Before, Ended, threads
  <1> QED BY <1>1, <1>2, <1>3, <1>4

\* handle_signal.
LEMMA HandlesControl ==
    ASSUME TypeOK, IInv', Control, Handles
    PROVE  Control'
  <1> USE GatewayAssumption DEF Control, Handles, Signal, HandlerLog, HandlerCancel,
          MoreToCancel, MAIN_PROCESS_THREAD_NR, threads, At, AtCancel, Goto, GotoLogged,
          Alive, mainVars, dataVars, mutexVars, Workers, Threads, Readers, CONNMGR,
          MAIN, NOBODY, DATAMGR_THREAD, DB_THREAD
  <1>1. CtlTypes'
    <2>1. loc' \in [Threads -> Locs]
      BY DEF CtlTypes, Locs
    <2>2. ret' \in [Threads -> Rets]
      BY DEF CtlTypes, Rets
    <2>3. /\ k' \in 1..4 /\ hk' \in 1..4
          /\ conn' \in {"none", "ok", "lost"}
          /\ hloc' \in {"none", "log", "cancel"}
          /\ signals' \in 0..MaxSignals
          /\ proc' \in {"run", "exit", "abort"}
      BY DEF CtlTypes
    <2>4. cnt' \in [Readers -> Int]
      BY DEF CtlTypes
    <2>5. /\ lock' \in [Readers -> Workers \cup {NOBODY}] /\ logMutex' \in Threads \cup {NOBODY}
      BY DEF CtlTypes
    <2>6. cancelled' \subseteq Workers /\ released' \subseteq Node
      <3>1. hk \in 1..3 => threads[hk] \in Workers
        OBVIOUS
      <3>2. cancelled' = cancelled \/ (hk \in 1..3 /\ cancelled' = cancelled \cup {threads[hk]})
        BY DEF CtlTypes
      <3>3. cancelled' \subseteq Workers
        <4> HIDE DEF threads, Workers
        <4> QED BY <3>1, <3>2 DEF CtlTypes
      <3> QED BY <3>3 DEF CtlTypes
    <2> QED BY <2>1, <2>2, <2>3, <2>4, <2>5, <2>6 DEF CtlTypes
  <1>2. Places'
    BY DEF CtlTypes, Places
  <1>3. Inside'
    BY DEF CtlTypes, Places, Inside, sbVars
  <1>4. Joining'
    BY DEF CtlTypes, Places, Inside, Joining, Before, Ended, threads
  <1> QED BY <1>1, <1>2, <1>3, <1>4

\* A step of the process leaves every thread where its code says.
LEMMA ControlStep ==
    ASSUME IInv, LinksUp, Control, [GatewayNext]_vars
    PROVE  Control'
  <1>1. IInv'
    BY BufferStep, NextIInv
  <1>2. TypeOK
    BY DEF IInv
  <1>3. CASE Stays
    <2>1. UNCHANGED vars
      BY <1>3 DEF Stays, Over
    <2> QED BY <2>1 DEF Control, CtlTypes, Places, Inside, Joining, Before, Ended, vars,
                        ctlVars, sbVars
  <1> USE <1>1, <1>2
  <1>4. \A t \in {CONNMGR, DB_THREAD} : CloseThreads(t) => Control'
    BY ClosesControl
  <1>5. \A r \in Readers : ReaderWaits(r) \/ ReaderRemove(r) \/ ReaderUses(r) => Control'
    BY ReaderWaitsControl, ReaderRemovesControl, ReaderUsesControl
  <1>6. \A t \in Threads : LogMessage(t) => Control'
    BY LogsControl
  <1>7. \A t \in Workers : Cancels(t) => Control'
    BY CancelsControl
  <1>8. ConnMoves \/ Aborts \/ Inserts \/ Update \/ ReaderStarts \/ MainMoves \/ Handles
        => Control'
    BY ConnMovesControl, AbortsControl, InsertsControl, UpdatesControl,
       ReaderStartsControl, MainMovesControl, HandlesControl
  <1> QED BY <1>3, <1>4, <1>5, <1>6, <1>7, <1>8, Families

\* connmgr_working is only ever lowered, the histories are only raised.
LEMMA FlagsMove ==
    ASSUME [GatewayNext]_vars
    PROVE  /\ working' = working \/ working' = FALSE
           /\ nomem' = nomem \/ nomem' = TRUE
           /\ skipped' = skipped \/ skipped' = TRUE
  <1> USE DEF dataVars
  <1>1. CASE ConnMoves \/ Aborts \/ Inserts
    BY <1>1, Zenon DEF ConnMoves, Aborts, Inserts, ConnOpen, ConnTop, PollNothing, PollRemove,
       PollData, Receive, PollClose, ConnBye, ConnOpenFails, MapMissing, ConnInsert,
       ConnInsertFails
  <1>2. CASE Update \/ CloseThreads(CONNMGR) \/ CloseThreads(DB_THREAD)
    BY <1>2, Zenon DEF Update, CloseThreads, StopWorking, LockFirst, LockSecond, Broadcast
  <1>3. ASSUME NEW r \in Readers, ReaderWaits(r) \/ ReaderRemove(r) \/ ReaderUses(r)
        PROVE  /\ working' = working \/ working' = FALSE
               /\ nomem' = nomem \/ nomem' = TRUE
               /\ skipped' = skipped \/ skipped' = TRUE
    BY <1>3, Zenon DEF ReaderWaits, ReaderUses, ReaderTop, ReaderLock, SpuriousWakeUp,
       ReaderWoken, ReaderRemove, DataUse, DbUse, DbUseFails, ReaderCount
  <1>4. CASE ReaderStarts \/ MainMoves \/ Handles
    BY <1>4, Zenon DEF ReaderStarts, MainMoves, Handles, MapRead, DbOpen, DbOpenFails,
       DbCreateFails, MainBoot, MainSpawn, MainJoin, MainJoined, MainBye, Signal, HandlerLog,
       HandlerCancel
  <1>5. ASSUME NEW t, LogMessage(t) \/ Cancels(t)
        PROVE  /\ working' = working \/ working' = FALSE
               /\ nomem' = nomem \/ nomem' = TRUE
               /\ skipped' = skipped \/ skipped' = TRUE
    BY <1>5, Zenon DEF Cancels, LogMessage, LogCancelled, CancelTaken, CancelInWait
  <1>6. CASE Stays
    BY <1>6, Zenon DEF Stays, Over, vars, ctlVars
  <1> QED BY <1>1, <1>2, <1>3, <1>4, <1>5, <1>6, Families

\* The process exits by MainBye only, and nothing moves after that.
LEMMA ExitStep ==
    ASSUME [GatewayNext]_vars, proc' = "exit"
    PROVE  MainBye \/ UNCHANGED vars
  <1> USE DEF At, AtCancel, Alive, mainVars
  <1>1. CASE ConnMoves \/ Aborts \/ Inserts
    BY <1>1 DEF ConnMoves, Aborts, Inserts, ConnOpen, ConnTop, PollNothing, PollRemove,
       PollData, Receive, PollClose, ConnBye, ConnOpenFails, MapMissing, ConnInsert,
       ConnInsertFails
  <1>2. CASE Update \/ CloseThreads(CONNMGR) \/ CloseThreads(DB_THREAD)
    BY <1>2 DEF Update, CloseThreads, StopWorking, LockFirst, LockSecond, Broadcast
  <1>3. ASSUME NEW r \in Readers, ReaderWaits(r) \/ ReaderRemove(r) \/ ReaderUses(r)
        PROVE  FALSE
    BY <1>3 DEF ReaderWaits, ReaderUses, ReaderTop, ReaderLock, SpuriousWakeUp,
       ReaderWoken, ReaderRemove, DataUse, DbUse, DbUseFails, ReaderCount
  <1>4. CASE ReaderStarts \/ MainMoves \/ Handles
    BY <1>4 DEF ReaderStarts, MainMoves, Handles, MapRead, DbOpen, DbOpenFails,
       DbCreateFails, MainBoot, MainSpawn, MainJoin, MainJoined, Signal, HandlerLog,
       HandlerCancel
  <1>5. ASSUME NEW t, LogMessage(t) \/ Cancels(t) PROVE FALSE
    BY <1>5 DEF Cancels, LogMessage, LogCancelled, CancelTaken, CancelInWait
  <1>6. CASE Stays
    BY <1>6 DEF Stays, Over
  <1> QED BY <1>1, <1>2, <1>3, <1>4, <1>5, <1>6, Families

\* main joins before it cleans up, and it is the only one that does.
LEMMA CleanExitStep ==
    ASSUME IInv, LinksUp, Control, CleanExit, [GatewayNext]_vars
    PROVE  CleanExit'
  <1> SUFFICES ASSUME proc' = "exit" PROVE CleanExit'
    BY DEF CleanExit
  <1>1. CASE MainBye
    <2> USE <1>1 DEF MainBye, At, Goto, Control, Workers, Threads, Readers, CONNMGR, MAIN,
            DATAMGR_THREAD, DB_THREAD
    <2>1. \A t \in Workers : Ended(t)
      BY DEF Joining, Before
    <2>2. wpc = "idle" /\ \A r \in Readers : pc[r] = "idle"
      BY <2>1 DEF Ended, Inside
    <2>3. released' = {n \in Node : heap[n] = "live"}
      BY <2>2, ReleasedIsLive
    <2>4. ~wr
      BY DEF WrLockFree
    <2>5. \A t \in Workers : Ended(t)'
      BY <2>1 DEF Ended, CtlTypes
    <2>6. UNCHANGED <<wpc, wr, pc, heap>>
      BY DEF sbVars
    <2> QED BY <2>2, <2>3, <2>4, <2>5, <2>6 DEF CleanExit
  <1>2. CASE UNCHANGED vars
    BY <1>2 DEF CleanExit, Ended, vars, ctlVars, sbVars
  <1> QED BY <1>1, <1>2, ExitStep

-----------------------------------------------------------------------------
(* The counters.                                                           *)

\* The items are the nodes: finitely many are unread.
LEMMA UnreadFinite ==
    ASSUME TypeOK, NEW r \in Readers
    PROVE  IsFiniteSet(Unread(r)) /\ Cardinality(Unread(r)) \in Nat
  <1>1. IsFiniteSet(1..linked)
    BY MaxItemsAssumption, FS_Interval DEF TypeOK, Addr
  <1>2. Unread(r) \subseteq 1..linked
    BY DEF Unread
  <1> QED BY <1>1, <1>2, FS_Subset, FS_CardinalityType

\* Once a fault, always a fault.
LEMMA FaultStays ==
    ASSUME NEW r \in Readers, [GatewayNext]_vars, Fault(r)
    PROVE  Fault(r)'
  <1>1. overtaken => overtaken'
    BY BufferStep, Zenon DEF Next, Insert, Remove, RemoveStep, InsertAlloc, InsertLock,
       InsertFirst, InsertLink, InsertTail, InsertUnlock, RemoveEmpty, RemoveEnter, RdLock,
       ReadSkip, ReadMark, ReadNone, Load, TestNull, TestUnread, TestRead, WrLock, Unlink,
       Free, Halted, sbVars
  <1> QED BY <1>1, FlagsMove, Zenon DEF Fault

\* What CountInv depends on; a reader may leave, or end.
LEMMA CountFrame ==
    ASSUME NEW r \in Readers, TypeOK, CtlTypes, CountInv(r),
           res'[r] = res[r], got'[r] = got[r], Unread(r)' = Unread(r),
           Uncounted' <=> Uncounted,
           working' => working,
           BeforeRead(r)' => BeforeRead(r), AfterRead(r)' => AfterRead(r),
           loc'[r] # "gone" => /\ loc[r] # "gone" /\ (AfterRead(r)' <=> AfterRead(r))
                               /\ cnt'[r] = cnt[r]
    PROVE  CountInv(r)'
  <1>1. Surplus(r)' = Surplus(r)
    BY DEF Surplus, One
  <1>2. Surplus(r) \in Int
    BY UnreadFinite DEF Surplus, One
  <1> QED BY <1>1, <1>2 DEF CountInv, One

\* sbuffer_insert links an item in, unread, before it is counted.
LEMMA InsertCounts ==
    ASSUME IInv, Control, NEW r \in Readers, CountInv(r), ConnInsert
    PROVE  CountInv(r)'
  <1> USE MaxItemsAssumption DEF Control, ConnInsert, At, Goto, Alive, mainVars, dataVars,
          NULL, Node, Addr, Workers, Threads, Readers, CONNMGR, MAIN, DATAMGR_THREAD, DB_THREAD
  <1>1. /\ TypeOK /\ CtlTypes /\ UNCHANGED <<res, got, pc, cnt, working, ret>>
        /\ loc[CONNMGR] = "insert" /\ loc'[r] = loc[r]
        /\ loc'[CONNMGR] = IF wpc' = "idle" THEN "updLock" ELSE "insert"
    BY DEF IInv, CtlTypes, Insert, InsertAlloc, InsertLock, InsertFirst, InsertLink,
       InsertTail, InsertUnlock, listVars
  <1>2. /\ BeforeRead(r)' <=> BeforeRead(r)
        /\ AfterRead(r)' <=> AfterRead(r)
    BY <1>1 DEF BeforeRead, AfterRead
  <1>3. CASE InsertFirst \/ InsertLink
    <2>1. linked' = linked + 1 /\ seen' = seen /\ linked + 1 \in Node /\ seen[linked + 1] = {}
      BY <1>3 DEF InsertFirst, InsertLink, IInv, TypeOK, ListInv, ReadInv
    <2>2. Unread(r)' = Unread(r) \cup {linked + 1} /\ linked + 1 \notin Unread(r)
      BY <1>1, <2>1 DEF Unread, TypeOK
    <2>3. Cardinality(Unread(r)') = Cardinality(Unread(r)) + 1
      BY <1>1, <2>2, UnreadFinite, FS_AddElement
    <2>4. ~Uncounted /\ Uncounted'
      BY <1>1, <1>3 DEF Uncounted, InsertFirst, InsertLink
    <2>5. Surplus(r)' = Surplus(r) /\ Surplus(r) \in Int
      BY <1>1, <2>3, <2>4, UnreadFinite DEF Surplus, One
    <2> QED BY <1>1, <1>2, <2>5 DEF CountInv, One
  <1>4. CASE ~(InsertFirst \/ InsertLink)
    <2>1. Unread(r)' = Unread(r)
      BY <1>1, <1>4 DEF Unread, IInv, ListInv, TypeOK, Insert, InsertAlloc, InsertLock,
         InsertTail, InsertUnlock, listVars
    <2>2. Uncounted' <=> Uncounted
      BY <1>1, <1>4 DEF Uncounted, Insert, InsertAlloc, InsertLock, InsertTail, InsertUnlock
    <2> QED BY <1>1, <1>2, <2>1, <2>2, CountFrame
  <1> QED BY <1>3, <1>4

\* What a call of sbuffer_remove does for its own reader.
LEMMA OwnRemoveCounts ==
    ASSUME IInv, Control, NEW r \in Readers, CountInv(r), ~Fault(r)', ~overtaken,
           ReaderRemove(r)
    PROVE  CountInv(r)'
  <1> USE MaxItemsAssumption DEF Control, ReaderRemove, At, Goto, Alive, mainVars, dataVars,
          NULL, Node, Addr, Workers, Threads, Readers, CONNMGR, MAIN, DATAMGR_THREAD, DB_THREAD
  <1>0. UNCHANGED <<linked, wpc>>
    BY DEF Remove, RemoveEmpty, RemoveEnter, RemoveStep, RdLock,
       ReadSkip, ReadMark, ReadNone, Load, TestNull, TestUnread, TestRead, WrLock, Unlink,
       Free, listVars, insVars
  <1>1. /\ TypeOK /\ CtlTypes /\ UNCHANGED <<cnt, working, ret, linked>>
        /\ loc[r] = "remove" /\ loc'[CONNMGR] = loc[CONNMGR]
        /\ Uncounted' <=> Uncounted
    BY <1>0 DEF IInv, CtlTypes, Uncounted
  <1>2. loc'[r] = IF pc'[r] # "idle" \/ crashed' THEN "remove"
                  ELSE IF res'[r] = "SUCCESS" THEN "use" ELSE "done"
    BY <1>1 DEF CtlTypes
  <1>3. Unread(r) = {} => ~BeforeRead(r)
    BY FS_EmptySet DEF CountInv, Surplus, One
  <1>4. \A n \in Node : n <= unlinked => r \in seen[n]
    BY DEF IInv, CheckInv
  <1>5. CASE RemoveEmpty(r)
    <2>1. Unread(r) = {}
      BY <1>1, <1>4, <1>5 DEF RemoveEmpty, IInv, ListInv, TypeOK, Unread
    <2> QED BY <1>1, <1>3, <1>5, <2>1 DEF RemoveEmpty, BeforeRead
  <1>6. CASE ReadNone(r)
    <2>1. Unread(r) = {}
      BY <1>1, <1>4, <1>6 DEF ReadNone, IInv, ReadInv, TypeOK, Unread
    <2> QED BY <1>1, <1>3, <1>6, <2>1 DEF ReadNone, BeforeRead
  <1>7. CASE ReadMark(r)
    <2>1. /\ ptr[r] \in Unread(r) /\ Unread(r)' = Unread(r) \ {ptr[r]}
          /\ got'[r] = TRUE /\ res' = res /\ pc'[r] = "load" /\ loc'[r] = "remove"
      BY <1>1, <1>2, <1>7 DEF ReadMark, Marked, IInv, TypeOK, ReadInv, Unread
    <2>2. Cardinality(Unread(r)') = Cardinality(Unread(r)) - 1
      BY <1>1, <2>1, UnreadFinite, FS_RemoveElement
    <2>3. Surplus(r)' = Surplus(r) - 1 /\ Surplus(r) \in Int
      BY <1>1, <2>2, UnreadFinite DEF Surplus, One
    <2>4. BeforeRead(r) /\ ~AfterRead(r) /\ ~BeforeRead(r)' /\ AfterRead(r)'
      BY <1>1, <1>7, <2>1 DEF ReadMark, BeforeRead, AfterRead
    <2> QED BY <1>1, <2>1, <2>3, <2>4 DEF CountInv, One
  <1>8. CASE RemoveEnter(r)
    <2>1. UNCHANGED seen /\ BeforeRead(r) /\ BeforeRead(r)' /\ ~AfterRead(r) /\ ~AfterRead(r)'
          /\ res'[r] = "none" /\ loc'[r] = "remove"
      BY <1>1, <1>2, <1>8 DEF RemoveEnter, BeforeRead, AfterRead, TypeOK
    <2>2. Unread(r)' = Unread(r)
      BY <1>1, <2>1 DEF Unread
    <2>3. Surplus(r)' = Surplus(r)
      BY <1>1, <2>2 DEF Surplus, One
    <2> QED BY <1>1, <2>1, <2>3 DEF CountInv, One
  <1>9. CASE RdLock(r) \/ ReadSkip(r)
    <2>1. /\ UNCHANGED <<seen, res, got>> /\ loc'[r] = "remove"
          /\ BeforeRead(r)' <=> BeforeRead(r)
          /\ AfterRead(r)' <=> AfterRead(r)
      BY <1>1, <1>2, <1>9 DEF RdLock, ReadSkip, BeforeRead, AfterRead, TypeOK
    <2>2. Unread(r)' = Unread(r)
      BY <1>1, <2>1 DEF Unread
    <2> QED BY <1>1, <2>1, <2>2, CountFrame
  <1>10. CASE Load(r) \/ TestNull(r) \/ TestUnread(r) \/ TestRead(r) \/ WrLock(r) \/ Unlink(r)
              \/ Free(r)
    <2>1. /\ UNCHANGED <<seen, got>> /\ res'[r] # "NO_DATA" /\ loc'[r] # "gone"
          /\ ~BeforeRead(r)' /\ AfterRead(r) /\ AfterRead(r)'
      <3>1. AfterRead(r) /\ UNCHANGED <<seen, got>>
        BY <1>1, <1>10 DEF Load, TestNull, TestUnread, TestRead, WrLock, Unlink, Free, AfterRead
      <3>2. CASE Load(r) \/ TestNull(r) \/ TestRead(r) \/ WrLock(r) \/ Unlink(r)
        BY <1>1, <1>2, <3>1, <3>2 DEF Load, TestNull, TestRead, WrLock, Unlink, BeforeRead,
           AfterRead, TypeOK, CountInv
      <3>3. CASE TestUnread(r) \/ Free(r)
        <4>1. Return(r) /\ ~crashed'
          <5>1. Return(r) /\ crashed' = crashed /\ ~crashed
            BY <3>3 DEF TestUnread, Free
          <5> QED BY <5>1, Zenon
        <4>2. pc'[r] = "idle" /\ res'[r] = "SUCCESS"
          BY <1>1, <4>1 DEF Return, TypeOK
        <4> QED BY <1>2, <3>1, <4>1, <4>2 DEF BeforeRead, AfterRead
      <3> QED BY <1>10, <3>2, <3>3
    <2>2. Unread(r)' = Unread(r)
      BY <1>1, <2>1 DEF Unread
    <2>3. Surplus(r)' = Surplus(r) /\ Surplus(r) \in Int
      BY <1>1, <2>2, UnreadFinite DEF Surplus, One
    <2> QED BY <1>1, <2>1, <2>3 DEF CountInv, One
  <1> QED BY <1>5, <1>6, <1>7, <1>8, <1>9, <1>10 DEF Remove, RemoveStep

\* Who does not read, count or link leaves the counters and what they count alone.
LEMMA OthersCount ==
    ASSUME IInv, Control, NEW r \in Readers, CountInv(r), ~Fault(r)',
           \/ ConnMoves \/ Aborts \/ CloseThreads(CONNMGR) \/ CloseThreads(DB_THREAD)
           \/ ReaderStarts \/ MainMoves \/ Handles \/ Stays
           \/ \E t \in Threads : LogMessage(t)
           \/ \E t \in Workers : Cancels(t)
    PROVE  CountInv(r)'
  <1> USE DEF Control, CtlTypes, At, AtCancel, Goto, GotoLogged, Alive, mainVars, dataVars,
          mutexVars, Workers, Threads, Readers, CONNMGR, MAIN, DATAMGR_THREAD, DB_THREAD
  <1>0. TypeOK
    BY DEF IInv
  <1>1. UNCHANGED sbVars => /\ res' = res /\ got' = got /\ pc' = pc /\ wpc' = wpc
                            /\ Unread(r)' = Unread(r)
    BY DEF sbVars, Unread
  <1> DEFINE Frame ==
        /\ Uncounted' <=> Uncounted
        /\ working' => working
        /\ BeforeRead(r)' => BeforeRead(r)
        /\ AfterRead(r)' => AfterRead(r)
        /\ loc'[r] # "gone" => /\ loc[r] # "gone" /\ (AfterRead(r)' <=> AfterRead(r))
                               /\ cnt'[r] = cnt[r]
  <1>2. CASE ConnMoves
    <2>1. UNCHANGED sbVars
      BY <1>2 DEF ConnMoves, ConnOpen, ConnTop, PollNothing, PollRemove, PollData, Receive,
         PollClose, ConnBye
    <2>2. Frame
      BY <1>1, <1>2, <2>1 DEF ConnMoves, ConnOpen, ConnTop, PollNothing, PollRemove,
         PollData, Receive, PollClose, ConnBye, Uncounted, BeforeRead, AfterRead, Inside
    <2> QED BY <1>0, <1>1, <2>1, <2>2, CountFrame
  <1>3. CASE Aborts \/ Handles \/ Stays
    <2>1. UNCHANGED <<sbVars, loc, ret, cnt, working>>
      BY <1>3 DEF Aborts, Handles, Stays, ConnOpenFails, MapMissing, Signal, HandlerLog,
         HandlerCancel, Over, vars, ctlVars
    <2>2. Frame
      BY <1>1, <2>1 DEF Uncounted, BeforeRead, AfterRead
    <2> QED BY <1>0, <1>1, <2>1, <2>2, CountFrame
  <1>4. ASSUME NEW t \in {CONNMGR, DB_THREAD}, CloseThreads(t) PROVE CountInv(r)'
    <2>1. UNCHANGED <<sbVars, ret>>
      BY <1>4 DEF CloseThreads, StopWorking, LockFirst, LockSecond, Broadcast
    <2>2. /\ Uncounted' <=> Uncounted
          /\ BeforeRead(r)' <=> BeforeRead(r)
          /\ AfterRead(r)' <=> AfterRead(r)
      BY <1>1, <1>4, <2>1 DEF CloseThreads, StopWorking, LockFirst, LockSecond, Broadcast,
         WakeUp, Uncounted, BeforeRead, AfterRead
    <2>3. ~working'
      BY <1>4 DEF CloseThreads, StopWorking, LockFirst, LockSecond, Broadcast, Inside
    <2>4. Surplus(r)' = Surplus(r)
      BY <1>1, <2>1, <2>2 DEF Surplus, One
    <2> QED BY <1>1, <2>1, <2>2, <2>3, <2>4 DEF CountInv, One
  <1>5. CASE ReaderStarts \/ MainMoves
    <2>1. UNCHANGED <<sbVars, cnt, working>>
      BY <1>5 DEF ReaderStarts, MainMoves, MapRead, DbOpen, DbOpenFails, DbCreateFails,
         MainBoot, MainSpawn, MainJoin, MainJoined, MainBye
    <2>2. CASE ReaderStarts
      <3>1. Frame
        BY <1>1, <2>1, <2>2 DEF ReaderStarts, MapRead, DbOpen, DbOpenFails, DbCreateFails,
           Uncounted, BeforeRead, AfterRead
      <3> QED BY <1>0, <1>1, <2>1, <3>1, CountFrame
    <2>3. CASE MainMoves
      <3>1. Frame
        BY <1>1, <2>1, <2>3 DEF MainMoves, MainBoot, MainSpawn, MainJoin, MainJoined,
           MainBye, MAIN_PROCESS_THREAD_NR, threads, FirstLoc, Joining, Before, Inside,
           Uncounted, BeforeRead, AfterRead
      <3> QED BY <1>0, <1>1, <2>1, <3>1, CountFrame
    <2> QED BY <1>5, <2>2, <2>3
  <1>6. ASSUME NEW t \in Threads, LogMessage(t) PROVE CountInv(r)'
    <2>1. UNCHANGED <<sbVars, cnt, working>>
      BY <1>6 DEF LogMessage
    <2>2. Frame
      BY <1>1, <1>6, <2>1 DEF LogMessage, Places, Inside, Uncounted, BeforeRead, AfterRead
    <2> QED BY <1>0, <1>1, <2>1, <2>2, CountFrame
  <1>7. ASSUME NEW t \in Workers, Cancels(t) PROVE CountInv(r)'
    <2>1. UNCHANGED <<sbVars, cnt, working, ret>>
      BY <1>7 DEF Cancels, LogCancelled, CancelTaken, CancelInWait
    <2>2. Frame
      BY <1>1, <1>7, <2>1 DEF Cancels, LogCancelled, CancelTaken, CancelInWait, Inside,
         Uncounted, BeforeRead, AfterRead
    <2> QED BY <1>0, <1>1, <2>1, <2>2, CountFrame
  <1> QED BY <1>2, <1>3, <1>4, <1>5, <1>6, <1>7

\* One reader's sbuffer_remove is nothing to the other's call and flags.
LEMMA RemoveOthers ==
    ASSUME TypeOK, NEW q \in Readers, NEW r \in Readers, q # r, Remove(q)
    PROVE  /\ UNCHANGED <<linked, wpc>>
           /\ pc'[r] = pc[r] /\ res'[r] = res[r] /\ got'[r] = got[r]
           /\ \A n \in Node : r \in seen'[n] <=> r \in seen[n]
  <1> USE DEF TypeOK, listVars, insVars
  <1>1. CASE RemoveEmpty(q) \/ RemoveEnter(q) \/ RdLock(q) \/ ReadSkip(q)
    BY <1>1 DEF RemoveEmpty, RemoveEnter, RdLock, ReadSkip
  <1>2. CASE ReadMark(q)
    BY <1>2 DEF ReadMark, Marked
  <1>3. CASE ReadNone(q) \/ Load(q) \/ TestNull(q) \/ TestRead(q) \/ WrLock(q) \/ Unlink(q)
    BY <1>3 DEF ReadNone, Load, TestNull, TestRead, WrLock, Unlink
  <1>4. CASE TestUnread(q)
    BY <1>4 DEF TestUnread, Return
  <1>5. CASE Free(q)
    BY <1>5 DEF Free, Return
  <1> QED BY <1>1, <1>2, <1>3, <1>4, <1>5 DEF Remove, RemoveStep

\* The counters agree with the list after every step, unless there was a fault.
LEMMA CountStep ==
    ASSUME GInv, NEW r \in Readers, [GatewayNext]_vars, ~Fault(r)'
    PROVE  CountInv(r)'
  <1> USE DEF GInv, Control, CtlTypes, At, AtCancel, Goto, GotoLogged, Alive, mainVars,
          dataVars, mutexVars, Workers, Threads, Readers, CONNMGR, MAIN, DATAMGR_THREAD,
          DB_THREAD
  <1>0. CountInv(r) /\ ~overtaken /\ TypeOK
    BY FaultStays DEF Fault, IInv
  <1>1. UNCHANGED sbVars => /\ res' = res /\ got' = got /\ pc' = pc /\ wpc' = wpc
                            /\ Unread(r)' = Unread(r)
    BY DEF sbVars, Unread
  <1>2. CASE Inserts
    <2>1. ConnInsertFails => nomem'
      BY DEF ConnInsertFails
    <2> QED BY <1>0, <1>2, <2>1, InsertCounts DEF Inserts, Fault
  <1>3. CASE Update
    <2>1. UNCHANGED <<sbVars, ret, working>>
      BY <1>3 DEF Update, LockFirst, LockSecond, Broadcast
    <2>2. /\ BeforeRead(r)' <=> BeforeRead(r)
          /\ AfterRead(r)' <=> AfterRead(r)
          /\ loc'[r] = "gone" <=> loc[r] = "gone"
      BY <1>1, <1>3, <2>1 DEF Update, LockFirst, LockSecond, Broadcast, WakeUp, BeforeRead,
         AfterRead
    <2>3. CASE LockSecond(CONNMGR, "updCount", "updDb", Incremented)
      <3>1. Uncounted /\ ~Uncounted' /\ cnt'[r] = cnt[r] + 1
        BY <2>3 DEF LockSecond, Incremented, Uncounted
      <3>2. Surplus(r)' = Surplus(r) + 1 /\ Surplus(r) \in Int
        BY <1>0, <1>1, <2>1, <3>1, UnreadFinite DEF Surplus, One
      <3> QED BY <1>0, <1>1, <2>1, <2>2, <3>1, <3>2 DEF CountInv, One
    <2>4. CASE ~LockSecond(CONNMGR, "updCount", "updDb", Incremented)
      <3>1. /\ Uncounted' <=> Uncounted
            /\ cnt' = cnt
        BY <1>1, <1>3, <2>1, <2>4 DEF Update, LockFirst, Broadcast, WakeUp, Uncounted
      <3> QED BY <1>0, <1>1, <2>1, <2>2, <3>1, CountFrame
    <2> QED BY <2>3, <2>4
  <1>4. ASSUME NEW q \in Readers, ReaderWaits(q) PROVE CountInv(r)'
    <2>1. UNCHANGED <<sbVars, cnt, working, ret>>
      BY <1>4 DEF ReaderWaits, ReaderTop, ReaderLock, SpuriousWakeUp, ReaderWoken
    <2>5. /\ loc[q] \in {"top", "lock", "wait", "woken"}
          /\ loc'[q] \in {"lock", "wait", "woken", "remove", "done"}
          /\ \A t \in Threads \ {q} : loc'[t] = loc[t]
      BY <1>4 DEF ReaderWaits, ReaderTop, ReaderLock, SpuriousWakeUp, ReaderWoken, Decided,
         Rechecked
    <2>2. /\ Uncounted' <=> Uncounted
          /\ AfterRead(r)' <=> AfterRead(r)
          /\ loc'[r] = "gone" <=> loc[r] = "gone"
      <3>1. q = r => pc[r] = "idle"
        BY <2>5 DEF Inside
      <3> QED BY <1>1, <2>1, <2>5, <3>1 DEF Uncounted, AfterRead
    <2>4. ASSUME ~BeforeRead(r), BeforeRead(r)'
          PROVE  cnt[r] # 0 /\ working /\ ~AfterRead(r) /\ loc[r] # "gone"
      <3>1. loc[r] # "remove" /\ loc'[r] = "remove"
        BY <1>1, <2>1, <2>4 DEF BeforeRead
      <3>2. CASE ReaderTop(q) \/ SpuriousWakeUp(q)
        BY <3>1, <3>2 DEF ReaderTop, SpuriousWakeUp
      <3>3. CASE ReaderLock(q) \/ ReaderWoken(q)
        <4>1. q = r /\ (loc'[r] = Decided(r) \/ loc'[r] = "done")
          BY <3>1, <3>3 DEF ReaderLock, ReaderWoken, Rechecked
        <4>2. Decided(r) = "remove"
          BY <3>1, <4>1
        <4>3. loc[r] \in {"lock", "woken"}
          BY <3>3, <4>1 DEF ReaderLock, ReaderWoken
        <4> QED BY <4>2, <4>3 DEF Decided, AfterRead
      <3> QED BY <1>4, <3>2, <3>3 DEF ReaderWaits
    <2>3. Surplus(r)' = Surplus(r) /\ Surplus(r) \in Int
      BY <1>0, <1>1, <2>1, <2>2, UnreadFinite DEF Surplus, One
    <2> QED BY <1>0, <1>1, <2>1, <2>2, <2>3, <2>4 DEF CountInv, One
  <1>5. ASSUME NEW q \in Readers, ReaderRemove(q) PROVE CountInv(r)'
    <2>1. CASE q = r
      BY <1>0, <1>5, <2>1, OwnRemoveCounts
    <2>2. CASE q # r
      <3>1. /\ UNCHANGED <<cnt, working, ret, linked, wpc>>
            /\ loc'[r] = loc[r] /\ loc'[CONNMGR] = loc[CONNMGR] /\ pc'[r] = pc[r]
            /\ res'[r] = res[r] /\ got'[r] = got[r]
        BY <1>0, <1>5, <2>2, RemoveOthers DEF ReaderRemove
      <3>2. \A n \in Node : r \in seen'[n] <=> r \in seen[n]
        BY <1>0, <1>5, <2>2, RemoveOthers DEF ReaderRemove
      <3>3. Unread(r)' = Unread(r)
        BY <1>0, <3>1, <3>2, MaxItemsAssumption DEF Unread, TypeOK, Node, Addr
      <3>4. /\ Uncounted' <=> Uncounted
            /\ BeforeRead(r)' <=> BeforeRead(r)
            /\ AfterRead(r)' <=> AfterRead(r)
        BY <3>1 DEF Uncounted, BeforeRead, AfterRead
      <3> QED BY <1>0, <3>1, <3>3, <3>4, CountFrame
    <2> QED BY <2>1, <2>2
  <1>6. ASSUME NEW q \in Readers, ReaderUses(q) PROVE CountInv(r)'
    <2>1. UNCHANGED <<sbVars, working>>
      BY <1>6 DEF ReaderUses, DataUse, DbUse, DbUseFails, ReaderCount
    <2>2. /\ Uncounted' <=> Uncounted
          /\ BeforeRead(r)' <=> BeforeRead(r)
      BY <1>1, <1>6, <2>1 DEF ReaderUses, DataUse, DbUse, DbUseFails, ReaderCount, Uncounted,
         BeforeRead, AfterRead
    <2>3. Surplus(r)' = Surplus(r) /\ Surplus(r) \in Int
      BY <1>0, <1>1, <2>1, <2>2, UnreadFinite DEF Surplus, One
    <2>4. CASE ReaderCount(r)
      <3>1. cnt'[r] = cnt[r] - 1 /\ AfterRead(r) /\ ~AfterRead(r)' /\ loc[r] # "gone"
        BY <2>4 DEF ReaderCount, AfterRead
      <3> QED BY <1>0, <1>1, <2>1, <2>2, <2>3, <3>1 DEF CountInv, One
    <2>5. CASE ~ReaderCount(r)
      <3>1. ~(r = DB_THREAD /\ DbUseFails)
        BY DEF DbUseFails, Fault
      <3>2. /\ cnt'[r] = cnt[r]
            /\ AfterRead(r)' <=> AfterRead(r)
            /\ loc'[r] # "gone" => loc[r] # "gone"
        BY <1>1, <1>6, <2>1, <2>5, <3>1 DEF ReaderUses, DataUse, DbUse, DbUseFails,
           ReaderCount, AfterRead
      <3> QED BY <1>0, <1>1, <2>1, <2>2, <3>2, CountFrame
    <2> QED BY <2>4, <2>5
  <1> QED
    <2> HIDE DEF GInv, Control, CtlTypes, Workers, Threads, Readers, CONNMGR, MAIN
    <2>1. IInv /\ Control
      BY DEF GInv
    <2> QED BY <1>0, <1>2, <1>3, <1>4, <1>5, <1>6, <2>1, OthersCount, Families

-----------------------------------------------------------------------------
\* The invariant holds when the gateway starts.
LEMMA InitGInv == GatewayInit => GInv
  <1> SUFFICES ASSUME GatewayInit PROVE GInv
    OBVIOUS
  <1> USE MaxItemsAssumption, GatewayAssumption DEF GatewayInit, Workers, Threads, Readers,
          CONNMGR, MAIN, NOBODY, DATAMGR_THREAD, DB_THREAD
  <1>1. IInv
    BY InitIInv
  <1>2. Flags
    BY Zenon DEF Flags
  <1>3. Control
    BY DEF Control, CtlTypes, Locs, Rets, Places, Inside, Joining, Before, threads, Init
  <1>4. LinksUp /\ CleanExit
    BY DEF LinksUp, CleanExit, Init
  <1>5. ASSUME NEW r \in Readers PROVE CountInv(r)
    <2>1. Unread(r) = {}
      BY DEF Unread, Init
    <2>2. Surplus(r) = 0
      BY <2>1, FS_EmptySet DEF Surplus, Uncounted, One
    <2> QED BY <2>2 DEF CountInv, BeforeRead, AfterRead, One, Init
  <1> QED BY <1>1, <1>2, <1>3, <1>4, <1>5 DEF GInv

\* Every step keeps the invariant.
LEMMA NextGInv == GInv /\ [GatewayNext]_vars => GInv'
  <1> SUFFICES ASSUME GInv, [GatewayNext]_vars PROVE GInv'
    OBVIOUS
  <1>1. IInv' /\ LinksUp'
    BY BufferStep, NextIInv, LinksUpStep DEF GInv
  <1>2. Flags'
    BY FlagsMove, Zenon DEF GInv, Flags
  <1>3. Control' /\ CleanExit'
    BY ControlStep, CleanExitStep DEF GInv
  <1>4. ASSUME NEW r \in Readers PROVE Fault(r)' \/ CountInv(r)'
    BY CountStep
  <1> QED BY <1>1, <1>2, <1>3, <1>4 DEF GInv

\* The inductive invariant of the process: every thread of gateway_main.c at a point of
\* its own code, main's joins in step with the ends of the threads, and each counter,
\* as long as no fault intervenes, what its reader still has to read.
THEOREM GInvHolds == GatewaySpec => []GInv
  <1> QED BY InitGInv, NextGInv, PTL DEF GatewaySpec

\* In every behaviour of the process the counters say what the readers have
\* still to read (sbuffer_insert and connmgr_update_threads against
\* sbuffer_remove and the decrement), and every variable has its type.
THEOREM CountersMatch == GatewaySpec => []CountMatches
  <1>1. ASSUME GInv PROVE CountMatches
    <2>1. GatewayTypeOK
      <3>1. working \in BOOLEAN /\ nomem \in BOOLEAN /\ skipped \in BOOLEAN
        BY <1>1, Zenon DEF GInv, Flags
      <3> QED BY <1>1, <3>1 DEF GInv, IInv, Control, CtlTypes, Locs, Rets, GatewayTypeOK
    <2>2. ASSUME NEW r \in Readers, working, ~Fault(r), r \notin cancelled
          PROVE  cnt[r] = Cardinality(Unread(r)) - One(Uncounted) + One(InHand(r))
      <3>1. CountInv(r) /\ IInv
        BY <1>1, <2>2 DEF GInv
      <3>2. loc[r] # "gone"
        BY <1>1, <2>2 DEF GInv, Control, Inside, Workers
      <3>3. pc[r] \in {"rdlock", "read"} => ~got[r]
        BY <3>1 DEF IInv, CrashInv
      <3>4. InHand(r) <=> AfterRead(r)
        BY <3>1, <3>3 DEF InHand, AfterRead, CountInv
      <3> QED BY <2>2, <3>1, <3>2, <3>4 DEF CountInv, Surplus, One
    <2> QED BY <2>1, <2>2 DEF CountMatches, Fault
  <1> QED BY <1>1, GInvHolds, PTL

\* Without a fault or a lost item a reader never takes nothing for an item, and
\* never ends because sbuffer_remove found the buffer empty.
THEOREM NoReaderReadsBlind == GatewaySpec => []NoBlindRead
  <1>1. ASSUME GInv PROVE NoBlindRead
    <2> SUFFICES ASSUME NEW r \in Readers, ~Fault(r)
                 PROVE  /\ loc[r] = "use" => got[r]
                        /\ ~(loc[r] = "done" /\ res[r] = "NO_DATA")
      BY DEF NoBlindRead, Fault
    <2> QED BY <1>1 DEF GInv, CountInv, AfterRead
  <1> QED BY <1>1, GInvHolds, PTL

\* cleanup_and_exit runs when no thread is left in the buffer, and sbuffer_free
\* gives back exactly the nodes that live: no leak, no double free, at any exit.
THEOREM ExitIsClean == GatewaySpec => []CleanExit
  <1>1. GInv => CleanExit
    BY DEF GInv
  <1> QED BY <1>1, GInvHolds, PTL

\* What is proved of the buffer alone holds of it inside the process, where two
\* threads read it that can be cancelled and one inserts: the list is whole, no node
\* is lost or freed twice, reads are in order, and a loss or a crash needs a reader
\* that was overtaken or one that found nothing.
THEOREM GatewayBufferIsSafe ==
    GatewaySpec => /\ [](ListIntact /\ NoLeak /\ WalkIsSafe /\ ReadPrefix)
                   /\ [](NoLossUnlessOvertaken /\ CrashExplained)
                   /\ FlagsOnlyGrow
  BY GatewayUsesBuffer, ListStaysIntact, NothingLeaks, WalkStaysSafe, ReadsInOrder,
     NothingLost, CrashNeedsRace, FlagsNeverReset, PTL

\* The buffer inside the process, with its two real readers and their
\* cancellation, is still a Fifo fan-out.
THEOREM GatewayBufferIsFifo == GatewaySpec => Fifo
  <1> QED BY GatewayUsesBuffer, ListIsFifo, PTL

=============================================================================
