------------------------- MODULE SensorBuffer_proofs -------------------------
(***************************************************************************)
(* Proofs about SensorBuffer, for any number of items: the structure of    *)
(* the list survives every interleaving, and no item is lost unless a      *)
(* reader was overtaken.                                                   *)
(***************************************************************************)
EXTENDS SensorBuffer, TLAPS

-----------------------------------------------------------------------------
(* The inductive invariant.                                                *)

InWrite(r) == pc[r] \in {"unlink", "free"}
WriterIn == wpc \in {"link", "tail", "unlock"}

\* The rwlock variables say who is where.
LockInv ==
    /\ \A r \in Readers : r \in rd <=> pc[r] = "read"
    /\ wr <=> WriterIn \/ \E r \in Readers : InWrite(r)
    /\ wr => rd = {}
    /\ \A r, q \in Readers : InWrite(r) /\ InWrite(q) => r = q
    /\ \A r \in Readers : ~(InWrite(r) /\ WriterIn)

\* The list is the interval InList in insertion order, but for the one link
\* sbuffer_insert may be in the middle of.
ListInv ==
    /\ unlinked <= linked
    /\ last = IF wpc \in {"lock", "link"} THEN linked + 1 ELSE linked
    /\ wpc = "tail" => unlinked + 2 <= linked
    /\ wpc = "unlock" => unlinked < linked
    /\ head = IF unlinked = linked THEN NULL ELSE unlinked + 1
    /\ tail = IF unlinked = linked THEN NULL
              ELSE IF wpc = "tail" THEN linked - 1 ELSE linked
    /\ \A n \in Node : unlinked < n /\ n < linked => next[n] = n + 1
    /\ \A n \in Node : linked <= n => next[n] = NULL

\* A node is freed once unlinked, but for the one in the hands of Free.
HeapInv ==
    /\ \A n \in Node : last < n => heap[n] = "none"
    /\ \A n \in Node : unlinked < n /\ n <= last => heap[n] = "live"
    /\ \A n \in Node : n <= unlinked =>
         heap[n] = IF \E r \in Readers : pc[r] = "free" /\ ptr[r] = n
                   THEN "live" ELSE "freed"
    /\ \A r \in Readers : pc[r] = "unlink" => ptr[r] = head
    /\ \A r \in Readers : pc[r] = "free" => ptr[r] = NULL \/ ptr[r] = unlinked

\* What a reader has read in the list is a prefix of it, and a walking reader
\* has everything behind it.
ReadInv ==
    /\ \A n \in Node : linked < n => seen[n] = {}
    /\ \A r \in Readers, m, n \in Node :
         unlinked < n /\ n < m /\ r \in seen[m] => r \in seen[n]
    /\ \A r \in Readers : pc[r] = "read" =>
         /\ ptr[r] # NULL => unlinked < ptr[r] /\ ptr[r] <= linked
         /\ \A n \in Node : /\ unlinked < n /\ n <= linked
                            /\ ptr[r] = NULL \/ n < ptr[r]
                            => r \in seen[n]

\* Up to its unlink a reader that was not overtaken looks at one and the same
\* head, so the flags it has tested are the flags of the node it removes.
CheckInv ==
    /\ \A r \in Readers : pc[r] \in {"load", "test"} => idx[r] < THREAD_NR
    /\ \A r \in Readers : pc[r] \in {"wrlock", "unlink"} => idx[r] = THREAD_NR
    /\ ~overtaken =>
         /\ \A n \in Node : n <= unlinked => seen[n] = Readers
         /\ \A r \in Readers :
              (Checking(r) \/ pc[r] = "unlink") /\ idx[r] > 0 =>
                /\ head # NULL
                /\ \A i \in Readers : i < idx[r] => i \in seen[head]
         /\ \A r \in Readers : pc[r] = "test" /\ ptr[r] # NULL => ptr[r] = head

\* A reader that got a node has it, or a later one, before it until its unlink,
\* unless it is overtaken: it cannot be the one that meets a NULL head.
CrashInv ==
    /\ ~overtaken => \A r \in Readers : Checking(r) /\ got[r] =>
                       /\ head # NULL
                       /\ pc[r] = "test" => ptr[r] # NULL
    /\ \A r \in Readers : pc[r] \in {"rdlock", "read"} => ~got[r]
    /\ CrashExplained

IInv ==
    /\ TypeOK /\ LockInv /\ ListInv /\ HeapInv /\ ReadInv /\ CheckInv
    /\ CrashInv

-----------------------------------------------------------------------------
\* At first the list is empty and nobody is inside.
LEMMA InitIInv == Init => IInv
  <1> SUFFICES ASSUME Init PROVE IInv
    OBVIOUS
  <1> USE MaxItemsAssumption DEF Init, NULL, Node, Addr, Readers, THREAD_NR,
          DATAMGR_THREAD, DB_THREAD
  <1>1. TypeOK
    <2>1. wr \in BOOLEAN /\ crashed \in BOOLEAN /\ overtaken \in BOOLEAN
      BY Zenon
    <2>2. got \in [Readers -> BOOLEAN]
      OBVIOUS
    <2> QED
      BY <2>1, <2>2 DEF TypeOK
  <1>2. LockInv
    BY DEF LockInv, InWrite, WriterIn
  <1>3. ListInv /\ HeapInv
    BY DEF ListInv, HeapInv
  <1>4. ReadInv /\ CheckInv /\ CrashInv
    BY DEF ReadInv, CheckInv, CrashInv, CrashExplained, Checking
  <1> QED
    BY <1>1, <1>2, <1>3, <1>4 DEF IInv

\* Every step keeps it: one step of the proof per action, under it one per conjunct.
LEMMA NextIInv == IInv /\ [Next]_sbVars => IInv'
  <1> SUFFICES ASSUME IInv, [Next]_sbVars PROVE IInv'
    OBVIOUS
  <1> USE MaxItemsAssumption DEF NULL, Node, Addr, Readers, THREAD_NR,
          DATAMGR_THREAD, DB_THREAD, listVars, insVars
  <1>1. CASE InsertAlloc
    <2>1. TypeOK'
      BY <1>1 DEF IInv, InsertAlloc, TypeOK
    <2>2. LockInv'
      BY <1>1 DEF IInv, InsertAlloc, TypeOK, LockInv, InWrite, WriterIn
    <2>3. ListInv'
      BY <1>1 DEF IInv, InsertAlloc, TypeOK, LockInv, ListInv, InWrite,
         WriterIn
    <2>4. HeapInv'
      BY <1>1 DEF IInv, InsertAlloc, TypeOK, LockInv, ListInv, HeapInv,
         InWrite, WriterIn
    <2>5. ReadInv'
      BY <1>1 DEF IInv, InsertAlloc, TypeOK, LockInv, ListInv, ReadInv,
         InWrite, WriterIn
    <2>6. CheckInv'
      BY <1>1 DEF IInv, InsertAlloc, TypeOK, LockInv, ListInv, HeapInv,
         CheckInv, InWrite, WriterIn, Checking
    <2>7. CrashInv'
      BY <1>1 DEF IInv, InsertAlloc, TypeOK, LockInv, ListInv, ReadInv,
         CrashInv, CrashExplained, InWrite, WriterIn, Checking
    <2> QED
      BY <2>1, <2>2, <2>3, <2>4, <2>5, <2>6, <2>7 DEF IInv
  <1>2. CASE InsertLock
    <2>1. TypeOK'
      BY <1>2 DEF IInv, InsertLock, WrLockFree, TypeOK
    <2>2. LockInv'
      BY <1>2 DEF IInv, InsertLock, WrLockFree, TypeOK, LockInv, InWrite,
         WriterIn
    <2>3. ListInv'
      BY <1>2 DEF IInv, InsertLock, WrLockFree, TypeOK, LockInv, ListInv,
         InWrite, WriterIn
    <2>4. HeapInv'
      BY <1>2 DEF IInv, InsertLock, WrLockFree, TypeOK, LockInv, ListInv,
         HeapInv, InWrite, WriterIn
    <2>5. ReadInv'
      BY <1>2 DEF IInv, InsertLock, WrLockFree, TypeOK, LockInv, ListInv,
         ReadInv, InWrite, WriterIn
    <2>6. CheckInv'
      BY <1>2 DEF IInv, InsertLock, WrLockFree, TypeOK, LockInv, ListInv,
         HeapInv, CheckInv, InWrite, WriterIn, Checking
    <2>7. CrashInv'
      BY <1>2 DEF IInv, InsertLock, WrLockFree, TypeOK, LockInv, ListInv,
         ReadInv, CrashInv, CrashExplained, InWrite, WriterIn, Checking
    <2> QED
      BY <2>1, <2>2, <2>3, <2>4, <2>5, <2>6, <2>7 DEF IInv
  <1>3. CASE InsertFirst
    <2>1. TypeOK'
      BY <1>3 DEF IInv, TypeOK, ListInv, InsertFirst
    <2>2. LockInv'
      BY <1>3 DEF IInv, InsertFirst, TypeOK, LockInv, InWrite, WriterIn
    <2>3. ListInv'
      BY <1>3 DEF IInv, InsertFirst, TypeOK, LockInv, ListInv, InWrite,
         WriterIn
    <2>4. HeapInv'
      BY <1>3 DEF IInv, InsertFirst, TypeOK, LockInv, ListInv, HeapInv,
         InWrite, WriterIn
    <2>5. ReadInv'
      BY <1>3 DEF IInv, InsertFirst, TypeOK, LockInv, ListInv, ReadInv,
         InWrite, WriterIn
    <2>6. CheckInv'
      BY <1>3 DEF IInv, InsertFirst, TypeOK, LockInv, ListInv, HeapInv,
         CheckInv, InWrite, WriterIn, Checking
    <2>7. CrashInv'
      BY <1>3 DEF IInv, InsertFirst, TypeOK, LockInv, ListInv, ReadInv,
         CrashInv, CrashExplained, InWrite, WriterIn, Checking
    <2> QED
      BY <2>1, <2>2, <2>3, <2>4, <2>5, <2>6, <2>7 DEF IInv
  <1>4. CASE InsertLink
    <2>1. TypeOK'
      BY <1>4 DEF IInv, TypeOK, ListInv, InsertLink
    <2>2. LockInv'
      BY <1>4 DEF IInv, InsertLink, TypeOK, LockInv, InWrite, WriterIn
    <2>3. ListInv'
      BY <1>4 DEF IInv, InsertLink, TypeOK, LockInv, ListInv, InWrite, WriterIn
    <2>4. HeapInv'
      BY <1>4 DEF IInv, InsertLink, TypeOK, LockInv, ListInv, HeapInv, InWrite,
         WriterIn
    <2>5. ReadInv'
      BY <1>4 DEF IInv, InsertLink, TypeOK, LockInv, ListInv, ReadInv, InWrite,
         WriterIn
    <2>6. CheckInv'
      BY <1>4 DEF IInv, InsertLink, TypeOK, LockInv, ListInv, HeapInv,
         CheckInv, InWrite, WriterIn, Checking
    <2>7. CrashInv'
      BY <1>4 DEF IInv, InsertLink, TypeOK, LockInv, ListInv, ReadInv,
         CrashInv, CrashExplained, InWrite, WriterIn, Checking
    <2> QED
      BY <2>1, <2>2, <2>3, <2>4, <2>5, <2>6, <2>7 DEF IInv
  <1>5. CASE InsertTail
    <2>1. TypeOK'
      BY <1>5 DEF IInv, InsertTail, TypeOK
    <2>2. LockInv'
      BY <1>5 DEF IInv, InsertTail, TypeOK, LockInv, InWrite, WriterIn
    <2>3. ListInv'
      BY <1>5 DEF IInv, InsertTail, TypeOK, LockInv, ListInv, InWrite, WriterIn
    <2>4. HeapInv'
      BY <1>5 DEF IInv, InsertTail, TypeOK, LockInv, ListInv, HeapInv, InWrite,
         WriterIn
    <2>5. ReadInv'
      BY <1>5 DEF IInv, InsertTail, TypeOK, LockInv, ListInv, ReadInv, InWrite,
         WriterIn
    <2>6. CheckInv'
      BY <1>5 DEF IInv, InsertTail, TypeOK, LockInv, ListInv, HeapInv,
         CheckInv, InWrite, WriterIn, Checking
    <2>7. CrashInv'
      BY <1>5 DEF IInv, InsertTail, TypeOK, LockInv, ListInv, ReadInv,
         CrashInv, CrashExplained, InWrite, WriterIn, Checking
    <2> QED
      BY <2>1, <2>2, <2>3, <2>4, <2>5, <2>6, <2>7 DEF IInv
  <1>6. CASE InsertUnlock
    <2>1. TypeOK'
      <3>1. wr' \in BOOLEAN
        BY <1>6, Zenon DEF InsertUnlock
      <3> QED
        BY <1>6, <3>1 DEF IInv, TypeOK, InsertUnlock
    <2>2. LockInv'
      BY <1>6 DEF IInv, InsertUnlock, TypeOK, LockInv, InWrite, WriterIn
    <2>3. ListInv'
      BY <1>6 DEF IInv, InsertUnlock, TypeOK, LockInv, ListInv, InWrite,
         WriterIn
    <2>4. HeapInv'
      BY <1>6 DEF IInv, InsertUnlock, TypeOK, LockInv, ListInv, HeapInv,
         InWrite, WriterIn
    <2>5. ReadInv'
      BY <1>6 DEF IInv, InsertUnlock, TypeOK, LockInv, ListInv, ReadInv,
         InWrite, WriterIn
    <2>6. CheckInv'
      BY <1>6 DEF IInv, InsertUnlock, TypeOK, LockInv, ListInv, HeapInv,
         CheckInv, InWrite, WriterIn, Checking
    <2>7. CrashInv'
      BY <1>6 DEF IInv, InsertUnlock, TypeOK, LockInv, ListInv, ReadInv,
         CrashInv, CrashExplained, InWrite, WriterIn, Checking
    <2> QED
      BY <2>1, <2>2, <2>3, <2>4, <2>5, <2>6, <2>7 DEF IInv
  <1>7. ASSUME NEW r \in Readers, RemoveEmpty(r) PROVE IInv'
    <2>1. TypeOK'
      BY <1>7 DEF IInv, RemoveEmpty, TypeOK
    <2>2. LockInv'
      BY <1>7 DEF IInv, RemoveEmpty, TypeOK, LockInv, InWrite, WriterIn
    <2>3. ListInv'
      BY <1>7 DEF IInv, RemoveEmpty, TypeOK, LockInv, ListInv, InWrite,
         WriterIn
    <2>4. HeapInv'
      BY <1>7 DEF IInv, RemoveEmpty, TypeOK, LockInv, ListInv, HeapInv,
         InWrite, WriterIn
    <2>5. ReadInv'
      BY <1>7 DEF IInv, RemoveEmpty, TypeOK, LockInv, ListInv, ReadInv,
         InWrite, WriterIn
    <2>6. CheckInv'
      BY <1>7 DEF IInv, RemoveEmpty, TypeOK, LockInv, ListInv, HeapInv,
         CheckInv, InWrite, WriterIn, Checking
    <2>7. CrashInv'
      BY <1>7 DEF IInv, RemoveEmpty, TypeOK, LockInv, ListInv, ReadInv,
         CrashInv, CrashExplained, InWrite, WriterIn, Checking
    <2> QED
      BY <2>1, <2>2, <2>3, <2>4, <2>5, <2>6, <2>7 DEF IInv
  <1>8. ASSUME NEW r \in Readers, RemoveEnter(r) PROVE IInv'
    <2>1. TypeOK'
      BY <1>8 DEF IInv, RemoveEnter, TypeOK
    <2>2. LockInv'
      BY <1>8 DEF IInv, RemoveEnter, TypeOK, LockInv, InWrite, WriterIn
    <2>3. ListInv'
      BY <1>8 DEF IInv, RemoveEnter, TypeOK, LockInv, ListInv, InWrite,
         WriterIn
    <2>4. HeapInv'
      BY <1>8 DEF IInv, RemoveEnter, TypeOK, LockInv, ListInv, HeapInv,
         InWrite, WriterIn
    <2>5. ReadInv'
      BY <1>8 DEF IInv, RemoveEnter, TypeOK, LockInv, ListInv, ReadInv,
         InWrite, WriterIn
    <2>6. CheckInv'
      BY <1>8 DEF IInv, RemoveEnter, TypeOK, LockInv, ListInv, HeapInv,
         CheckInv, InWrite, WriterIn, Checking
    <2>7. CrashInv'
      BY <1>8 DEF IInv, RemoveEnter, TypeOK, LockInv, ListInv, ReadInv,
         CrashInv, CrashExplained, InWrite, WriterIn, Checking
    <2> QED
      BY <2>1, <2>2, <2>3, <2>4, <2>5, <2>6, <2>7 DEF IInv
  <1>9. ASSUME NEW r \in Readers, RdLock(r) PROVE IInv'
    <2>1. TypeOK'
      BY <1>9 DEF IInv, RdLock, ReadFrom, TypeOK
    <2>2. LockInv'
      BY <1>9 DEF IInv, RdLock, ReadFrom, TypeOK, LockInv, InWrite, WriterIn
    <2>3. ListInv'
      BY <1>9 DEF IInv, RdLock, ReadFrom, TypeOK, LockInv, ListInv, InWrite,
         WriterIn
    <2>4. HeapInv'
      BY <1>9 DEF IInv, RdLock, ReadFrom, TypeOK, LockInv, ListInv, HeapInv,
         InWrite, WriterIn
    <2>5. ReadInv'
      BY <1>9 DEF IInv, RdLock, ReadFrom, TypeOK, LockInv, ListInv, ReadInv,
         InWrite, WriterIn
    <2>6. CheckInv'
      BY <1>9 DEF IInv, RdLock, ReadFrom, TypeOK, LockInv, ListInv, HeapInv,
         CheckInv, InWrite, WriterIn, Checking
    <2>7. CrashInv'
      BY <1>9 DEF IInv, RdLock, ReadFrom, TypeOK, LockInv, ListInv, ReadInv,
         CrashInv, CrashExplained, InWrite, WriterIn, Checking
    <2> QED
      BY <2>1, <2>2, <2>3, <2>4, <2>5, <2>6, <2>7 DEF IInv
  <1>10. ASSUME NEW r \in Readers, ReadSkip(r) PROVE IInv'
    <2>1. TypeOK'
      BY <1>10 DEF IInv, ReadSkip, TypeOK
    <2>2. LockInv'
      BY <1>10 DEF IInv, ReadSkip, TypeOK, LockInv, InWrite, WriterIn
    <2>3. ListInv'
      BY <1>10 DEF IInv, ReadSkip, TypeOK, LockInv, ListInv, InWrite, WriterIn
    <2>4. HeapInv'
      BY <1>10 DEF IInv, ReadSkip, TypeOK, LockInv, ListInv, HeapInv, InWrite,
         WriterIn
    <2>5. ReadInv'
      BY <1>10 DEF IInv, ReadSkip, TypeOK, LockInv, ListInv, ReadInv, InWrite,
         WriterIn
    <2>6. CheckInv'
      BY <1>10 DEF IInv, ReadSkip, TypeOK, LockInv, ListInv, HeapInv, CheckInv,
         InWrite, WriterIn, Checking
    <2>7. CrashInv'
      BY <1>10 DEF IInv, ReadSkip, TypeOK, LockInv, ListInv, ReadInv, CrashInv,
         CrashExplained, InWrite, WriterIn, Checking
    <2> QED
      BY <2>1, <2>2, <2>3, <2>4, <2>5, <2>6, <2>7 DEF IInv
  <1>11. ASSUME NEW r \in Readers, ReadMark(r) PROVE IInv'
    <2>1. TypeOK'
      BY <1>11 DEF IInv, ReadMark, Marked, TypeOK
    <2>2. LockInv'
      BY <1>11 DEF IInv, ReadMark, Marked, TypeOK, LockInv, InWrite, WriterIn
    <2>3. ListInv'
      BY <1>11 DEF IInv, ReadMark, Marked, TypeOK, LockInv, ListInv, InWrite,
         WriterIn
    <2>4. HeapInv'
      BY <1>11 DEF IInv, ReadMark, Marked, TypeOK, LockInv, ListInv, HeapInv,
         InWrite, WriterIn
    <2>5. ReadInv'
      BY <1>11 DEF IInv, ReadMark, Marked, TypeOK, LockInv, ListInv, ReadInv,
         InWrite, WriterIn
    <2>6. CheckInv'
      BY <1>11 DEF IInv, ReadMark, Marked, TypeOK, LockInv, ListInv, HeapInv,
         CheckInv, InWrite, WriterIn, Checking
    <2>7. CrashInv'
      BY <1>11 DEF IInv, ReadMark, Marked, TypeOK, LockInv, ListInv, ReadInv,
         CrashInv, CrashExplained, InWrite, WriterIn, Checking
    <2> QED
      BY <2>1, <2>2, <2>3, <2>4, <2>5, <2>6, <2>7 DEF IInv
  <1>12. ASSUME NEW r \in Readers, ReadNone(r) PROVE IInv'
    <2>1. TypeOK'
      BY <1>12 DEF IInv, ReadNone, TypeOK
    <2>2. LockInv'
      BY <1>12 DEF IInv, ReadNone, TypeOK, LockInv, InWrite, WriterIn
    <2>3. ListInv'
      BY <1>12 DEF IInv, ReadNone, TypeOK, LockInv, ListInv, InWrite, WriterIn
    <2>4. HeapInv'
      BY <1>12 DEF IInv, ReadNone, TypeOK, LockInv, ListInv, HeapInv, InWrite,
         WriterIn
    <2>5. ReadInv'
      BY <1>12 DEF IInv, ReadNone, TypeOK, LockInv, ListInv, ReadInv, InWrite,
         WriterIn
    <2>6. CheckInv'
      BY <1>12 DEF IInv, ReadNone, TypeOK, LockInv, ListInv, HeapInv, CheckInv,
         InWrite, WriterIn, Checking
    <2>7. CrashInv'
      BY <1>12 DEF IInv, ReadNone, TypeOK, LockInv, ListInv, ReadInv, CrashInv,
         CrashExplained, InWrite, WriterIn, Checking
    <2> QED
      BY <2>1, <2>2, <2>3, <2>4, <2>5, <2>6, <2>7 DEF IInv
  <1>13. ASSUME NEW r \in Readers, Load(r) PROVE IInv'
    <2>1. TypeOK'
      BY <1>13 DEF IInv, Load, Loaded, TypeOK
    <2>2. LockInv'
      BY <1>13 DEF IInv, Load, Loaded, TypeOK, LockInv, InWrite, WriterIn
    <2>3. ListInv'
      BY <1>13 DEF IInv, Load, Loaded, TypeOK, LockInv, ListInv, InWrite,
         WriterIn
    <2>4. HeapInv'
      BY <1>13 DEF IInv, Load, Loaded, TypeOK, LockInv, ListInv, HeapInv,
         InWrite, WriterIn
    <2>5. ReadInv'
      BY <1>13 DEF IInv, Load, Loaded, TypeOK, LockInv, ListInv, ReadInv,
         InWrite, WriterIn
    <2>6. CheckInv'
      BY <1>13 DEF IInv, Load, Loaded, TypeOK, LockInv, ListInv, HeapInv,
         CheckInv, InWrite, WriterIn, Checking
    <2>7. CrashInv'
      BY <1>13 DEF IInv, Load, Loaded, TypeOK, LockInv, ListInv, ReadInv,
         CrashInv, CrashExplained, InWrite, WriterIn, Checking
    <2> QED
      BY <2>1, <2>2, <2>3, <2>4, <2>5, <2>6, <2>7 DEF IInv
  <1>14. ASSUME NEW r \in Readers, TestNull(r) PROVE IInv'
    <2>1. TypeOK'
      BY <1>14 DEF IInv, TestNull, TypeOK
    <2>2. LockInv'
      BY <1>14 DEF IInv, TestNull, TypeOK, LockInv, InWrite, WriterIn
    <2>3. ListInv'
      BY <1>14 DEF IInv, TestNull, TypeOK, LockInv, ListInv, InWrite, WriterIn
    <2>4. HeapInv'
      BY <1>14 DEF IInv, TestNull, TypeOK, LockInv, ListInv, HeapInv, InWrite,
         WriterIn
    <2>5. ReadInv'
      BY <1>14 DEF IInv, TestNull, TypeOK, LockInv, ListInv, ReadInv, InWrite,
         WriterIn
    <2>6. CheckInv'
      BY <1>14 DEF IInv, TestNull, TypeOK, LockInv, ListInv, HeapInv, CheckInv,
         InWrite, WriterIn, Checking
    <2>7. CrashInv'
      BY <1>14 DEF IInv, TestNull, TypeOK, LockInv, ListInv, ReadInv, CrashInv,
         CrashExplained, InWrite, WriterIn, Checking
    <2> QED
      BY <2>1, <2>2, <2>3, <2>4, <2>5, <2>6, <2>7 DEF IInv
  <1>15. ASSUME NEW r \in Readers, TestUnread(r) PROVE IInv'
    <2>1. TypeOK'
      BY <1>15 DEF IInv, TestUnread, Return, TypeOK
    <2>2. LockInv'
      BY <1>15 DEF IInv, TestUnread, Return, TypeOK, LockInv, InWrite, WriterIn
    <2>3. ListInv'
      BY <1>15 DEF IInv, TestUnread, Return, TypeOK, LockInv, ListInv, InWrite,
         WriterIn
    <2>4. HeapInv'
      BY <1>15 DEF IInv, TestUnread, Return, TypeOK, LockInv, ListInv, HeapInv,
         InWrite, WriterIn
    <2>5. ReadInv'
      BY <1>15 DEF IInv, TestUnread, Return, TypeOK, LockInv, ListInv, ReadInv,
         InWrite, WriterIn
    <2>6. CheckInv'
      BY <1>15 DEF IInv, TestUnread, Return, TypeOK, LockInv, ListInv, HeapInv,
         CheckInv, InWrite, WriterIn, Checking
    <2>7. CrashInv'
      BY <1>15 DEF IInv, TestUnread, Return, TypeOK, LockInv, ListInv, ReadInv,
         CrashInv, CrashExplained, InWrite, WriterIn, Checking
    <2> QED
      BY <2>1, <2>2, <2>3, <2>4, <2>5, <2>6, <2>7 DEF IInv
  <1>16. ASSUME NEW r \in Readers, TestRead(r) PROVE IInv'
    <2>1. TypeOK'
      BY <1>16 DEF IInv, TypeOK, CheckInv, TestRead
    <2>2. LockInv'
      BY <1>16 DEF IInv, TestRead, MoreFlags, TypeOK, LockInv, InWrite,
         WriterIn
    <2>3. ListInv'
      BY <1>16 DEF IInv, TestRead, MoreFlags, TypeOK, LockInv, ListInv,
         InWrite, WriterIn
    <2>4. HeapInv'
      BY <1>16 DEF IInv, TestRead, MoreFlags, TypeOK, LockInv, ListInv,
         HeapInv, InWrite, WriterIn
    <2>5. ReadInv'
      BY <1>16 DEF IInv, TestRead, MoreFlags, TypeOK, LockInv, ListInv,
         ReadInv, InWrite, WriterIn
    <2>6. CheckInv'
      <3>1. ~overtaken => heap[ptr[r]] = "live"
        BY <1>16 DEF IInv, TypeOK, ListInv, HeapInv, CheckInv, TestRead
      <3>2. heap[ptr[r]] = "live" => idx[r] \in seen[ptr[r]]
        <4>1. idx[r] < THREAD_NR
          BY <1>16 DEF IInv, CheckInv, TestRead
        <4> QED
          BY <1>16, <4>1, Zenon DEF TestRead, FlagValues
      <3> QED
        BY <1>16, <3>1, <3>2 DEF IInv, TypeOK, ListInv, CheckInv, Checking,
           TestRead, MoreFlags
    <2>7. CrashInv'
      BY <1>16 DEF IInv, TestRead, MoreFlags, TypeOK, LockInv, ListInv,
         ReadInv, CrashInv, CrashExplained, InWrite, WriterIn, Checking
    <2> QED
      BY <2>1, <2>2, <2>3, <2>4, <2>5, <2>6, <2>7 DEF IInv
  <1>17. ASSUME NEW r \in Readers, WrLock(r) PROVE IInv'
    <2>1. TypeOK'
      BY <1>17 DEF IInv, WrLock, WrLockFree, Dummy, TypeOK
    <2>2. LockInv'
      BY <1>17 DEF IInv, WrLock, WrLockFree, Dummy, TypeOK, LockInv, InWrite,
         WriterIn
    <2>3. ListInv'
      BY <1>17 DEF IInv, WrLock, WrLockFree, Dummy, TypeOK, LockInv, ListInv,
         InWrite, WriterIn
    <2>4. HeapInv'
      BY <1>17 DEF IInv, WrLock, WrLockFree, Dummy, TypeOK, LockInv, ListInv,
         HeapInv, InWrite, WriterIn
    <2>5. ReadInv'
      BY <1>17 DEF IInv, WrLock, WrLockFree, Dummy, TypeOK, LockInv, ListInv,
         ReadInv, InWrite, WriterIn
    <2>6. CheckInv'
      BY <1>17 DEF IInv, WrLock, WrLockFree, Dummy, TypeOK, LockInv, ListInv,
         HeapInv, CheckInv, InWrite, WriterIn, Checking
    <2>7. CrashInv'
      BY <1>17 DEF IInv, WrLock, WrLockFree, Dummy, TypeOK, LockInv, ListInv,
         ReadInv, CrashInv, CrashExplained, InWrite, WriterIn, Checking
    <2> QED
      BY <2>1, <2>2, <2>3, <2>4, <2>5, <2>6, <2>7 DEF IInv
  <1>18. ASSUME NEW r \in Readers, Unlink(r) PROVE IInv'
    <2>1. TypeOK'
      <3>1. overtaken' \in BOOLEAN
        BY <1>18, Zenon DEF IInv, TypeOK, Unlink
      <3> QED
        BY <1>18, <3>1 DEF IInv, TypeOK, ListInv, Unlink, NewHead, NewTail
    <2>2. LockInv'
      BY <1>18 DEF IInv, Unlink, NewHead, NewTail, TypeOK, LockInv, InWrite,
         WriterIn
    <2>3. ListInv'
      BY <1>18 DEF IInv, Unlink, NewHead, NewTail, TypeOK, LockInv, ListInv,
         InWrite, WriterIn
    <2>4. HeapInv'
      BY <1>18 DEF IInv, Unlink, NewHead, NewTail, TypeOK, LockInv, ListInv,
         HeapInv, InWrite, WriterIn
    <2>5. ReadInv'
      BY <1>18 DEF IInv, Unlink, NewHead, NewTail, TypeOK, LockInv, ListInv,
         ReadInv, InWrite, WriterIn
    <2>6. CheckInv'
      BY <1>18 DEF IInv, Unlink, NewHead, NewTail, TypeOK, LockInv, ListInv,
         HeapInv, CheckInv, InWrite, WriterIn, Checking
    <2>7. CrashInv'
      BY <1>18 DEF IInv, Unlink, NewHead, NewTail, TypeOK, LockInv, ListInv,
         ReadInv, CrashInv, CrashExplained, InWrite, WriterIn, Checking
    <2> QED
      BY <2>1, <2>2, <2>3, <2>4, <2>5, <2>6, <2>7 DEF IInv
  <1>19. ASSUME NEW r \in Readers, Free(r) PROVE IInv'
    <2>1. TypeOK'
      <3>1. wr' \in BOOLEAN
        BY <1>19, Zenon DEF Free
      <3> QED
        BY <1>19, <3>1 DEF IInv, TypeOK, Free, Return
    <2>2. LockInv'
      BY <1>19 DEF IInv, Free, Return, TypeOK, LockInv, InWrite, WriterIn
    <2>3. ListInv'
      BY <1>19 DEF IInv, Free, Return, TypeOK, LockInv, ListInv, InWrite, WriterIn
    <2>4. HeapInv'
      BY <1>19 DEF IInv, Free, Return, TypeOK, LockInv, ListInv, HeapInv, InWrite,
         WriterIn
    <2>5. ReadInv'
      BY <1>19 DEF IInv, Free, Return, TypeOK, LockInv, ListInv, ReadInv, InWrite,
         WriterIn
    <2>6. CheckInv'
      BY <1>19 DEF IInv, Free, Return, TypeOK, LockInv, ListInv, HeapInv, CheckInv,
         InWrite, WriterIn, Checking
    <2>7. CrashInv'
      BY <1>19 DEF IInv, Free, Return, TypeOK, LockInv, ListInv, ReadInv, CrashInv,
         CrashExplained, InWrite, WriterIn, Checking
    <2> QED
      BY <2>1, <2>2, <2>3, <2>4, <2>5, <2>6, <2>7 DEF IInv
  <1>20. CASE UNCHANGED sbVars
    BY <1>20 DEF sbVars, IInv, TypeOK, LockInv, ListInv, HeapInv, ReadInv,
       CheckInv, CrashInv, CrashExplained, InWrite, WriterIn, Checking
  <1> QED
    BY <1>1, <1>2, <1>3, <1>4, <1>5, <1>6, <1>7, <1>8, <1>9, <1>10, <1>11,
       <1>12, <1>13, <1>14, <1>15, <1>16, <1>17, <1>18, <1>19, <1>20
       DEF Next, Insert, Remove, RemoveStep, Halted

-----------------------------------------------------------------------------
\* The inductive invariant of sbuffer_insert and sbuffer_remove: who is inside, what
\* the list and the heap look like then, and which head a reader has tested.
THEOREM IInvHolds == Spec => []IInv
  BY InitIInv, NextIInv, PTL DEF Spec

\* Every variable keeps its type; in particular the node pointers of both
\* readers and the loop variable of sbuffer_remove stay in range.
THEOREM TypeCorrect == Spec => []TypeOK
  <1>1. IInv => TypeOK
    BY DEF IInv
  <1> QED
    BY <1>1, IInvHolds, PTL

\* Whenever no writer is inside, head, tail and the next pointers form the list
\* of live nodes from the oldest to the newest, however sbuffer_insert and two
\* racing sbuffer_remove calls interleave.
THEOREM ListStaysIntact == Spec => []ListIntact
  <1>1. IInv => ListIntact
    <2> SUFFICES ASSUME IInv, ~wr PROVE ListIntact
      BY DEF ListIntact
    <2> USE MaxItemsAssumption DEF IInv, TypeOK, LockInv, ListInv, WriterIn,
            NULL, Node, Addr
    <2>1. InList = {} <=> unlinked = linked
      <3>1. unlinked # linked => unlinked + 1 \in InList
        BY DEF InList
      <3>2. \A n \in InList : n \in Int /\ unlinked < n /\ n <= linked
        BY DEF InList
      <3> QED
        BY <3>1, <3>2
    <2>2. wpc \in {"idle", "lock"}
      OBVIOUS
    <2>3. \A n \in InList : n \in Node /\ unlinked < n /\ n <= linked
      BY DEF InList
    <2> QED
      BY <2>1, <2>2, <2>3 DEF ListIntact, HeapInv
  <1> QED
    BY <1>1, IInvHolds, PTL

\* sbuffer_remove frees exactly the nodes it unlinked: none leaks, and none
\* that the list still reaches is freed.
THEOREM NothingLeaks == Spec => []NoLeak
  <1>1. IInv => NoLeak
    <2> SUFFICES ASSUME IInv, ~wr, NEW n \in 1..last
                 PROVE heap[n] = "live" <=>
                         (n \in InList \/ (n = last /\ wpc = "lock"))
      BY DEF NoLeak
    <2> USE MaxItemsAssumption DEF IInv, TypeOK, LockInv, ListInv, WriterIn,
            InWrite, Node, Addr
    <2>1. n \in Node /\ wpc \in {"idle", "lock"}
      OBVIOUS
    <2>2. n \in InList <=> unlinked < n /\ n <= linked
      BY DEF InList
    <2>3. \A r \in Readers : pc[r] # "free"
      OBVIOUS
    <2>4. CASE n <= unlinked
      BY <2>1, <2>2, <2>3, <2>4 DEF HeapInv
    <2>5. CASE unlinked < n
      BY <2>1, <2>2, <2>5 DEF HeapInv
    <2> QED
      BY <2>1, <2>4, <2>5
  <1> QED
    BY <1>1, IInvHolds, PTL

\* sbuffer_read, under its read lock, never stands on freed memory.
THEOREM WalkStaysSafe == Spec => []WalkIsSafe
  <1>1. IInv => WalkIsSafe
    BY MaxItemsAssumption DEF IInv, TypeOK, ListInv, HeapInv, ReadInv,
       WalkIsSafe, NULL, Node, Addr
  <1> QED
    BY <1>1, IInvHolds, PTL

\* Each reader receives the items in insertion order.
THEOREM ReadsInOrder == Spec => []ReadPrefix
  <1>1. IInv => ReadPrefix
    BY MaxItemsAssumption DEF IInv, TypeOK, ListInv, ReadInv, ReadPrefix,
       InList, NULL, Node, Addr
  <1> QED
    BY <1>1, IInvHolds, PTL

\* As long as no sbuffer_remove unlinks while the other reader is between its
\* read and its return, no node leaves the list before both have read it.
THEOREM NothingLost == Spec => []NoLossUnlessOvertaken
  <1>1. IInv => NoLossUnlessOvertaken
    BY MaxItemsAssumption DEF IInv, TypeOK, ListInv, CheckInv,
       NoLossUnlessOvertaken, Lost, Node, Addr
  <1> QED
    BY <1>1, IInvHolds, PTL

\* A crash of sbuffer_remove on a NULL head needs an overtaken reader, or one
\* that entered with data in the list and found none left to read.
THEOREM CrashNeedsRace == Spec => []CrashExplained
  <1>1. IInv => CrashExplained
    BY DEF IInv, CrashInv
  <1> QED
    BY <1>1, IInvHolds, PTL

-----------------------------------------------------------------------------
(* What a step may never do, and the abstract queue.                       *)

\* For any number of items: no flag of a live node is ever taken back, and a call of
\* sbuffer_remove marks at most one node, under the read lock, the oldest one that its
\* reader has not read.
THEOREM FlagsNeverReset == Spec => FlagsOnlyGrow
  <1>1. IInv /\ [Next]_sbVars =>
          [\A n \in Node : heap[n] = "live" =>
             /\ seen[n] \subseteq seen'[n]
             /\ \A r \in seen'[n] \ seen[n] : Takes(r, n)]_sbVars
    <2> SUFFICES ASSUME IInv, Next, NEW n \in Node, heap[n] = "live"
                 PROVE /\ seen[n] \subseteq seen'[n]
                       /\ \A r \in seen'[n] \ seen[n] : Takes(r, n)
      OBVIOUS
    <2> USE MaxItemsAssumption DEF IInv, TypeOK, NULL, Node, Addr
    <2>1. CASE InsertAlloc
      BY <2>1 DEF InsertAlloc, HeapInv
    <2>2. ASSUME NEW q \in Readers, ReadMark(q)
          PROVE  /\ seen[n] \subseteq seen'[n]
                 /\ \A r \in seen'[n] \ seen[n] : Takes(r, n)
      <3>1. q \in rd /\ ptr[q] \in InList
        BY <2>2 DEF ReadMark, LockInv, ListInv, ReadInv, InList
      <3>2. ~got[q] /\ got'[q]
        BY <2>2 DEF ReadMark, CrashInv
      <3>3. \A m \in InList : m < ptr[q] => q \in seen[m]
        BY <2>2, <3>1 DEF ReadMark, ReadInv, InList
      <3>4. Takes(q, ptr[q])
        BY <3>1, <3>2, <3>3 DEF Takes
      <3>5. seen' = [seen EXCEPT ![ptr[q]] = seen[ptr[q]] \cup {q}]
        BY <2>2 DEF ReadMark, Marked
      <3>6. CASE n = ptr[q]
        BY <3>4, <3>5, <3>6
      <3>7. CASE n # ptr[q]
        BY <3>5, <3>7
      <3> QED
        BY <3>6, <3>7
    <2>3. CASE UNCHANGED seen
      BY <2>3
    <2> QED
      BY <2>1, <2>2, <2>3 DEF Next, Insert, Remove, RemoveStep, InsertLock,
         InsertFirst, InsertLink, InsertTail, InsertUnlock, RemoveEmpty,
         RemoveEnter, RdLock, ReadSkip, ReadNone, Load, TestNull, TestUnread,
         TestRead, WrLock, Unlink, Free, Halted, sbVars
  <1> QED
    BY <1>1, IInvHolds, PTL DEF Spec, FlagsOnlyGrow

\* The list implements the abstract queue: linking a node publishes it, the
\* mark of sbuffer_read takes it, the unlink retires it, and no other step,
\* lock, load or free among them, is visible.
THEOREM ListIsFifo == Spec => Fifo
  <1> USE MaxItemsAssumption DEF NULL, Node, Addr
  <1>1. Init => F!Init
    BY DEF Init, F!Init
  <1>2. IInv /\ [Next]_sbVars => [F!Next]_(F!vars)
    <2> SUFFICES ASSUME IInv, [Next]_sbVars PROVE [F!Next]_(F!vars)
      OBVIOUS
    <2> DEFINE taken == [r \in Readers |-> {n \in Node : r \in seen[n]}]
    <2> USE DEF IInv, TypeOK
    <2>1. CASE InsertAlloc
      <3>1. seen' = seen
        BY <2>1 DEF InsertAlloc, ReadInv, ListInv
      <3> QED
        BY <2>1, <3>1 DEF InsertAlloc, F!vars
    <2>2. CASE InsertFirst \/ InsertLink
      <3>1. linked < MaxItems /\ linked' = linked + 1 /\ unlinked' = unlinked
        BY <2>2 DEF InsertFirst, InsertLink, ListInv
      <3>2. seen' = seen
        BY <2>2 DEF InsertFirst, InsertLink
      <3> QED
        BY <3>1, <3>2 DEF F!Next, F!Publish
    <2>3. ASSUME NEW q \in Readers, ReadMark(q) PROVE F!Take(q)
      <3>1. /\ ptr[q] \in InList /\ ptr[q] \notin taken[q]
            /\ \A m \in (unlinked + 1)..(ptr[q] - 1) : m \in taken[q]
        BY <2>3 DEF ReadMark, ListInv, ReadInv, InList
      <3>2. taken' = [taken EXCEPT ![q] = @ \cup {ptr[q]}]
        <4>1. \A n \in Node : seen'[n] = IF n = ptr[q] THEN seen[n] \cup {q}
                                                       ELSE seen[n]
          BY <2>3 DEF ReadMark, Marked
        <4>2. ptr[q] \in Node
          BY <2>3 DEF ReadMark
        <4>3. ASSUME NEW r \in Readers
              PROVE  taken'[r] = IF r = q THEN taken[r] \cup {ptr[q]}
                                          ELSE taken[r]
          BY <4>1, <4>2
        <4> QED
          BY <4>3
      <3>3. UNCHANGED <<linked, unlinked>>
        BY <2>3 DEF ReadMark, listVars
      <3> QED
        BY <3>1, <3>2, <3>3 DEF F!Take, InList
    <2>4. ASSUME NEW q \in Readers, Unlink(q)
          PROVE  F!Retire \/ UNCHANGED F!vars
      BY <2>4 DEF Unlink, ListInv, F!Retire, F!vars
    <2>5. CASE UNCHANGED <<linked, unlinked, seen>>
      BY <2>5 DEF F!vars
    <2> QED
      BY <2>1, <2>2, <2>3, <2>4, <2>5 DEF F!Next, Next, Insert, Remove,
         RemoveStep, InsertLock, InsertTail, InsertUnlock, RemoveEmpty,
         RemoveEnter, RdLock, ReadSkip, ReadNone, Load, TestNull, TestUnread,
         TestRead, WrLock, Free, Halted, sbVars, listVars
  <1> QED
    BY <1>1, <1>2, IInvHolds, PTL DEF Spec, Fifo, F!Spec
=============================================================================
