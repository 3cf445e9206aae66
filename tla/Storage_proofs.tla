--------------------------- MODULE Storage_proofs ---------------------------
(***************************************************************************)
(* What the table and the counter hold, for any number of items, starts    *)
(* and clients: theorems about module Storage.                             *)
(*                                                                         *)
(* The rows are those of earlier starts, b of them, and behind these the   *)
(* items of this start from its first one on, without a gap.  IInv says so *)
(* with a number instead of sets, and adds where the thread may be with    *)
(* which connection: only that tells that a failed statement is never      *)
(* followed by a stored item, and that a record which sbuffer_remove left  *)
(* as it was only ever meets a connection that is closed.                  *)
(***************************************************************************)
EXTENDS Storage, FiniteSetTheorems, TLAPS

Types ==
    /\ pc \in {"off", "open", "create", "top", "remove", "insert", "stale", "commit",
               "count", "done", "end"}
    /\ conn \in {"null", "open", "freed"} /\ closes \in 0..CloseCap
    /\ rows \in Seq(1..MaxItems)
    /\ put \in 0..MaxItems /\ next \in Nat /\ dmNext \in Nat /\ first \in Nat \ {0}
    /\ cnt \in Int /\ starts \in 0..MaxStarts

Flags == table \in BOOLEAN /\ working \in BOOLEAN

\* How many items of this start the thread has dealt with.
ReadN == (IF InHand THEN next - 1 ELSE next) - first

Control ==
    /\ first <= next /\ next <= put + 1
    /\ first <= dmNext /\ dmNext <= put + 1
    /\ InHand => first < next
    /\ pc = "open" => conn = "null" /\ closes = 0
    /\ pc \in {"open", "create"} => next = first
    /\ pc \in {"create", "commit", "count"} => conn = "open"
    /\ pc = "remove" /\ conn = "open" => next <= put
    /\ pc = "stale" => conn # "open"

\* b rows of earlier starts, and behind them this start's, without a gap.
Since(b) == Len(rows) - b
Shape(b) ==
    /\ b \in Nat /\ b <= Len(rows) /\ b < first
    /\ \A i \in 1..b : rows[i] < first
    /\ \A i, j \in 1..b : i < j => rows[i] < rows[j]
    /\ \A i \in b + 1..Len(rows) : rows[i] = first + (i - b - 1)

Counts(b) ==
    /\ 0 <= Since(b) /\ Since(b) <= ReadN
    /\ conn = "open" /\ pc # "off" => Since(b) = ReadN
    /\ pc = "count" => Since(b) > 0
    /\ working => cnt = put - first + 1 - Since(b) + (IF pc = "count" THEN 1 ELSE 0)
    /\ ~working /\ pc \in {"remove", "insert", "stale", "commit", "count"} => cnt = -1
    /\ -2 <= cnt /\ cnt <= MaxItems

\* After the first failure the connection is gone, and at least one item is
\* missing from the table.
Closing(b) ==
    /\ conn = "open" => closes = 0
    /\ conn = "freed" /\ (closes > 1 \/ pc \notin {"end", "off"}) => Since(b) < ReadN

Shown ==
    /\ reading \subseteq Clients
    /\ shown \in [Clients -> Nat] /\ answer \in [Clients -> Int]
    /\ \A c \in Clients :
         /\ shown[c] <= Len(rows) /\ -1 <= answer[c] /\ answer[c] <= Len(rows)
         /\ ~table => answer[c] = -1
         /\ c \in reading => table /\ answer[c] <= shown[c]

TableInv(b) == Shape(b) /\ Counts(b) /\ Closing(b)

IInv == Types /\ Flags /\ Control /\ Shown /\ \E b \in Nat : TableInv(b)

-----------------------------------------------------------------------------
\* No row, no item, nothing closed.
LEMMA InitIInv == Init => IInv
  <1> SUFFICES ASSUME Init PROVE IInv
    OBVIOUS
  <1> USE StorageAssumption
  <1>1. rows = <<>> /\ Len(rows) = 0 /\ rows \in Seq(1..MaxItems)
    BY DEF Init
  <1>2. Types
    BY <1>1 DEF Init, Types, CloseCap
  <1>3. Control
    BY DEF Init, Control, InHand
  <1>4. Shown
    BY <1>1 DEF Init, Shown
  <1>4a. Flags
    BY DEF Init, Flags
  <1>5. Shape(0)
    BY <1>1 DEF Init, Shape
  <1>6. Counts(0) /\ Closing(0)
    BY <1>1 DEF Init, Counts, Closing, Since, ReadN, InHand
  <1> QED BY <1>2, <1>3, <1>4, <1>4a, <1>5, <1>6 DEF IInv, TableInv

\* A new start: all rows are of earlier ones now.
LEMMA StartStep ==
    ASSUME Types, Control, NEW b \in Nat, TableInv(b), Start
    PROVE  Types' /\ Control' /\ TableInv(Len(rows))'
  <1>0. /\ pc' = "open" /\ conn' = "null" /\ closes' = 0 /\ cnt' = 0 /\ working' = TRUE
        /\ starts < MaxStarts /\ starts' = starts + 1
        /\ next' = put + 1 /\ dmNext' = put + 1 /\ first' = put + 1
        /\ table' = table /\ rows' = rows /\ put' = put
    BY DEF Start
  <1>1. Types'
    BY <1>0, StorageAssumption DEF Types, CloseCap
  <1>2. Control'
    BY <1>0 DEF Types, Control, InHand
  <1>3. Len(rows) \in Nat /\ put \in Nat /\ first \in Nat /\ next \in Nat
    BY DEF Types
  <1>4. Since(b) <= next - first /\ next <= put + 1 /\ b < first
    BY <1>3 DEF Control, TableInv, Shape, Counts, ReadN, Since
  <1>5. Len(rows) <= put
    BY <1>3, <1>4 DEF Since
  <1>6. \A i \in 1..Len(rows) : rows[i] \in Nat
    BY StorageAssumption DEF Types
  <1>7. \A i \in 1..Len(rows) : rows[i] <= put
    BY <1>3, <1>4, <1>6 DEF TableInv, Shape, Since
  <1>8. \A i, j \in 1..Len(rows) : i < j => rows[i] < rows[j]
    BY <1>3, <1>6 DEF TableInv, Shape
  <1>9. Shape(Len(rows))'
    BY <1>0, <1>3, <1>5, <1>6, <1>7, <1>8 DEF Shape
  <1>10. Counts(Len(rows))' /\ Closing(Len(rows))'
    BY <1>0, <1>3, StorageAssumption DEF Types, Counts, Closing, Since, ReadN, InHand
  <1> QED BY <1>1, <1>2, <1>9, <1>10 DEF TableInv

\* The other steps leave the rows of earlier starts where they are: the same b.  One
\* lemma for each, one step for each conjunct.
LEMMA PutStep ==
    ASSUME Types, Control, NEW b \in Nat, TableInv(b), Put
    PROVE  Types' /\ Control' /\ TableInv(b)'
  <1> USE DEF Put
  <1>1. Types'
    BY StorageAssumption DEF Types
  <1>2. Control'
    BY DEF Types, Control, InHand
  <1>3. rows' = rows /\ first' = first /\ Len(rows) \in Nat
    BY DEF Types
  <1>4. Shape(b)'
    BY <1>3 DEF TableInv, Shape
  <1>5. Counts(b)'
    BY <1>3, StorageAssumption DEF Types, Control, TableInv, Counts, Closing, Since, ReadN, InHand
  <1>6. Closing(b)'
    BY <1>3 DEF Types, Control, TableInv, Counts, Closing, Since, ReadN, InHand
  <1> QED BY <1>1, <1>2, <1>4, <1>5, <1>6 DEF TableInv

\* The data manager reads on.
LEMMA DataMgrReadsStep ==
    ASSUME Types, Control, NEW b \in Nat, TableInv(b), DataMgrReads
    PROVE  Types' /\ Control' /\ TableInv(b)'
  <1> USE DEF DataMgrReads, gatewayVars
  <1>1. Types'
    BY DEF Types
  <1>2. Control'
    BY DEF Types, Control, InHand
  <1>3. Since(b)' = Since(b) /\ ReadN' = ReadN
    BY DEF Since, ReadN, InHand
  <1>4. TableInv(b)'
    BY <1>3 DEF TableInv, Shape, Counts, Closing
  <1> QED BY <1>1, <1>2, <1>4

\* The connection manager ends.
LEMMA CloseThreadsStep ==
    ASSUME Types, Control, NEW b \in Nat, TableInv(b), CloseThreads
    PROVE  Types' /\ Control' /\ TableInv(b)'
  <1> USE DEF CloseThreads
  <1>1. Types'
    BY StorageAssumption DEF Types
  <1>2. Control'
    BY DEF Types, Control, InHand
  <1>3. rows' = rows /\ first' = first /\ Len(rows) \in Nat
    BY DEF Types
  <1>4. Shape(b)'
    BY <1>3 DEF TableInv, Shape
  <1>5. Counts(b)'
    BY <1>3, StorageAssumption DEF Types, Control, TableInv, Counts, Closing, Since, ReadN, InHand
  <1>6. Closing(b)'
    BY <1>3 DEF Types, Control, TableInv, Counts, Closing, Since, ReadN, InHand
  <1> QED BY <1>1, <1>2, <1>4, <1>5, <1>6 DEF TableInv

\* The process ends, wherever the thread is.
LEMMA EndsStep ==
    ASSUME Types, Control, NEW b \in Nat, TableInv(b), Ends
    PROVE  Types' /\ Control' /\ TableInv(b)'
  <1> USE DEF Ends
  <1>1. Types'
    BY StorageAssumption DEF Types
  <1>2. Control'
    BY DEF Types, Control, InHand
  <1>3. rows' = rows /\ first' = first /\ Len(rows) \in Nat
    BY DEF Types
  <1>4. Shape(b)'
    BY <1>3 DEF TableInv, Shape
  <1>5. Counts(b)'
    BY <1>3, StorageAssumption DEF Types, Control, TableInv, Counts, Closing, Since, ReadN, InHand
  <1>6. Closing(b)'
    BY <1>3 DEF Types, Control, TableInv, Counts, Closing, Since, ReadN, InHand
  <1> QED BY <1>1, <1>2, <1>4, <1>5, <1>6 DEF TableInv

\* sqlite3_open, which may fail.
LEMMA OpenStep ==
    ASSUME Types, Control, NEW b \in Nat, TableInv(b), Open
    PROVE  Types' /\ Control' /\ TableInv(b)'
  <1> USE DEF Open
  <1>1. Types'
    BY StorageAssumption DEF Types
  <1>2. Control'
    BY DEF Types, Control, InHand
  <1>3. rows' = rows /\ first' = first /\ Len(rows) \in Nat
    BY DEF Types
  <1>4. Shape(b)'
    BY <1>3 DEF TableInv, Shape
  <1>5. Counts(b)'
    BY <1>3, StorageAssumption DEF Types, Control, TableInv, Counts, Closing, Since, ReadN, InHand
  <1>6. Closing(b)'
    BY <1>3 DEF Types, Control, TableInv, Counts, Closing, Since, ReadN, InHand
  <1> QED BY <1>1, <1>2, <1>4, <1>5, <1>6 DEF TableInv

\* CREATE TABLE IF NOT EXISTS; when it fails, the connection is NULL from then on.
LEMMA CreateTableStep ==
    ASSUME Types, Control, NEW b \in Nat, TableInv(b), CreateTable
    PROVE  Types' /\ Control' /\ TableInv(b)'
  <1> USE DEF CreateTable, Create, Closed, CloseCap, gatewayVars
  <1>1. Types'
    BY StorageAssumption DEF Types
  <1>2. Control'
    BY DEF Types, Control, InHand
  <1>3. rows' = rows /\ first' = first /\ Len(rows) \in Nat
    BY DEF Types
  <1>4. Shape(b)'
    BY <1>3 DEF TableInv, Shape
  <1>5. Counts(b)'
    BY <1>3, StorageAssumption DEF Types, Control, TableInv, Counts, Closing, Since, ReadN, InHand
  <1>6. Closing(b)'
    BY <1>3 DEF Types, Control, TableInv, Counts, Closing, Since, ReadN, InHand
  <1> QED BY <1>1, <1>2, <1>4, <1>5, <1>6 DEF TableInv

\* The tests at the top of the loop.
LEMMA TopStep ==
    ASSUME Types, Control, NEW b \in Nat, TableInv(b), Top
    PROVE  Types' /\ Control' /\ TableInv(b)'
  <1> USE DEF Top, threadUnchanged, gatewayVars
  <1>1. Types'
    BY StorageAssumption DEF Types
  <1>2. Control'
    <2>1. pc' = "remove" /\ conn = "open" => next <= put
      <3> SUFFICES ASSUME pc' = "remove", conn = "open" PROVE next <= put
        OBVIOUS
      <3>1. pc = "top" /\ working /\ cnt # 0
        OBVIOUS
      <3>2. Since(b) = next - first /\ cnt = put - first + 1 - Since(b)
        <4>1. Since(b) = ReadN
          BY <3>1 DEF TableInv, Counts
        <4>2. ReadN = next - first
          BY <3>1 DEF ReadN, InHand
        <4>3. cnt = put - first + 1 - Since(b) + 0
          BY <3>1 DEF TableInv, Counts
        <4> QED BY <4>1, <4>2, <4>3 DEF Types
      <3> QED BY <3>1, <3>2 DEF Types, Control
    <2> QED BY <2>1 DEF Types, Control, InHand
  <1>3. rows' = rows /\ first' = first /\ Len(rows) \in Nat
    BY DEF Types
  <1>4. Shape(b)'
    BY <1>3 DEF TableInv, Shape
  <1>5. Counts(b)'
    BY <1>3, StorageAssumption DEF Types, Control, TableInv, Counts, Closing, Since, ReadN, InHand
  <1>6. Closing(b)'
    BY <1>3 DEF Types, Control, TableInv, Counts, Closing, Since, ReadN, InHand
  <1> QED BY <1>1, <1>2, <1>4, <1>5, <1>6 DEF TableInv

\* sbuffer_remove: one more item is read, or the buffer is empty.
LEMMA RemoveStep ==
    ASSUME Types, Control, NEW b \in Nat, TableInv(b), Remove
    PROVE  Types' /\ Control' /\ TableInv(b)'
  <1>0. /\ pc = "remove" /\ conn' = conn /\ closes' = closes /\ rows' = rows
        /\ first' = first /\ put' = put /\ cnt' = cnt /\ working' = working
        /\ table' = table /\ starts' = starts /\ dmNext' = dmNext
    BY DEF Remove, threadUnchanged, gatewayVars
  <1>1. \/ next <= put /\ pc' = "insert" /\ next' = next + 1
        \/ next > put /\ pc' \in {"stale", "done"} /\ next' = next
    BY <1>0 DEF Remove
  <1>2. Types'
    BY <1>0, <1>1 DEF Types
  <1>3. Control'
    BY <1>0, <1>1 DEF Types, Control, InHand
  <1>4. Len(rows) \in Nat
    BY DEF Types
  <1>5. Shape(b)'
    BY <1>0, <1>4 DEF TableInv, Shape
  <1>6. ReadN' = ReadN /\ ReadN = next - first
    BY <1>0, <1>1 DEF Types, ReadN, InHand
  <1>7. Counts(b)'
    BY <1>0, <1>1, <1>4, <1>6, StorageAssumption DEF Types, TableInv, Counts, Since
  <1>8. Closing(b)'
    BY <1>0, <1>1, <1>4, <1>6 DEF Types, TableInv, Closing, Since
  <1> QED BY <1>2, <1>3, <1>5, <1>7, <1>8 DEF TableInv

\* sqlite3_exec up to the commit.
LEMMA InsertStep ==
    ASSUME Types, Control, NEW b \in Nat, TableInv(b), Insert
    PROVE  Types' /\ Control' /\ TableInv(b)'
  <1>0. /\ pc \in {"insert", "stale"} /\ conn' = conn /\ rows' = rows /\ next' = next
        /\ first' = first /\ put' = put /\ cnt' = cnt /\ working' = working
        /\ table' = table /\ starts' = starts /\ dmNext' = dmNext
    BY DEF Insert, threadUnchanged, gatewayVars
  <1>1. \/ conn = "open" /\ pc' = "commit" /\ closes' = closes
        \/ conn = "null" /\ pc' = "top" /\ closes' = closes
        \/ conn = "freed" /\ pc' \in {"top", "off"} /\ closes' \in 0..CloseCap
    <2>1. CASE conn = "open"
      BY <2>1 DEF Insert
    <2>2. CASE conn = "null"
      BY <2>2 DEF Insert
    <2>3. CASE conn = "freed"
      BY <2>3 DEF Insert, Closed, CloseCap, Types
    <2> QED BY <2>1, <2>2, <2>3 DEF Types
  <1>2. Types'
    BY <1>0, <1>1 DEF Types
  <1>3. Control'
    BY <1>0, <1>1 DEF Types, Control, InHand
  <1>4. Len(rows) \in Nat
    BY DEF Types
  <1>5. Shape(b)'
    BY <1>0, <1>4 DEF TableInv, Shape
  <1>6. /\ ReadN \in Int
        /\ ReadN' = IF pc = "stale" \/ conn = "open" THEN ReadN ELSE ReadN + 1
    BY <1>0, <1>1 DEF Types, Control, ReadN, InHand
  <1>7. Counts(b)'
    BY <1>0, <1>1, <1>4, <1>6, StorageAssumption DEF Types, Control, TableInv, Counts, Since
  <1>8. Closing(b)'
    BY <1>0, <1>1, <1>4, <1>6 DEF Types, TableInv, Counts, Closing, Since
  <1> QED BY <1>2, <1>3, <1>5, <1>7, <1>8 DEF TableInv

\* A stored item is the one behind the last: with the connection still open none
\* of this start was skipped before.
LEMMA CommitStored ==
    ASSUME Types, Control, NEW b \in Nat, TableInv(b), Commit, rows' # rows
    PROVE  Types' /\ Control' /\ TableInv(b)' /\ Len(rows') >= Len(rows)
  <1>0. /\ pc = "commit" /\ pc' = "count" /\ conn' = conn /\ closes' = closes
        /\ rows' = Append(rows, next - 1) /\ next' = next
        /\ first' = first /\ put' = put /\ cnt' = cnt /\ working' = working
        /\ table' = table /\ starts' = starts /\ dmNext' = dmNext
    BY DEF Commit, threadUnchanged, gatewayVars
  <1>1. conn = "open" /\ first < next /\ next <= put + 1
    BY <1>0 DEF Control, InHand
  <1>2. next - 1 \in 1..MaxItems /\ rows \in Seq(1..MaxItems)
    BY <1>1, StorageAssumption DEF Types
  <1>3. /\ rows' \in Seq(1..MaxItems)
        /\ Len(rows) \in Nat /\ Len(rows') = Len(rows) + 1
        /\ \A i \in 1..Len(rows) : rows'[i] = rows[i]
        /\ rows'[Len(rows) + 1] = next - 1
    BY <1>0, <1>2
  <1>4. Types'
    BY <1>0, <1>3 DEF Types
  <1>5. Control'
    BY <1>0, <1>1 DEF Types, Control, InHand
  <1>6. /\ ReadN = next - 1 - first /\ Since(b) = ReadN
        /\ ReadN' = ReadN + 1 /\ Since(b)' = Since(b) + 1
    BY <1>0, <1>1, <1>3 DEF Types, TableInv, Counts, Since, ReadN, InHand
  <1>7. Shape(b)'
    <2>1. b <= Len(rows) /\ b < first
      BY DEF TableInv, Shape
    <2>2. \A i \in b + 1..Len(rows) + 1 : rows'[i] = first + (i - b - 1)
      BY <1>0, <1>3, <1>6, <2>1 DEF Types, TableInv, Shape, Since
    <2>3. \A i \in 1..b : rows'[i] = rows[i]
      BY <1>3, <2>1
    <2> QED BY <1>0, <1>3, <2>1, <2>2, <2>3 DEF TableInv, Shape
  <1>8. Since(b) \in Int /\ ReadN \in Int
    BY <1>0, <1>3, <1>6 DEF Types, Since
  <1>9. Counts(b)'
    BY <1>0, <1>1, <1>6, <1>8, StorageAssumption DEF Types, TableInv, Counts
  <1>10. Closing(b)'
    BY <1>0, <1>1, <1>6, <1>8 DEF Types, TableInv, Closing
  <1> QED BY <1>3, <1>4, <1>5, <1>7, <1>9, <1>10 DEF TableInv

\* A failed commit leaves the item out and the connection freed.
LEMMA CommitFailed ==
    ASSUME Types, Control, NEW b \in Nat, TableInv(b), Commit, rows' = rows
    PROVE  Types' /\ Control' /\ TableInv(b)'
  <1>0. /\ pc = "commit" /\ pc' = "top" /\ conn' = "freed" /\ closes' \in 0..CloseCap
        /\ next' = next /\ dmNext' = dmNext
        /\ first' = first /\ put' = put /\ cnt' = cnt /\ working' = working
        /\ table' = table /\ starts' = starts
    <2>1. Append(rows, next - 1) # rows
      BY DEF Types
    <2> QED BY <2>1 DEF Types, Closed, CloseCap, Commit, AfterFailure, AfterSkip, threadUnchanged, gatewayVars
  <1>1. conn = "open" /\ first < next /\ next <= put + 1
    BY <1>0 DEF Control, InHand
  <1>2. Types'
    BY <1>0 DEF Types
  <1>3. Control'
    BY <1>0, <1>1 DEF Types, Control, InHand
  <1>4. Len(rows) \in Nat
    BY DEF Types
  <1>5. Shape(b)'
    BY <1>0, <1>4 DEF TableInv, Shape
  <1>6. ReadN = next - 1 - first /\ ReadN' = ReadN + 1
    BY <1>0 DEF Types, ReadN, InHand
  <1>7. Counts(b)'
    BY <1>0, <1>1, <1>4, <1>6, StorageAssumption DEF Types, TableInv, Counts, Since
  <1>8. Closing(b)'
    BY <1>0, <1>1, <1>4, <1>6 DEF Types, TableInv, Counts, Closing, Since
  <1> QED BY <1>2, <1>3, <1>5, <1>7, <1>8 DEF TableInv

\* The counter goes down for an item that was stored.
LEMMA CountStep ==
    ASSUME Types, Control, NEW b \in Nat, TableInv(b), Count
    PROVE  Types' /\ Control' /\ TableInv(b)'
  <1> USE DEF Count
  <1>1. Types'
    BY StorageAssumption DEF Types
  <1>2. Control'
    BY DEF Types, Control, InHand
  <1>3. rows' = rows /\ first' = first /\ Len(rows) \in Nat
    BY DEF Types
  <1>4. Shape(b)'
    BY <1>3 DEF TableInv, Shape
  <1>5. Counts(b)'
    BY <1>3, StorageAssumption DEF Types, Control, TableInv, Counts, Closing, Since, ReadN, InHand
  <1>6. Closing(b)'
    BY <1>3 DEF Types, Control, TableInv, Counts, Closing, Since, ReadN, InHand
  <1> QED BY <1>1, <1>2, <1>4, <1>5, <1>6 DEF TableInv

\* The connection is closed at the end of the thread, once more perhaps.
LEMMA DisconnectStep ==
    ASSUME Types, Control, NEW b \in Nat, TableInv(b), Disconnect
    PROVE  Types' /\ Control' /\ TableInv(b)'
  <1> USE DEF Disconnect, Closed, CloseCap, threadUnchanged, gatewayVars
  <1>1. Types'
    BY StorageAssumption DEF Types
  <1>2. Control'
    BY DEF Types, Control, InHand
  <1>3. rows' = rows /\ first' = first /\ Len(rows) \in Nat
    BY DEF Types
  <1>4. Shape(b)'
    BY <1>3 DEF TableInv, Shape
  <1>5. Counts(b)'
    BY <1>3, StorageAssumption DEF Types, Control, TableInv, Counts, Closing, Since, ReadN, InHand
  <1>6. Closing(b)'
    BY <1>3 DEF Types, Control, TableInv, Counts, Closing, Since, ReadN, InHand
  <1> QED BY <1>1, <1>2, <1>4, <1>5, <1>6 DEF TableInv

\* What neither a client nor a stuttering step touches.
LEMMA FrameStep ==
    ASSUME Types, Control, NEW b \in Nat, TableInv(b),
           UNCHANGED <<pc, conn, closes, rows, next, dmNext, gatewayVars>>
    PROVE  Types' /\ Control' /\ TableInv(b)'
  <1>0. UNCHANGED <<pc, conn, closes, rows, next, dmNext, put, cnt, working, starts, first>>
    BY DEF gatewayVars
  <1>1. Types' /\ Control'
    BY <1>0 DEF Types, Control, InHand
  <1>2. Since(b)' = Since(b) /\ ReadN' = ReadN
    BY <1>0 DEF Since, ReadN, InHand
  <1>3. TableInv(b)'
    BY <1>0, <1>2 DEF TableInv, Shape, Counts, Closing
  <1> QED BY <1>1, <1>3

\* Only Put, CloseThreads, Start, Ends and Open change working, only CreateTable
\* the table.
LEMMA FlagsStep == ASSUME Flags, [Next]_vars PROVE Flags'
  <1> USE DEF Flags
  <1>1. CASE Start \/ Put \/ DataMgrReads \/ CloseThreads \/ Ends
    BY <1>1 DEF Start, Put, DataMgrReads, CloseThreads, Ends, gatewayVars
  <1>2. CASE Open \/ CreateTable
    BY <1>2 DEF Open, CreateTable, gatewayVars
  <1>3. CASE Top \/ Remove \/ Insert \/ Commit \/ Count \/ Disconnect
    BY <1>3 DEF Top, Remove, Insert, Commit, Count, Disconnect, threadUnchanged, gatewayVars
  <1>4. CASE \E c \in Clients : Query(c) \/ Answer(c)
    BY <1>4 DEF Query, Answer, gatewayVars
  <1>5. CASE UNCHANGED vars
    BY <1>5 DEF vars, gatewayVars
  <1> QED BY <1>1, <1>2, <1>3, <1>4, <1>5 DEF Next, Thread

\* The clients do not see the thread: their part stays, no row is lost and the
\* table is not dropped.
LEMMA GatewaySide ==
    ASSUME Types, [Next]_vars
    PROVE  \/ \E c \in Clients : Query(c) \/ Answer(c)
           \/ /\ UNCHANGED clientVars
              /\ Len(rows) \in Nat /\ Len(rows') \in Nat /\ Len(rows') >= Len(rows)
              /\ table => table'
  <1>0. Len(rows) \in Nat
    BY DEF Types
  <1>1. CASE Start \/ Put \/ DataMgrReads \/ CloseThreads \/ Ends \/ Open \/ Count
    BY <1>0, <1>1 DEF Start, Put, DataMgrReads, CloseThreads, Ends, Open, Count
  <1>2. CASE CreateTable
    BY <1>0, <1>2 DEF CreateTable, Create
  <1>3. CASE Top \/ Remove \/ Insert \/ Disconnect
    <2>1. rows' = rows /\ threadUnchanged' = threadUnchanged
      BY <1>3 DEF Top, Remove, Insert, Disconnect
    <2> QED BY <1>0, <2>1 DEF threadUnchanged
  <1>4. CASE Commit
    <2>1. UNCHANGED <<clientVars, table>> /\ (rows' = rows \/ rows' = Append(rows, next - 1))
      BY <1>4 DEF Commit, threadUnchanged
    <2>2. Len(Append(rows, next - 1)) = Len(rows) + 1
      BY DEF Types
    <2> QED BY <1>0, <2>1, <2>2
  <1>5. CASE UNCHANGED vars
    BY <1>0, <1>5 DEF vars
  <1> QED BY <1>1, <1>2, <1>3, <1>4, <1>5 DEF Next, Thread

\* The clients' part, and with it what a client is shown.
LEMMA ShownStep ==
    ASSUME Types, Shown, [Next]_vars
    PROVE  Shown' /\ \A c \in Clients : answer'[c] >= answer[c]
  <1>0. Len(rows) \in Nat
    BY DEF Types
  <1>1. CASE UNCHANGED clientVars /\ Len(rows') \in Nat /\ Len(rows') >= Len(rows)
             /\ (table => table')
    BY <1>0, <1>1 DEF Shown, clientVars
  <1>2. ASSUME NEW c \in Clients, Query(c)
        PROVE  Shown' /\ \A d \in Clients : answer'[d] >= answer[d]
    <2>0. rows' = rows /\ table' = table /\ c \notin reading
      BY <1>2 DEF Query
    <2>1. CASE table
      <3>1. /\ reading' = reading \cup {c} /\ answer' = answer
            /\ shown' = [shown EXCEPT ![c] = Len(rows)]
        BY <1>2, <2>1 DEF Query
      <3> QED BY <1>0, <2>0, <2>1, <3>1 DEF Shown
    <2>2. CASE ~table
      <3>1. /\ reading' = reading /\ shown' = shown
            /\ answer' = [answer EXCEPT ![c] = -1]
        BY <1>2, <2>2 DEF Query
      <3> QED BY <1>0, <2>0, <2>2, <3>1 DEF Shown
    <2> QED BY <2>1, <2>2
  <1>3. ASSUME NEW c \in Clients, Answer(c)
        PROVE  Shown' /\ \A d \in Clients : answer'[d] >= answer[d]
    <2>1. /\ rows' = rows /\ table' = table /\ shown' = shown
          /\ c \in reading /\ reading' = reading \ {c}
          /\ answer' = [answer EXCEPT ![c] = shown[c]]
      BY <1>3 DEF Answer
    <2>2. /\ shown[c] \in Nat /\ answer[c] \in Int
          /\ answer[c] <= shown[c] /\ shown[c] <= Len(rows)
      BY <2>1 DEF Shown
    <2>3. answer' \in [Clients -> Int] /\ reading' \subseteq Clients
      BY <2>1, <2>2 DEF Shown
    <2>4. table
      BY <2>1 DEF Shown
    <2>5. ASSUME NEW d \in Clients
          PROVE  /\ answer'[d] >= answer[d] /\ -1 <= answer'[d] /\ answer'[d] <= Len(rows)
                 /\ d \in reading' => answer'[d] <= shown[d]
      BY <1>0, <2>1, <2>2 DEF Shown
    <2> QED BY <2>1, <2>3, <2>4, <2>5 DEF Shown
  <1> QED BY <1>1, <1>2, <1>3, GatewaySide

\* IInv is inductive: the steps above, put together.
LEMMA NextIInv == IInv /\ [Next]_vars => IInv'
  <1> SUFFICES ASSUME IInv, [Next]_vars PROVE IInv'
    OBVIOUS
  <1>1. PICK b \in Nat : TableInv(b)
    BY DEF IInv
  <1>2. Types /\ Control /\ Flags /\ Shown
    BY DEF IInv
  <1>3. Types' /\ Control' /\ \E n \in Nat : TableInv(n)'
    <2>1. CASE Start
      <3>1. Len(rows') \in Nat /\ rows' = rows
        BY <1>2, <2>1 DEF Types, Start
      <3>2. Types' /\ Control' /\ TableInv(Len(rows))'
        BY <1>1, <1>2, <2>1, StartStep
      <3> QED BY <3>1, <3>2
    <2>2. CASE Put
      BY <1>1, <1>2, <2>2, PutStep
    <2>2a. CASE DataMgrReads
      BY <1>1, <1>2, <2>2a, DataMgrReadsStep
    <2>3. CASE CloseThreads
      BY <1>1, <1>2, <2>3, CloseThreadsStep
    <2>4. CASE Ends
      BY <1>1, <1>2, <2>4, EndsStep
    <2>5. CASE Open
      BY <1>1, <1>2, <2>5, OpenStep
    <2>6. CASE CreateTable
      BY <1>1, <1>2, <2>6, CreateTableStep
    <2>7. CASE Top
      BY <1>1, <1>2, <2>7, TopStep
    <2>8. CASE Remove
      BY <1>1, <1>2, <2>8, RemoveStep
    <2>9. CASE Insert
      BY <1>1, <1>2, <2>9, InsertStep
    <2>10. CASE Commit
      BY <1>1, <1>2, <2>10, CommitStored, CommitFailed
    <2>11. CASE Count
      BY <1>1, <1>2, <2>11, CountStep
    <2>12. CASE Disconnect
      BY <1>1, <1>2, <2>12, DisconnectStep
    <2>13. CASE \E c \in Clients : Query(c) \/ Answer(c)
      <3>1. UNCHANGED <<pc, conn, closes, rows, next, dmNext, gatewayVars>>
        BY <2>13 DEF Query, Answer
      <3> QED BY <1>1, <1>2, <3>1, FrameStep
    <2>14. CASE UNCHANGED vars
      <3>1. UNCHANGED <<pc, conn, closes, rows, next, dmNext, gatewayVars>>
        BY <2>14 DEF vars
      <3> QED BY <1>1, <1>2, <3>1, FrameStep
    <2> QED BY <2>1, <2>2, <2>2a, <2>3, <2>4, <2>5, <2>6, <2>7, <2>8, <2>9, <2>10, <2>11,
               <2>12, <2>13, <2>14 DEF Next, Thread
  <1>4. Flags' /\ Shown'
    BY <1>2, FlagsStep, ShownStep
  <1> QED BY <1>3, <1>4 DEF IInv

-----------------------------------------------------------------------------
(* What IInv says of the table, in the words of the properties.            *)

\* What is stored and what was read are intervals that begin with the start's first item.
LEMMA StoredIsInterval ==
    ASSUME Types, Control, NEW b \in Nat, TableInv(b)
    PROVE  /\ Since(b) \in Nat /\ ReadN \in Int /\ Since(b) <= ReadN
           /\ Stored = first..first + Since(b) - 1
           /\ Cardinality(Stored) = Since(b)
           /\ Read = first..first + ReadN - 1
           /\ first + ReadN - 1 <= put /\ Len(rows) <= put
  <1>1. /\ Len(rows) \in Nat /\ put \in Nat /\ first \in Nat /\ next \in Nat
        /\ first <= next /\ next <= put + 1 /\ (InHand => first < next)
    BY DEF Types, Control
  <1>2. /\ b <= Len(rows) /\ b < first /\ Since(b) <= ReadN
        /\ \A i \in 1..b : rows[i] < first
        /\ \A i \in b + 1..Len(rows) : rows[i] = first + (i - b - 1)
    BY DEF TableInv, Shape, Counts
  <1>3. Since(b) \in Nat /\ ReadN \in Int /\ first + ReadN - 1 <= put
    BY <1>1, <1>2 DEF Since, ReadN
  <1>4. Len(rows) <= put
    BY <1>1, <1>2, <1>3 DEF Since
  <1>5. ASSUME NEW n \in Stored PROVE n \in first..first + Since(b) - 1
    <2>1. PICK i \in 1..Len(rows) : n = rows[i]
      BY DEF Stored
    <2>2. n \in Int /\ first <= n
      BY <1>1 DEF Stored
    <2>3. ~(i <= b)
      BY <1>1, <1>2, <2>1, <2>2
    <2> QED BY <1>1, <1>2, <2>1, <2>3 DEF Since
  <1>6. ASSUME NEW n \in first..first + Since(b) - 1 PROVE n \in Stored
    <2> DEFINE i == b + 1 + (n - first)
    <2>1. i \in b + 1..Len(rows) /\ i \in 1..Len(rows) /\ first + (i - b - 1) = n
      BY <1>1, <1>2 DEF Since
    <2>2. rows[i] = n
      BY <1>2, <2>1
    <2>3. n \in first..put
      BY <1>1, <1>2, <1>3
    <2> QED BY <2>1, <2>2, <2>3 DEF Stored
  <1>7. Stored = first..first + Since(b) - 1
    BY <1>5, <1>6
  <1>8. Cardinality(Stored) = Since(b)
    <2> DEFINE last == first + Since(b) - 1
    <2>1. first \in Int /\ last \in Int
      BY <1>1, <1>3
    <2>2. Cardinality(first..last) = IF first > last THEN 0 ELSE last - first + 1
      BY <2>1, FS_Interval
    <2>3. (IF first > last THEN 0 ELSE last - first + 1) = Since(b)
      BY <1>1, <1>3
    <2> QED BY <1>7, <2>2, <2>3
  <1>9. Read = first..first + ReadN - 1
    BY <1>1 DEF Read, ReadN
  <1> QED BY <1>2, <1>3, <1>4, <1>7, <1>8, <1>9

\* The bounds of TypeOK follow: nothing is stored more often than read.
LEMMA IInvTypes == IInv => TypeOK
  <1> SUFFICES ASSUME IInv PROVE TypeOK
    OBVIOUS
  <1>1. PICK b \in Nat : TableInv(b)
    BY DEF IInv
  <1>2. Types /\ Control /\ Flags /\ Shown
    BY DEF IInv
  <1>3. ReadN \in Int /\ first + ReadN - 1 <= put /\ Len(rows) <= put
    BY <1>1, <1>2, StoredIsInterval
  <1>4. /\ Len(rows) \in Nat /\ put \in Nat /\ first \in Nat \ {0} /\ next \in Nat
        /\ put <= MaxItems /\ first <= next /\ next <= put + 1 /\ MaxItems \in Nat
    BY <1>2, StorageAssumption DEF Types, Control
  <1>5. /\ next \in first..put + 1 /\ first \in 1..MaxItems + 1
        /\ dmNext \in first..put + 1
    BY <1>2, <1>4 DEF Types, Control
  <1>7. cnt \in -2..MaxItems
    BY <1>1, <1>2, <1>4 DEF Types, TableInv, Counts
  <1>8. shown \in [Clients -> 0..MaxItems]
    BY <1>2, <1>3, <1>4 DEF Shown
  <1>9. answer \in [Clients -> -1..MaxItems]
    BY <1>2, <1>3, <1>4 DEF Shown
  <1> QED BY <1>2, <1>5, <1>7, <1>8, <1>9 DEF TypeOK, Types, Flags, Shown

\* An open connection has stored all that was read, a freed one less.
LEMMA IInvStored == IInv => StoredPrefix
  <1> SUFFICES ASSUME IInv PROVE StoredPrefix
    OBVIOUS
  <1>1. PICK b \in Nat : TableInv(b)
    BY DEF IInv
  <1>2. Types /\ Control
    BY DEF IInv
  <1>3. /\ Since(b) \in Nat /\ ReadN \in Int /\ Since(b) <= ReadN
        /\ Stored = first..first + Since(b) - 1
        /\ Cardinality(Stored) = Since(b)
        /\ Read = first..first + ReadN - 1
    BY <1>1, <1>2, StoredIsInterval
  <1>4. ASSUME NEW i \in 1..Len(rows), NEW j \in 1..Len(rows), i < j
        PROVE  rows[i] < rows[j]
    <2>1. Len(rows) \in Nat /\ rows[i] \in Nat /\ rows[j] \in Nat /\ first \in Nat
      BY <1>2, StorageAssumption DEF Types
    <2> QED BY <1>1, <1>4, <2>1 DEF TableInv, Shape
  <1>5. conn = "open" /\ pc # "off" => Stored = Read
    BY <1>1, <1>3 DEF TableInv, Counts
  <1>6. ASSUME closes > 1, conn # "null" PROVE Stored # Read
    <2>1. Since(b) < ReadN
      BY <1>1, <1>2, <1>6 DEF Types, TableInv, Closing
    <2>2. first + Since(b) \in Read /\ first + Since(b) \notin Stored
      BY <1>2, <1>3, <2>1 DEF Types
    <2> QED BY <2>2
  <1> QED BY <1>3, <1>4, <1>5, <1>6, IInvTypes DEF StoredPrefix

\* For any number of items, starts and clients, and whatever fails when: the
\* table holds the items in order, none twice; of this start all that were read
\* while the connection stood, and none behind one that was skipped (insert_sensor,
\* sql_query).
THEOREM TableIsPrefix == Spec => []StoredPrefix
  <1>1. Init => IInv
    BY InitIInv
  <1>2. IInv /\ [Next]_vars => IInv'
    BY NextIInv
  <1>3. IInv => StoredPrefix
    BY IInvStored
  <1> QED BY <1>1, <1>2, <1>3, PTL DEF Spec

\* While the gateway works, *data_sensor_db is the number of items of this start
\* that are not in the table: those still in the buffer and those skipped.
THEOREM CounterIsUnstored == Spec => []CountsUnstored
  <1>1. Init => IInv
    BY InitIInv
  <1>2. IInv /\ [Next]_vars => IInv'
    BY NextIInv
  <1>3. IInv => CountsUnstored
    <2> SUFFICES ASSUME IInv PROVE CountsUnstored
      OBVIOUS
    <2>1. PICK b \in Nat : TableInv(b)
      BY DEF IInv
    <2>2. Cardinality(Stored) = Since(b)
      BY <2>1, StoredIsInterval DEF IInv
    <2> QED BY <2>1, <2>2 DEF TableInv, Counts, CountsUnstored
  <1> QED BY <1>1, <1>2, <1>3, PTL DEF Spec

\* No answer of a route of app.py shows fewer rows than the last one to the same
\* client, through any number of failures and new starts of the gateway.
THEOREM ClientsSeeGrowth == Spec => AnswersGrow
  <1>1. Init => IInv
    BY InitIInv
  <1>2. IInv /\ [Next]_vars => IInv'
    BY NextIInv
  <1>3. IInv /\ [Next]_vars => [\A c \in Clients : answer'[c] >= answer[c]]_vars
    BY ShownStep DEF IInv
  <1> QED BY <1>1, <1>2, <1>3, PTL DEF Spec, AnswersGrow

=============================================================================
