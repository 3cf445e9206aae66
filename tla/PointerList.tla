---------------------------- MODULE PointerList ----------------------------
(***************************************************************************)
(* dplist.c: the doubly linked list under the connection manager and the   *)
(* data manager.  A list belongs to one thread, so that a call is one      *)
(* step; only dpl_free, a loop of removals, is one step per removal.       *)
(* Memory comes from a pool of nodes and is reused after free.  Both users *)
(* insert copies and free the element with its node, so the element lives  *)
(* as long as the node and has its name; what element_compare sees of it   *)
(* is its key.                                                             *)
(***************************************************************************)
EXTENDS Integers, FiniteSets, Sequences, SequencesExt

CONSTANTS
    Node,           \* the addresses malloc may return
    Key,            \* what element_compare tells apart
    NULL, NONE      \* no node, no element

ASSUME ListAssumption ==
    /\ IsFiniteSet(Node) /\ NULL \notin Node
    /\ NONE \notin Key

VARIABLES
    head,           \* list->head
    prev, next,     \* node -> its links
    key,            \* node -> its element
    live,           \* the nodes that are allocated
    state,          \* "list", "freeing" (dpl_free), "gone" or "aborted"
    size, turn      \* dpl_free: its local variables

listVars == <<head, prev, next, key, live, state, size, turn>>

\* An index before the list means its first position, one beyond it the last.
Clamped(i, last) == IF i < 0 THEN 0 ELSE IF i > last THEN last ELSE i

Init ==
    /\ head = NULL
    /\ prev = [n \in Node |-> NULL] /\ next = [n \in Node |-> NULL]
    /\ key = [n \in Node |-> NONE]
    /\ live = {}
    /\ state = "list"
    /\ size = 0 /\ turn = 0

-----------------------------------------------------------------------------
(* The functions that only read.                                           *)

\* The node that i steps from the head lead to.
Nth[i \in Nat] ==
    IF i = 0 THEN head ELSE IF Nth[i-1] = NULL THEN NULL ELSE next[Nth[i-1]]

dpl_size == Cardinality({i \in 0..Cardinality(Node) : Nth[i] # NULL})

Positions == 0..(dpl_size - 1)
InList == {Nth[i] : i \in Positions}

dpl_get_reference_at_index(i) ==
    IF head = NULL THEN NULL ELSE Nth[Clamped(i, dpl_size - 1)]

dpl_get_element_at_index(i) ==
    IF dpl_size = 0 THEN NONE ELSE key[Nth[Clamped(i, dpl_size - 1)]]

\* The first element that compares equal.
dpl_get_index_of_element(k) ==
    LET found == {i \in Positions : key[Nth[i]] = k}
    IN  IF found = {} THEN -1 ELSE Min(found)

dpl_get_element_at_reference(n) == IF n \in InList THEN key[n] ELSE NONE

\* By its element: the reference must be in the list, or element_compare would
\* be given a NULL element.
dpl_get_index_of_reference(n) ==
    dpl_get_index_of_element(dpl_get_element_at_reference(n))

dpl_get_first_reference == dpl_get_reference_at_index(0)
dpl_get_last_reference == dpl_get_reference_at_index(dpl_size)

dpl_get_next_reference_Mutant(n) ==
    dpl_get_reference_at_index(dpl_get_index_of_reference(n))
dpl_get_next_reference(n) ==
    dpl_get_reference_at_index(dpl_get_index_of_reference(n) + 1)

dpl_get_previous_reference(n) ==
    dpl_get_reference_at_index(dpl_get_index_of_reference(n) - 1)

dpl_get_reference_of_element(k) ==
    dpl_get_reference_at_index(dpl_get_index_of_element(k))

-----------------------------------------------------------------------------
(* dpl_insert_at_index: the four cases of its comments.                    *)

\* Case 1, the empty list.
LinkAlone(n) ==
    /\ head' = n
    /\ prev' = [prev EXCEPT ![n] = NULL]
    /\ next' = [next EXCEPT ![n] = NULL]

\* Case 2, before the head.
LinkFirst(n) ==
    /\ head' = n
    /\ prev' = [prev EXCEPT ![n] = NULL, ![head] = n]
    /\ next' = [next EXCEPT ![n] = head]

\* Case 4, before the node r.
LinkBefore(n, r) ==
    /\ prev' = [prev EXCEPT ![n] = prev[r], ![r] = n]
    /\ next' = [next EXCEPT ![n] = r, ![prev[r]] = n]
    /\ UNCHANGED head

\* Case 3, after the node r.
LinkLast(n, r) ==
    /\ prev' = [prev EXCEPT ![n] = r]
    /\ next' = [next EXCEPT ![n] = NULL, ![r] = n]
    /\ UNCHANGED head

\* The two asserts, about the node r found for the index i > 0.
Asserted(i, r) == r # NULL /\ (i >= dpl_size => next[r] = NULL)

Link(n, i) ==
    LET r == dpl_get_reference_at_index(i) IN
    \/ head = NULL /\ LinkAlone(n)
    \/ head # NULL /\ i <= 0 /\ LinkFirst(n)
    \/ head # NULL /\ i > 0 /\ i < dpl_size /\ LinkBefore(n, r)
    \/ head # NULL /\ i > 0 /\ i >= dpl_size /\ LinkLast(n, r)

dpl_insert_at_index(i, k) ==
    /\ state = "list"
    /\ \E n \in Node \ live :
         /\ key' = [key EXCEPT ![n] = k]
         /\ live' = live \cup {n}
         /\ IF head # NULL /\ i > 0
               /\ ~Asserted(i, dpl_get_reference_at_index(i))
              THEN state' = "aborted" /\ UNCHANGED <<head, prev, next>>
              ELSE Link(n, i) /\ UNCHANGED state
    /\ UNCHANGED <<size, turn>>

dpl_insert_at_reference(n, k) ==
    n \in InList /\ dpl_insert_at_index(dpl_get_index_of_reference(n), k)

-----------------------------------------------------------------------------
(* dpl_remove_at_index.                                                    *)

UnlinkHead(n) ==
    /\ head' = next[n]
    /\ prev' = IF next[n] = NULL THEN prev ELSE [prev EXCEPT ![next[n]] = NULL]
    /\ next' = [next EXCEPT ![n] = NULL]

UnlinkLast(n) ==
    /\ prev' = [prev EXCEPT ![n] = NULL]
    /\ next' = [next EXCEPT ![prev[n]] = NULL]
    /\ UNCHANGED head

NextPrev_Mutant(n) == prev
NextPrev(n) == [prev EXCEPT ![next[n]] = prev[n]]

UnlinkInner(n) ==
    /\ prev' = [NextPrev(n) EXCEPT ![n] = NULL]
    /\ next' = [next EXCEPT ![prev[n]] = next[n], ![n] = NULL]
    /\ UNCHANGED head

RemovedIndex_Mutant(i) == Clamped(i - 1, dpl_size - 1)
RemovedIndex(i) == Clamped(i, dpl_size - 1)

Removed(i) ==
    IF dpl_size = 0 THEN UNCHANGED <<head, prev, next, live>>
    ELSE LET at == RemovedIndex(i)
             n  == Nth[at]
         IN /\ \/ at = 0 /\ UnlinkHead(n)
               \/ at # 0 /\ at = dpl_size - 1 /\ UnlinkLast(n)
               \/ at # 0 /\ at # dpl_size - 1 /\ UnlinkInner(n)
            /\ live' = live \ {n}

dpl_remove_at_index(i) ==
    /\ state = "list"
    /\ Removed(i)
    /\ UNCHANGED <<key, state, size, turn>>

dpl_remove_at_reference(n) ==
    n \in InList /\ dpl_remove_at_index(dpl_get_index_of_reference(n))

dpl_remove_element(k) == dpl_remove_at_index(dpl_get_index_of_element(k))

-----------------------------------------------------------------------------
(* dpl_free.                                                               *)

FreeBegins ==
    /\ state = "list"
    /\ state' = "freeing"
    /\ size' = dpl_size /\ turn' = 0
    /\ UNCHANGED <<head, prev, next, key, live>>

MoreToFree_Mutant == turn <= size
MoreToFree == turn < size

\* The index is the size the list had at the beginning: its last node goes.
FreeOne ==
    /\ state = "freeing" /\ MoreToFree
    /\ Removed(size)
    /\ turn' = turn + 1
    /\ UNCHANGED <<key, state, size>>

FreeEnds ==
    /\ state = "freeing" /\ ~MoreToFree
    /\ state' = "gone"
    /\ UNCHANGED <<head, prev, next, key, live, size, turn>>

-----------------------------------------------------------------------------
\* Indices from before the list to beyond it.
Indices == -1..(Cardinality(Node) + 1)

Over == state \in {"gone", "aborted"} /\ UNCHANGED listVars

Next ==
    \/ \E i \in Indices, k \in Key : dpl_insert_at_index(i, k)
    \/ \E i \in Indices : dpl_remove_at_index(i)
    \/ \E n \in Node, k \in Key : dpl_insert_at_reference(n, k)
    \/ \E n \in Node : dpl_remove_at_reference(n)
    \/ \E k \in Key : dpl_remove_element(k)
    \/ FreeBegins \/ FreeOne \/ FreeEnds
    \/ Over

Spec == Init /\ [][Next]_listVars

-----------------------------------------------------------------------------
(* Properties.                                                             *)

Addr == Node \cup {NULL}

\* The types, and dplist.c's own assertions.
TypeOK ==
    /\ head \in Addr
    /\ prev \in [Node -> Addr] /\ next \in [Node -> Addr]
    /\ key \in [Node -> Key \cup {NONE}]
    /\ live \subseteq Node
    /\ state \in {"list", "freeing", "gone"}
    /\ size \in 0..Cardinality(Node) /\ turn \in 0..size

\* Whatever sequence of insertions and removals at ends, inside and beyond, on
\* memory that is used again: the nodes in the list are the allocated ones, each
\* once, prev is next backwards, and after dpl_free none is left.
WellLinked ==
    /\ TypeOK
    /\ InList = live
    /\ \A i \in Positions :
         /\ prev[Nth[i]] = (IF i = 0 THEN NULL ELSE Nth[i-1])
         /\ Nth[i+1] = NULL <=> i = dpl_size - 1
    /\ state = "gone" => live = {}

\* The list as its users see it: the sequence of its elements.
Elements == [i \in 1..dpl_size |-> key[Nth[i-1]]]

\* No node before position i has an element that equals its element.
FirstOfKind(i) == \A j \in 0..(i-1) : key[Nth[j]] # key[Nth[i]]

\* dplist.h's contract for an index before or beyond the list, in terms of the
\* sequence (ConnectionManager and DataManager use the list this way).  A removal at
\* a reference takes out the node referred to exactly if that is the first of the
\* nodes whose elements are equal: dplist.h:208 promises it for every reference.
KeepsContract ==
    [][ /\ \A i \in Indices, k \in Key : dpl_insert_at_index(i, k) =>
             Elements' = InsertAt(Elements, Clamped(i, Len(Elements)) + 1, k)
        /\ \A i \in Indices : dpl_remove_at_index(i) =>
             Elements' =
               IF Elements = <<>> THEN <<>>
               ELSE RemoveAt(Elements, Clamped(i, Len(Elements) - 1) + 1)
        /\ \A i \in Positions : dpl_remove_at_reference(Nth[i]) =>
             (live' = live \ {Nth[i]} <=> FirstOfKind(i))
      ]_listVars

\* The operators on references go through the element to an index and back, so each
\* of them speaks of the first node with an equal element.  What dplist.h promises
\* of them holds exactly this far: the index, and the reference of the element, are
\* the node's own if it is the first of its kind; next and previous are then its
\* neighbours where it has them.  Where it has none dplist.h:140-160 says NULL, and
\* the code never returns it.
ReferencesWork ==
    \A i \in Positions :
        LET n == Nth[i] IN
        /\ dpl_get_index_of_reference(n) \in 0..i
        /\ dpl_get_index_of_reference(n) = i <=> FirstOfKind(i)
        /\ dpl_get_reference_of_element(key[n]) = n <=> FirstOfKind(i)
        /\ dpl_get_element_at_index(i) = key[n]
        /\ dpl_get_next_reference(n) = next[n] <=> FirstOfKind(i) /\ next[n] # NULL
        /\ FirstOfKind(i) =>
             (dpl_get_previous_reference(n) = prev[n] <=> prev[n] # NULL)
        /\ dpl_get_first_reference = head
        /\ next[dpl_get_last_reference] = NULL
=============================================================================
