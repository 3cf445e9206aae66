----------------------------- MODULE SensorLink -----------------------------
(***************************************************************************)
(* A record on its way from a sensor node to the connection manager: the   *)
(* node (sensor_client_node.c) sends the fields of a record one tcp_send   *)
(* at a time, TCP cuts the bytes into segments as it likes, and            *)
(* connmgr_add_sensor_data takes them out with one tcp_receive per field,  *)
(* each of which returns what there is, up to the size of the field.       *)
(*                                                                         *)
(* The bytes of a connection are numbered 1, 2, ...: what they are follows *)
(* from their number, so a stream is the three counters sent, arrived and  *)
(* taken, and a received field is the pair of its first byte's predecessor *)
(* and its length.  The gateway's sockets are their descriptors; numbers   *)
(* are given out lowest first.  Which element is polled when is in module  *)
(* ConnectionManager; here any is.                                         *)
(***************************************************************************)
EXTENDS Integers, FiniteSets, Sequences, Functions, FiniteSetsExt

CONSTANTS
    Nodes,                          \* the sensor nodes
    IdSize, ValueSize, TsSize,      \* bytes of the fields, in sending order
    MaxRecords,                     \* records the nodes send in all (bound)
    MaxLost                         \* accepts that fail for want of memory (bound)

ASSUME LinkAssumption ==
    /\ IsFiniteSet(Nodes)
    /\ {IdSize, ValueSize, TsSize} \subseteq Nat \ {0}
    /\ MaxRecords \in Nat /\ MaxLost \in Nat

CONSTANT NOBODY
ASSUME NobodyAssumption == NOBODY \notin Nodes

VARIABLES
    node,           \* node -> "start", "up" (connected) or "exit"
    sent,           \* node -> bytes it has given to tcp_send
    arrived,        \* node -> those that have come to the gateway
    end,            \* node -> "open", "fin" or "rst", as the gateway sees it
    gateway,        \* "boot", "run" or "exit"
    fds,            \* the gateway's open socket descriptors
    lsd,            \* the listening one, or -1
    conn,           \* node -> "none", "queued", "open" (in the list), "closed",
                    \*   "refused" (queued when the listening socket closed),
                    \*   "lost" (accepted, and given up at once)
    sd,             \* node -> the descriptor of its connection, or -1
    taken,          \* node -> bytes received from it
    reading,        \* the node of the record being received, or NOBODY
    part,           \* its fields received so far
    got             \* node -> the records put in the buffer

\* History (no code): a segment of the node ended inside a field.
VARIABLE split

nodeVars == <<node, sent>>
netVars == <<arrived, end, split>>
sockVars == <<gateway, fds, lsd, conn, sd>>
recvVars == <<taken, reading, part, got>>
vars == <<nodeVars, netVars, sockVars, recvVars>>

Width == <<IdSize, ValueSize, TsSize>>
RecordSize == IdSize + ValueSize + TsSize

\* The byte after which field f of a record begins.
Offset(f) == CASE f = 1 -> 0 [] f = 2 -> IdSize [] f = 3 -> IdSize + ValueSize

Init ==
    /\ node = [n \in Nodes |-> "start"]
    /\ sent = [n \in Nodes |-> 0]
    /\ arrived = [n \in Nodes |-> 0]
    /\ end = [n \in Nodes |-> "open"]
    /\ split = [n \in Nodes |-> FALSE]
    /\ gateway = "boot"
    /\ fds = {} /\ lsd = -1
    /\ conn = [n \in Nodes |-> "none"]
    /\ sd = [n \in Nodes |-> -1]
    /\ taken = [n \in Nodes |-> 0]
    /\ reading = NOBODY /\ part = <<>>
    /\ got = [n \in Nodes |-> <<>>]

\* socket() and accept() give the lowest free number (0 stands for the first
\* that the rest of the process leaves free).
NewFd == Min(0..Cardinality(fds) \ fds)

-----------------------------------------------------------------------------
(* The sensor node.                                                        *)

\* tcp_active_open gets a connection when the gateway listens.  Any of its calls
\* may fail; a failure after connect() is a connection followed by Exit.
CanConnect == lsd # -1

\* main up to that call: it exits when an argument is wrong or the call fails.
Connect(n) ==
    /\ node[n] = "start"
    /\ \/ /\ CanConnect
          /\ node' = [node EXCEPT ![n] = "up"]
          /\ conn' = [conn EXCEPT ![n] = "queued"]
       \/ /\ node' = [node EXCEPT ![n] = "exit"]
          /\ UNCHANGED conn
    /\ UNCHANGED <<sent, netVars, gateway, fds, lsd, sd, recvVars>>

Records(bytes) == (bytes + RecordSize - 1) \div RecordSize

\* Records begun by all nodes together.
Begun == FoldFunction(LAMBDA bytes, r : r + Records(bytes), 0, sent)

\* tcp_send: a blocking sendto is cut short by a signal handler only, and the
\* node has none.  (On a connection that is gone it fails, or the bytes are
\* thrown away.)
CanSend(n) == conn[n] \in {"queued", "open"} /\ end[n] # "rst"

\* The next field: which it is follows from the bytes sent.
SendField(n) ==
    /\ node[n] = "up" /\ CanSend(n)
    /\ sent[n] % RecordSize = 0 => Begun < MaxRecords
    /\ \E f \in 1..3 :
         /\ sent[n] % RecordSize = Offset(f)
         /\ sent' = [sent EXCEPT ![n] = @ + Width[f]]
    /\ UNCHANGED <<node, netVars, sockVars, recvVars>>

\* Killed, ended after its LOOPS records, or its tcp_send failed; the end of the
\* stream comes to the gateway after the last byte.
Exit(n) ==
    /\ node[n] = "up" /\ arrived[n] = sent[n]
    /\ node' = [node EXCEPT ![n] = "exit"]
    /\ end' = [end EXCEPT ![n] = IF @ = "open" THEN "fin" ELSE @]
    /\ UNCHANGED <<sent, arrived, split, sockVars, recvVars>>

-----------------------------------------------------------------------------
(* The network.                                                            *)

Boundaries == {r * RecordSize + Offset(f) : r \in 0..MaxRecords, f \in 1..3}

Arrive(n) ==
    /\ conn[n] \in {"queued", "open"} /\ end[n] = "open"
    /\ \E b \in arrived[n] + 1 .. sent[n] :
         /\ arrived' = [arrived EXCEPT ![n] = b]
         /\ split' = [split EXCEPT ![n] = @ \/ b \notin Boundaries]
    /\ UNCHANGED <<nodeVars, end, sockVars, recvVars>>

\* The connection breaks, and what has arrived and was not received is gone.
Reset(n) ==
    /\ conn[n] \in {"queued", "open"} /\ end[n] = "open"
    /\ end' = [end EXCEPT ![n] = "rst"]
    /\ arrived' = [arrived EXCEPT ![n] = taken[n]]
    /\ UNCHANGED <<nodeVars, split, sockVars, recvVars>>

-----------------------------------------------------------------------------
(* The gateway's sockets.                                                  *)

\* tcp_passive_open; when it fails, connmgr_listen ends the process.
Listen ==
    /\ gateway = "boot"
    /\ \/ /\ gateway' = "run"
          /\ lsd' = NewFd
          /\ fds' = fds \cup {NewFd}
       \/ /\ gateway' = "exit"
          /\ UNCHANGED <<lsd, fds>>
    /\ UNCHANGED <<nodeVars, netVars, conn, sd, recvVars>>

Idle == gateway = "run" /\ reading = NOBODY

\* tcp_wait_for_connection and connmgr_add_sensor.  Without memory for the
\* address the socket is freed, and its descriptor stays open.
Accept(n) ==
    /\ Idle /\ lsd # -1 /\ conn[n] = "queued"
    /\ fds' = fds \cup {NewFd}
    /\ \/ /\ conn' = [conn EXCEPT ![n] = "open"]
          /\ sd' = [sd EXCEPT ![n] = NewFd]
       \/ /\ Cardinality({m \in Nodes : conn[m] = "lost"}) < MaxLost
          /\ conn' = [conn EXCEPT ![n] = "lost"]
          /\ UNCHANGED sd
    /\ UNCHANGED <<nodeVars, netVars, gateway, lsd, recvVars>>

\* The descriptors tcp_close gives back: close() is skipped when shutdown()
\* fails, which it does on a connection that was reset.
ClosedFds_Mutant(n) == {}
ClosedFds(n) == IF end[n] = "rst" THEN {} ELSE {sd[n]}

\* connmgr_remove_sensor: the listening socket, and the sensor's.
Remove(n) ==
    /\ fds' = fds \ (ClosedFds(n) \cup {lsd})
    /\ lsd' = -1
    /\ sd' = [sd EXCEPT ![n] = -1]
    /\ conn' = [m \in Nodes |-> IF m = n THEN "closed"
                                ELSE IF conn[m] = "queued" THEN "refused"
                                ELSE conn[m]]
    /\ UNCHANGED gateway

-----------------------------------------------------------------------------
(* Receiving a record.                                                     *)

Available(n) == arrived[n] - taken[n]

\* revents = POLLIN: a reset connection reports more than that.
PollIn(n) == end[n] = "fin" \/ (end[n] = "open" /\ Available(n) > 0)

\* What the next tcp_receive stores in the field it is for.
NextField_Mutant(n) ==
    <<taken[n], Min({<<IdSize, TsSize, ValueSize>>[Len(part) + 1], Available(n)})>>
NextField(n) ==
    <<taken[n], Min({Width[Len(part) + 1], Available(n)})>>

\* recv has something to return, be it the end of the stream or an error.
Returns_Mutant(n) == Available(n) > 0
Returns(n) == Available(n) > 0 \/ end[n] # "open"

\* recv takes the bytes out; the results of the second and third are ignored.
Take(n) ==
    /\ taken' = [taken EXCEPT ![n] = @ + NextField(n)[2]]
    /\ IF Len(part) < 2
         THEN /\ part' = Append(part, NextField(n))
              /\ reading' = n
              /\ UNCHANGED got
         ELSE /\ part' = <<>>
              /\ reading' = NOBODY
              /\ got' = [got EXCEPT ![n] = Append(@, part \o <<NextField(n)>>)]

Begin(n) ==
    /\ Idle /\ conn[n] = "open" /\ PollIn(n) /\ Available(n) > 0
    /\ Take(n)
    /\ UNCHANGED <<nodeVars, netVars, sockVars>>

\* The first tcp_receive finds the end of the stream.
BeginFails(n) ==
    /\ Idle /\ conn[n] = "open" /\ PollIn(n) /\ Available(n) = 0
    /\ Remove(n)
    /\ UNCHANGED <<nodeVars, netVars, recvVars>>

Receive(n) ==
    /\ reading = n /\ Returns(n)
    /\ Take(n)
    /\ UNCHANGED <<nodeVars, netVars, sockVars>>

\* A sensor looks silent for too long: by the clock, or by the time in its last
\* record, which is the node's or, in a torn record, anything.
TimeOut(n) ==
    /\ Idle /\ conn[n] = "open"
    /\ ~PollIn(n) \/ got[n] # <<>>
    /\ Remove(n)
    /\ UNCHANGED <<nodeVars, netVars, recvVars>>

-----------------------------------------------------------------------------
Next ==
    \/ Listen
    \/ \E n \in Nodes :
         \/ Connect(n) \/ SendField(n) \/ Exit(n)
         \/ Arrive(n) \/ Reset(n)
         \/ Accept(n) \/ Begin(n) \/ BeginFails(n) \/ Receive(n) \/ TimeOut(n)

\* The network delivers and the thread goes on; the nodes owe nothing: they may
\* stop anywhere in a record, and a host that goes down sends no FIN.
Spec ==
    /\ Init /\ [][Next]_vars
    /\ \A n \in Nodes : WF_vars(Arrive(n)) /\ WF_vars(Receive(n))

-----------------------------------------------------------------------------
(* Properties.                                                             *)

TypeOK ==
    /\ node \in [Nodes -> {"start", "up", "exit"}]
    /\ sent \in [Nodes -> Nat] /\ arrived \in [Nodes -> Nat] /\ taken \in [Nodes -> Nat]
    /\ \A n \in Nodes : taken[n] <= arrived[n] /\ arrived[n] <= sent[n]
    /\ end \in [Nodes -> {"open", "fin", "rst"}]
    /\ split \in [Nodes -> BOOLEAN]
    /\ gateway \in {"boot", "run", "exit"}
    /\ fds \subseteq 0..Cardinality(Nodes) /\ lsd \in fds \cup {-1}
    /\ conn \in [Nodes -> {"none", "queued", "open", "closed", "refused", "lost"}]
    /\ sd \in [Nodes -> fds \cup {-1}]
    /\ reading \in Nodes \cup {NOBODY}
    /\ Len(part) < 3 /\ (part = <<>> <=> reading = NOBODY)

\* Record i is the i-th that the node sent.
Whole(n, i) ==
    \A f \in 1..3 :
        got[n][i][f] = <<(i - 1) * RecordSize + Offset(f), Width[f]>>

\* The records that reach the buffer are the node's, each once and in order, as
\* long as no segment ends inside a field: three receives that check no length
\* rely on that, for one short field shifts all that follow.  The last record may
\* still be torn, when the connection ended in its middle; the fields that were
\* missing are what the stack held, and it goes into the buffer all the same.
RecordsWhole ==
    /\ TypeOK
    /\ \A n \in Nodes : ~split[n] =>
        \A i \in 1..Len(got[n]) :
            Whole(n, i) \/ (i = Len(got[n]) /\ end[n] # "open")

\* The thread gets out of every record that it has begun to receive, and back to
\* the other sensors, unless the node stays connected and sends no more of it:
\* the end of the stream and a reset wake recv, in whatever field it is.
Stalled(n) == end[n] = "open" /\ sent[n] = taken[n]

TurnEnds == \A n \in Nodes : reading = n ~> reading # n \/ Stalled(n)

\* Every socket has a descriptor of its own, open as long as it lives, and a
\* descriptor without a socket is one of two: accepted without memory for the
\* address, or closed after a reset.
DescriptorsOwned ==
    LET live == {n \in Nodes : conn[n] = "open"}
        orphans == fds \ ({sd[n] : n \in live} \cup {lsd})
    IN  /\ \A n \in live : sd[n] \in fds /\ sd[n] # lsd
        /\ \A m, n \in live : sd[m] = sd[n] => m = n
        /\ Cardinality(orphans) =
             Cardinality({n \in Nodes : conn[n] = "lost"
                                \/ (conn[n] = "closed" /\ end[n] = "rst")})
=============================================================================
