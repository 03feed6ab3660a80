-------------------------------- MODULE Phase1 -------------------------------
(***************************************************************************)
(* The single-threaded stages (the Stage implementations of                *)
(* ners-core/src/stage.rs): the caller runs process of one stage after the *)
(* other on one thread.  process takes at most Batch ids from its queue;   *)
(* each step below is one turn of its loop, so that the clients act        *)
(* between the turns.  The order in which the stages are called is the     *)
(* caller's, who is not part of the repository: any order is allowed.      *)
(*                                                                         *)
(* Unlike the multi-core stages these put a connection back into their own *)
(* queue when its request is incomplete or its response half sent, and     *)
(* they count the length of every queue.                                   *)
(***************************************************************************)
EXTENDS Connection

CONSTANTS
    QueueCapacity,   \* capacity of each RingQueue
    Batch,           \* the most ids that one call of process takes
    Idle             \* no stage is being processed

Queues == {"parse", "route", "app", "encode", "net_out"}
Stages == Queues \cup {"net_in"}

ASSUME Phase1Assumption ==
    /\ QueueCapacity \in Nat \ {0}
    /\ Batch \in Nat \ {0}
    /\ Idle \notin Stages

\* The queue that a stage pushes to, and the stage whose length it then counts.
Output == [parse |-> "route", route |-> "app", app |-> "encode", encode |-> "net_out"]
Counter == [parse |-> "parse", route |-> "route", app |-> "app",
            encode |-> "net_out", net_out |-> "net_out"]

VARIABLES
    queue,           \* stage -> the ids in its input queue
    active,          \* the stage being processed
    left,            \* turns left in its loop
    accepted,        \* NetIn: the accepted streams not yet inserted
    backlog,         \* the kernel's queue of connections not yet accepted
    client,          \* the peers
    total_conns,     \* MetricsCollector::total_conns
    total_requests,  \* MetricsCollector::total_requests
    queue_len,       \* stage -> its current_queue_len
    errors           \* stage -> its error counter

loopVars == <<active, left, accepted>>
clientVars == <<backlog, client>>
vars == <<slabVars, queue, loopVars, clientVars, total_conns, total_requests,
          queue_len, errors>>

-----------------------------------------------------------------------------
(* The loop of process. *)

Begin(s) ==
    /\ active = Idle
    /\ s # "net_in"
    /\ active' = s
    /\ left' = Batch
    /\ UNCHANGED <<slabVars, queue, accepted, clientVars, total_conns,
                   total_requests, queue_len, errors>>

Return ==
    /\ active # Idle
    /\ IF active = "net_in" THEN accepted = <<>>
                            ELSE left = 0 \/ queue[active] = <<>>
    /\ active' = Idle
    /\ left' = 0
    /\ UNCHANGED <<slabVars, queue, accepted, clientVars, total_conns,
                   total_requests, queue_len, errors>>

\* One turn of the loop of stage s: it pops the first id.
Turn(s) ==
    /\ active = s /\ left > 0 /\ queue[s] # <<>>
    /\ left' = left - 1
    /\ UNCHANGED <<active, accepted>>

Id(s) == Head(queue[s])
Conn(s) == slots[Id(s)]
Popped(s) == [queue EXCEPT ![s] = Tail(@)]

Room == QueueCapacity - 1
Fits(s, to) == Len(Popped(s)[to]) < Room

\* s pops the id and pushes it to the queue of stage to; a failed push drops it.
Move(s, to) ==
    queue' = IF Fits(s, to) THEN [Popped(s) EXCEPT ![to] = Append(@, Id(s))]
                            ELSE Popped(s)

\* The stage counts the pop, and the push if it succeeds.
CountMove(s, to) ==
    queue_len' = [queue_len EXCEPT
                    ![s] = @ - 1,
                    ![Counter[to]] = IF Fits(s, to) THEN @ + 1 ELSE @]

\* s pops the id and keeps it to itself.
Drop(s) ==
    /\ queue' = Popped(s)
    /\ queue_len' = [queue_len EXCEPT ![s] = @ - 1]

-----------------------------------------------------------------------------
(* NetIn. *)

\* accept_all takes the waiting connections; an accept error ends it early.
AcceptAll(n) ==
    /\ active = Idle
    /\ active' = "net_in"
    /\ accepted' = SubSeq(backlog, 1, n)
    /\ backlog' = SubSeq(backlog, n + 1, Len(backlog))
    /\ UNCHANGED <<slabVars, queue, left, client, total_conns, total_requests,
                   queue_len, errors>>

InsertConn ==
    /\ active = "net_in" /\ accepted # <<>>
    /\ Insert(NewConn(Head(accepted)))
    /\ total_conns' = total_conns + 1
    /\ IF Len(queue["parse"]) < Room
       THEN /\ queue' = [queue EXCEPT !["parse"] = Append(@, NextFree)]
            /\ queue_len' = [queue_len EXCEPT !["parse"] = @ + 1]
       ELSE UNCHANGED <<queue, queue_len>>
    /\ accepted' = Tail(accepted)
    /\ UNCHANGED <<active, left, clientVars, total_requests, errors>>

\* The server drops the socket of client c.
Hangup(c) == [client EXCEPT ![c].status = IF @ = "open" THEN "closed" ELSE @]

\* No slot is free: the stream is dropped.
RefuseConn ==
    /\ active = "net_in" /\ accepted # <<>>
    /\ free_list = <<>>
    /\ client' = Hangup(Head(accepted))
    /\ accepted' = Tail(accepted)
    /\ UNCHANGED <<slabVars, queue, active, left, backlog, total_conns,
                   total_requests, queue_len, errors>>

-----------------------------------------------------------------------------
(* Parse. *)

Peer == client[Conn("parse").client]

\* What read_buf may hold once read_all has returned: everything sent, or less
\* when the client has left (the code ignores the error of read_all).
ReadAll(n) ==
    /\ Conn("parse").read_buf <= n /\ n <= Peer.sent
    /\ n = Peer.sent \/ Peer.status = "left"

\* Everything that has been read is parsed.
Parses(n, outcome) == ReadAll(n) /\ outcome \in ParseOf(Peer.ask, n)

ParseRequest ==
    /\ Turn("parse")
    /\ Parses(Segments, "Ok")
    /\ slots' = [slots EXCEPT ![Id("parse")] =
                   [@ EXCEPT !.request_path = Peer.ask,
                             !.state = "Routed",
                             !.read_buf = 0]]
    /\ Move("parse", "route") /\ CountMove("parse", "route")
    /\ UNCHANGED <<free_list, clientVars, total_conns, total_requests, errors>>

\* Mutant of ParseIncomplete: the id is not put back, as in the multi-core stage.
ParseIncompleteDrops(n) ==
    /\ Turn("parse")
    /\ Parses(n, "Incomplete")
    /\ slots' = [slots EXCEPT ![Id("parse")] = [@ EXCEPT !.read_buf = n]]
    /\ Drop("parse")
    /\ UNCHANGED <<free_list, clientVars, total_conns, total_requests, errors>>

\* The request is not complete: the id goes to the end of the same queue.
ParseIncomplete(n) ==
    /\ Turn("parse")
    /\ Parses(n, "Incomplete")
    /\ slots' = [slots EXCEPT ![Id("parse")] = [@ EXCEPT !.read_buf = n]]
    /\ Move("parse", "parse") /\ CountMove("parse", "parse")
    /\ UNCHANGED <<free_list, clientVars, total_conns, total_requests, errors>>

\* The connection keeps its slot and its socket.
ParseInvalid(n) ==
    /\ Turn("parse")
    /\ Parses(n, "Invalid")
    /\ slots' = [slots EXCEPT ![Id("parse")] =
                   [@ EXCEPT !.read_buf = n, !.state = "Closed"]]
    /\ errors' = [errors EXCEPT !["parse"] = @ + 1]
    /\ Drop("parse")
    /\ UNCHANGED <<free_list, clientVars, total_conns, total_requests>>

ParseStage ==
    \/ ParseRequest
    \/ \E n \in 0 .. Segments : ParseIncomplete(n) \/ ParseInvalid(n)

-----------------------------------------------------------------------------
(* Route, App and Encode. *)

RouteStage ==
    /\ Turn("route")
    /\ slots' = [slots EXCEPT ![Id("route")] =
                   [@ EXCEPT !.route_id = RouteOf(Conn("route").request_path),
                             !.state = "Processing"]]
    /\ Move("route", "app") /\ CountMove("route", "app")
    /\ UNCHANGED <<free_list, clientVars, total_conns, total_requests, errors>>

\* App counts the id as queued for net_out when it pushes it to Encode's queue.
AppStage ==
    /\ Turn("app")
    /\ slots' = [slots EXCEPT ![Id("app")] =
                   [@ EXCEPT !.write_buf = Conn("app").write_buf
                                              \o ResponseOf(Conn("app").route_id),
                             !.state = "Sending"]]
    /\ total_requests' = total_requests + 1
    /\ Move("app", "encode") /\ CountMove("app", "encode")
    /\ UNCHANGED <<free_list, clientVars, total_conns, errors>>

\* Mutant of EncodeStage: it counts its pops and pushes like the other stages.
EncodeStageCounts ==
    /\ Turn("encode")
    /\ Move("encode", "net_out")
    /\ queue_len' = [queue_len EXCEPT !["net_out"] = @ + 1]
    /\ UNCHANGED <<slabVars, clientVars, total_conns, total_requests, errors>>

EncodeStage ==
    /\ Turn("encode")
    /\ Move("encode", "net_out")
    /\ UNCHANGED <<slabVars, clientVars, total_conns, total_requests, queue_len, errors>>

-----------------------------------------------------------------------------
(* NetOut. *)

\* The chunks of conn that fit into the socket: the client has not read unread.
Writable(conn) ==
    LET space == SendBuffer - client[conn.client].unread
    IN  IF Unsent(conn) <= space THEN Unsent(conn) ELSE space

\* Mutant of Deliver: the response is written from its beginning again.
DeliverFromStart(conn, n) ==
    [client EXCEPT ![conn.client].rcvd = @ \o SubSeq(conn.write_buf, 1, n),
                   ![conn.client].unread = @ + n]

\* The next n chunks of conn reach the socket, and its client if it is there.
Deliver(conn, n) ==
    LET chunks == SubSeq(conn.write_buf, conn.bytes_written + 1,
                         conn.bytes_written + n)
    IN  [client EXCEPT
           ![conn.client].rcvd = IF client[conn.client].status = "open"
                                 THEN @ \o chunks ELSE @,
           ![conn.client].unread = @ + n]

\* The whole response is written: the slot is freed and the socket closed.
NetOutSent ==
    /\ Turn("net_out")
    /\ LET conn == Conn("net_out")
       IN  /\ Writable(conn) = Unsent(conn)
           /\ client' = [Deliver(conn, Unsent(conn)) EXCEPT
                           ![conn.client].status = IF @ = "open" THEN "closed" ELSE @]
    /\ Remove(Id("net_out"))
    /\ total_conns' = total_conns - 1
    /\ Drop("net_out")
    /\ UNCHANGED <<backlog, total_requests, errors>>

\* write_all wrote n chunks, perhaps none, and met WouldBlock.
WritesPart(conn, n) ==
    /\ n = Writable(conn) /\ n < Unsent(conn)
    /\ client' = Deliver(conn, n)
    /\ slots' = [slots EXCEPT ![Id("net_out")].bytes_written = @ + n]

\* Mutant of NetOutPartial: the id is not put back, as in the multi-core stage.
NetOutPartialDrops ==
    /\ Turn("net_out")
    /\ \E n \in 0 .. SendBuffer : WritesPart(Conn("net_out"), n)
    /\ Drop("net_out")
    /\ UNCHANGED <<free_list, backlog, total_conns, total_requests, errors>>

\* The response is written in part: the id goes to the end of the same queue.
NetOutPartial ==
    /\ Turn("net_out")
    /\ \E n \in 0 .. SendBuffer : WritesPart(Conn("net_out"), n)
    /\ Move("net_out", "net_out") /\ CountMove("net_out", "net_out")
    /\ UNCHANGED <<free_list, backlog, total_conns, total_requests, errors>>

\* The client has left and the write fails.
NetOutError ==
    /\ Turn("net_out")
    /\ client[Conn("net_out").client].status = "left"
    /\ Remove(Id("net_out"))
    /\ total_conns' = total_conns - 1
    /\ errors' = [errors EXCEPT !["net_out"] = @ + 1]
    /\ Drop("net_out")
    /\ UNCHANGED <<clientVars, total_requests>>

NetOutStage == NetOutSent \/ NetOutPartial \/ NetOutError

-----------------------------------------------------------------------------
(* The clients. *)

ClientStep(c, new) ==
    /\ client' = [client EXCEPT ![c] = new]
    /\ UNCHANGED <<slabVars, queue, loopVars, total_conns, total_requests,
                   queue_len, errors>>

Connect(c, ask) ==
    /\ client[c].status = "new"
    /\ ClientStep(c, [client[c] EXCEPT !.status = "open", !.ask = ask])
    /\ backlog' = Append(backlog, c)

\* The next piece of the request arrives at the server.
Send(c) ==
    /\ client[c].status = "open" /\ client[c].sent < Segments
    /\ ClientStep(c, [client[c] EXCEPT !.sent = @ + 1])
    /\ UNCHANGED backlog

\* The client takes what has arrived out of its socket.
Read(c) ==
    /\ client[c].status = "open" /\ client[c].unread > 0
    /\ ClientStep(c, [client[c] EXCEPT !.unread = 0])
    /\ UNCHANGED backlog

Leave(c) ==
    /\ client[c].status = "open"
    /\ ClientStep(c, [client[c] EXCEPT !.status = "left"])
    /\ UNCHANGED backlog

-----------------------------------------------------------------------------
Init ==
    /\ SlabInit
    /\ queue = [s \in Queues |-> <<>>]
    /\ active = Idle
    /\ left = 0
    /\ accepted = <<>>
    /\ backlog = <<>>
    /\ client = [c \in Clients |->
                   [status |-> "new", ask |-> None, sent |-> 0,
                    rcvd |-> <<>>, unread |-> 0]]
    /\ total_conns = 0
    /\ total_requests = 0
    /\ queue_len = [s \in Queues \ {"encode"} |-> 0]
    /\ errors = [s \in {"parse", "net_out"} |-> 0]

NetInStage == InsertConn \/ RefuseConn

Server ==
    \/ \E n \in 0 .. Len(backlog) : AcceptAll(n)
    \/ NetInStage
    \/ \E s \in Queues : Begin(s)
    \/ Return
    \/ ParseStage
    \/ RouteStage
    \/ AppStage
    \/ EncodeStage
    \/ NetOutStage

Environment ==
    \E c \in Clients :
        \/ \E ask \in Asks : Connect(c, ask)
        \/ Send(c)
        \/ Read(c)
        \/ Leave(c)

Next == Server \/ Environment

Spec == Init /\ [][Next]_vars

\* The thread goes on while a stage is being processed, and its caller comes back
\* to every stage.  Nothing is assumed of the clients.
Fairness ==
    /\ WF_vars(NetInStage \/ ParseStage \/ RouteStage \/ AppStage
                \/ EncodeStage \/ NetOutStage)
    /\ WF_vars(Return)
    /\ \A s \in Queues : SF_vars(Begin(s))

FairSpec == Spec /\ Fairness

-----------------------------------------------------------------------------
ClientType ==
    [status : {"new", "open", "left", "closed"}, ask : Asks \cup {None},
     sent : 0 .. Segments, rcvd : Seq(Chunks), unread : 0 .. SendBuffer]

TypeOK ==
    /\ slots \in [SlotIds -> ConnType \cup {NoConn}]
    /\ free_list \in Seq(SlotIds)
    /\ queue \in [Queues -> Seq(SlotIds)]
    /\ active \in Stages \cup {Idle}
    /\ left \in 0 .. Batch
    /\ accepted \in Seq(Clients)
    /\ backlog \in Seq(Clients)
    /\ client \in [Clients -> ClientType]
    /\ total_conns \in Int
    /\ total_requests \in Nat
    /\ queue_len \in [Queues \ {"encode"} -> Int]
    /\ errors \in [{"parse", "net_out"} -> Nat]

\* The queue positions of an id.
Places(id) == {p \in Queues \X (1 .. QueueCapacity) :
                 p[2] <= Len(queue[p[1]]) /\ queue[p[1]][p[2]] = id}

\* A connection is in exactly one queue, once, until it is served or failed, and
\* a vacant or failed slot is in none: no requeue of a half-read request or a
\* half-sent response loses or doubles its id (stage.rs lines 148 and 497).  It
\* holds when a queue has room for every slot.
QueuedExactlyOnce ==
    \A id \in SlotIds :
        Cardinality(Places(id)) =
            IF slots[id] = NoConn THEN 0
            ELSE IF slots[id].state = "Closed" THEN 0 ELSE 1

\* The lengths that the stages count are those of their queues; net_out's is that
\* of Encode's queue and its own, since App counts for net_out and Encode does not
\* count.  It holds when a queue has room for every slot: Encode ignores a failed
\* push (stage.rs line 421).
QueueLenExact ==
    /\ \A s \in {"parse", "route", "app"} : queue_len[s] = Len(queue[s])
    /\ queue_len["net_out"] = Len(queue["encode"]) + Len(queue["net_out"])

\* A client receives the beginning of the response to its own request, however
\* many writes it takes, and all of it before the server closes the socket after
\* accepting it into the slab.
ResponseIntegrity ==
    \A c \in Clients :
        LET mine == ResponseOf(PromisedTo(client[c].ask))
        IN  /\ IsPrefixOf(client[c].rcvd, mine)
            /\ client[c].status = "closed" /\ client[c].rcvd # <<>>
                 => client[c].rcvd = mine

\* c has a slot, a request that the parser can make sense of, and no parse of a part
\* of it has failed (within a character that the pieces cut in two).
Admitted(c) ==
    /\ Parsable(client[c].ask)
    /\ \E id \in SlotIds :
         slots[id] # NoConn /\ slots[id].client = c /\ slots[id].state # "Closed"

\* A client that sends the whole of such a request in however many pieces and at
\* whatever pace, and goes on reading, receives the whole response (given room for
\* every slot in the queues).
PatientIsAnswered ==
    \A c \in Clients :
        []<>(client[c].unread = 0) =>
            ((Admitted(c) /\ client[c].sent = Segments)
               ~> (client[c].rcvd = ResponseOf(PromisedTo(client[c].ask))
                     \/ client[c].status = "left"))
=============================================================================
