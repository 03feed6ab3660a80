------------------------------ MODULE Pipeline -------------------------------
(***************************************************************************)
(* The multi-core server that ners-core/src/main.rs runs: the main thread  *)
(* accepts connections and puts them into the slab; five executor threads  *)
(* (executor.rs) each pop a connection id from their queue, lock the slab, *)
(* run their stage on the connection (the *Multi stages of stage.rs) and,  *)
(* if the stage returns the id, push it to the next stage's queue.         *)
(*                                                                         *)
(*   main -> parse -> route -> app -> encode -> net_out                    *)
(*                                                                         *)
(* Atomicity.  A pop is one step and the critical section that follows it  *)
(* (lock, process_one, push, unlock) is one step: the slab is only touched *)
(* with the lock held, the pushed queue has this thread as its only        *)
(* producer, and a consumer that pops inside the section waits for the     *)
(* lock, as it does when it pops after it.  The queues are the bounded     *)
(* queues that RingQueue is shown to implement.                            *)
(*                                                                         *)
(* A client makes one connection; the code never keeps one alive.          *)
(***************************************************************************)
EXTENDS Connection

CONSTANTS
    QueueCapacity,   \* OrchestratorConfig::queue_capacity
    NoId             \* None of Option<ConnId>: an empty hand

ASSUME PipelineAssumption ==
    /\ QueueCapacity \in Nat \ {0}
    /\ NoId \notin SlotIds

Stages == {"parse", "route", "app", "encode", "net_out"}
Threads == Stages \cup {"main"}

\* main.rs lines 37-48: the queue that a thread pushes to; NetOut has none.
Output == [main |-> "parse", parse |-> "route", route |-> "app",
           app |-> "encode", encode |-> "net_out"]

VARIABLES
    queue,           \* stage -> the ids in its input queue
    hand,            \* thread -> the id it has taken and not yet passed on
    accepted,        \* main: the accepted streams not yet inserted
    backlog,         \* the kernel's queue of connections not yet accepted
    client,          \* the peers
    total_conns,     \* MetricsCollector::total_conns
    total_requests,  \* MetricsCollector::total_requests
    parse_queue_len, \* current_queue_len of stage "parse"
    errors           \* stage -> its error counter

metricVars == <<total_conns, total_requests, parse_queue_len, errors>>
clientVars == <<backlog, client>>
vars == <<slabVars, queue, hand, accepted, clientVars, metricVars>>

-----------------------------------------------------------------------------
(* Queues and hands. *)

Room == QueueCapacity - 1

\* RingQueue::push of id to the queue of stage q; no caller acts on an Err(id).
Pushed(q, id) ==
    IF Len(queue[q]) < Room THEN [queue EXCEPT ![q] = Append(@, id)] ELSE queue

\* Mutant of Forward: the id is pushed and kept, to be pushed again.
ForwardKeeps(s) ==
    /\ queue' = Pushed(Output[s], hand[s])
    /\ UNCHANGED hand

\* process_one returned Some(id): it goes to the next queue, or nowhere.
Forward(s) ==
    /\ queue' = Pushed(Output[s], hand[s])
    /\ hand' = [hand EXCEPT ![s] = NoId]

\* process_one returned None: nobody keeps the id.
LetGo(s) ==
    /\ hand' = [hand EXCEPT ![s] = NoId]
    /\ UNCHANGED queue

\* An executor takes the next id.
Pop(s) ==
    /\ hand[s] = NoId
    /\ queue[s] # <<>>
    /\ hand' = [hand EXCEPT ![s] = Head(queue[s])]
    /\ queue' = [queue EXCEPT ![s] = Tail(@)]
    /\ UNCHANGED <<slabVars, accepted, clientVars, metricVars>>

\* The connection that executor s works on; NoConn where get_mut finds none.
Holding(s) == hand[s] # NoId
Conn(s) == slots[hand[s]]

-----------------------------------------------------------------------------
(* The main thread. *)

\* accept_all takes the waiting connections; an accept error ends it early.
AcceptAll(n) ==
    /\ accepted = <<>> /\ ~Holding("main")
    /\ accepted' = SubSeq(backlog, 1, n)
    /\ backlog' = SubSeq(backlog, n + 1, Len(backlog))
    /\ UNCHANGED <<slabVars, queue, hand, client, metricVars>>

InsertConn ==
    /\ accepted # <<>> /\ ~Holding("main")
    /\ Insert(NewConn(Head(accepted)))
    /\ total_conns' = total_conns + 1
    /\ hand' = [hand EXCEPT !["main"] = NextFree]
    /\ accepted' = Tail(accepted)
    /\ UNCHANGED <<queue, clientVars, total_requests, parse_queue_len, errors>>

\* The server drops the socket of client c.
Hangup(c) == [client EXCEPT ![c].status = IF @ = "open" THEN "closed" ELSE @]

\* No slot is free: the stream is dropped.
RefuseConn ==
    /\ accepted # <<>> /\ ~Holding("main")
    /\ free_list = <<>>
    /\ client' = Hangup(Head(accepted))
    /\ accepted' = Tail(accepted)
    /\ UNCHANGED <<slabVars, queue, hand, backlog, metricVars>>

PushConn ==
    /\ Holding("main")
    /\ Forward("main")
    /\ parse_queue_len' = parse_queue_len +
                          (IF Len(queue["parse"]) < Room THEN 1 ELSE 0)
    /\ UNCHANGED <<slabVars, accepted, clientVars, total_conns, total_requests,
                   errors>>

-----------------------------------------------------------------------------
(* The stages: what follows a pop, with the slab locked. *)

\* The client of the connection that Parse holds.
Peer == client[Conn("parse").client]

\* read_all may have taken n pieces: all that have arrived, or fewer when the
\* client has reset the connection (the code ignores the error of read_all).
ReadAll(n) == n = Peer.sent \/ (Peer.status = "left" /\ n < Peer.sent)

\* Everything that read_all has taken is parsed.
Parses(n, outcome) == ReadAll(n) /\ outcome \in ParseOf(Peer.ask, n)

ParseRequest ==
    /\ Holding("parse") /\ Conn("parse") # NoConn
    /\ Parses(Segments, "Ok")
    /\ slots' = [slots EXCEPT ![hand["parse"]] =
                   [@ EXCEPT !.request_path = Peer.ask,
                             !.state = "Routed",
                             !.read_buf = 0]]
    /\ Forward("parse")
    /\ UNCHANGED <<free_list, accepted, clientVars, metricVars>>

\* The comment says "put back in queue"; the code returns None.
ParseIncomplete(n) ==
    /\ Holding("parse")
    /\ IF Conn("parse") = NoConn
       THEN UNCHANGED slots
       ELSE /\ Parses(n, "Incomplete")
            /\ slots' = [slots EXCEPT ![hand["parse"]] = [@ EXCEPT !.read_buf = n]]
    /\ LetGo("parse")
    /\ UNCHANGED <<free_list, accepted, clientVars, metricVars>>

\* Mutant of ParseInvalid: the connection is passed on all the same.
ParseInvalidForwards(n) ==
    /\ Holding("parse") /\ Conn("parse") # NoConn
    /\ Parses(n, "Invalid")
    /\ slots' = [slots EXCEPT ![hand["parse"]] =
                   [@ EXCEPT !.read_buf = n, !.state = "Closed"]]
    /\ errors' = [errors EXCEPT !["parse"] = @ + 1]
    /\ Forward("parse")
    /\ UNCHANGED <<free_list, accepted, clientVars, total_conns, total_requests,
                   parse_queue_len>>

\* The connection keeps its slot and its socket.
ParseInvalid(n) ==
    /\ Holding("parse") /\ Conn("parse") # NoConn
    /\ Parses(n, "Invalid")
    /\ slots' = [slots EXCEPT ![hand["parse"]] =
                   [@ EXCEPT !.read_buf = n, !.state = "Closed"]]
    /\ errors' = [errors EXCEPT !["parse"] = @ + 1]
    /\ LetGo("parse")
    /\ UNCHANGED <<free_list, accepted, clientVars, total_conns, total_requests,
                   parse_queue_len>>

Route ==
    /\ Holding("route")
    /\ IF Conn("route") = NoConn
       THEN LetGo("route") /\ UNCHANGED slots
       ELSE /\ slots' = [slots EXCEPT ![hand["route"]] =
                           [@ EXCEPT !.route_id = RouteOf(Conn("route").request_path),
                                     !.state = "Processing"]]
            /\ Forward("route")
    /\ UNCHANGED <<free_list, accepted, clientVars, metricVars>>

App ==
    /\ Holding("app")
    /\ IF Conn("app") = NoConn
       THEN LetGo("app") /\ UNCHANGED <<slots, total_requests>>
       ELSE /\ slots' = [slots EXCEPT ![hand["app"]] =
                           [@ EXCEPT !.write_buf = Conn("app").write_buf
                                                      \o ResponseOf(Conn("app").route_id),
                                     !.state = "Sending"]]
            /\ total_requests' = total_requests + 1
            /\ Forward("app")
    /\ UNCHANGED <<free_list, accepted, clientVars, total_conns,
                   parse_queue_len, errors>>

\* Mutant of Encode: the stage returns None.
EncodeLetsGo ==
    /\ Holding("encode")
    /\ LetGo("encode")
    /\ UNCHANGED <<slabVars, accepted, clientVars, metricVars>>

Encode ==
    /\ Holding("encode")
    /\ Forward("encode")
    /\ UNCHANGED <<slabVars, accepted, clientVars, metricVars>>

\* The socket of conn takes n more chunks: all of them, or what its buffer holds.
Writes(conn, n) == n = Unsent(conn) \/ (n < Unsent(conn) /\ n >= SendBuffer)

\* The n chunks reach the client, if it is still there.
Deliver(conn, n) ==
    [client EXCEPT ![conn.client].rcvd =
        IF client[conn.client].status = "open"
        THEN @ \o SubSeq(conn.write_buf, conn.bytes_written + 1,
                         conn.bytes_written + n)
        ELSE @]

\* write_all wrote the whole response: the slot is freed and the socket closed.
NetOutSent ==
    /\ Holding("net_out") /\ Conn("net_out") # NoConn
    /\ LET conn == Conn("net_out")
       IN  client' = [Deliver(conn, Unsent(conn)) EXCEPT
                        ![conn.client].status =
                            IF @ = "open" THEN "closed" ELSE @]
    /\ Remove(hand["net_out"])
    /\ total_conns' = total_conns - 1
    /\ LetGo("net_out")
    /\ UNCHANGED <<accepted, backlog, total_requests, parse_queue_len, errors>>

\* Mutant of NetOutPartial: the slot is freed as if all had been written.
NetOutPartialFrees(n) ==
    /\ Holding("net_out") /\ Conn("net_out") # NoConn
    /\ LET conn == Conn("net_out")
       IN  /\ Writes(conn, n) /\ n < Unsent(conn)
           /\ client' = Deliver(conn, n)
    /\ Remove(hand["net_out"])
    /\ total_conns' = total_conns - 1
    /\ LetGo("net_out")
    /\ UNCHANGED <<accepted, backlog, total_requests, parse_queue_len, errors>>

\* write_all wrote n chunks and met WouldBlock; the id is not pushed anywhere.
NetOutPartial(n) ==
    /\ Holding("net_out")
    /\ IF Conn("net_out") = NoConn
       THEN UNCHANGED <<slots, client>>
       ELSE LET conn == Conn("net_out")
            IN  /\ Writes(conn, n) /\ n < Unsent(conn)
                /\ client' = Deliver(conn, n)
                /\ slots' = [slots EXCEPT ![hand["net_out"]] =
                               [@ EXCEPT !.bytes_written = conn.bytes_written + n]]
    /\ LetGo("net_out")
    /\ UNCHANGED <<free_list, accepted, backlog, metricVars>>

\* Mutant of NetOutError: the failed connection stays counted.
NetOutErrorCounted ==
    /\ Holding("net_out") /\ Conn("net_out") # NoConn
    /\ client[Conn("net_out").client].status = "left"
    /\ Remove(hand["net_out"])
    /\ errors' = [errors EXCEPT !["net_out"] = @ + 1]
    /\ LetGo("net_out")
    /\ UNCHANGED <<accepted, clientVars, total_conns, total_requests,
                   parse_queue_len>>

\* The client has left and the write fails.
NetOutError ==
    /\ Holding("net_out") /\ Conn("net_out") # NoConn
    /\ client[Conn("net_out").client].status = "left"
    /\ Remove(hand["net_out"])
    /\ total_conns' = total_conns - 1
    /\ errors' = [errors EXCEPT !["net_out"] = @ + 1]
    /\ LetGo("net_out")
    /\ UNCHANGED <<accepted, clientVars, total_requests, parse_queue_len>>

-----------------------------------------------------------------------------
(* The clients. *)

Connect(c, ask) ==
    /\ client[c].status = "new"
    /\ client' = [client EXCEPT ![c].status = "open", ![c].ask = ask]
    /\ backlog' = Append(backlog, c)
    /\ UNCHANGED <<slabVars, queue, hand, accepted, metricVars>>

\* The next piece of the request arrives at the server.
Send(c) ==
    /\ client[c].status = "open"
    /\ client[c].sent < Segments
    /\ client' = [client EXCEPT ![c].sent = @ + 1]
    /\ UNCHANGED <<slabVars, queue, hand, accepted, backlog, metricVars>>

Leave(c) ==
    /\ client[c].status = "open"
    /\ client' = [client EXCEPT ![c].status = "left"]
    /\ UNCHANGED <<slabVars, queue, hand, accepted, backlog, metricVars>>

-----------------------------------------------------------------------------
Init ==
    /\ SlabInit
    /\ queue = [s \in Stages |-> <<>>]
    /\ hand = [s \in Threads |-> NoId]
    /\ accepted = <<>>
    /\ backlog = <<>>
    /\ client = [c \in Clients |->
                   [status |-> "new", ask |-> None, sent |-> 0, rcvd |-> <<>>]]
    /\ total_conns = 0
    /\ total_requests = 0
    /\ parse_queue_len = 0
    /\ errors = [s \in {"parse", "net_out"} |-> 0]

Main ==
    \/ \E n \in 1 .. Len(backlog) : AcceptAll(n)
    \/ InsertConn
    \/ RefuseConn
    \/ PushConn

ParseStage ==
    \/ ParseRequest
    \/ \E n \in 0 .. Segments : ParseIncomplete(n) \/ ParseInvalid(n)

NetOutStage == NetOutSent \/ NetOutError \/ \E n \in 1 .. SendBuffer : NetOutPartial(n)

Server ==
    \/ Main
    \/ \E s \in Stages : Pop(s)
    \/ ParseStage
    \/ Route
    \/ App
    \/ Encode
    \/ NetOutStage

Environment ==
    \E c \in Clients :
        \/ \E ask \in Asks : Connect(c, ask)
        \/ Send(c)
        \/ Leave(c)

Next == Server \/ Environment

Spec == Init /\ [][Next]_vars

\* Every thread that can take a step takes one: the threads are never blocked but
\* by the slab's mutex, which each holder releases at the end of its step and
\* parking_lot hands over fairly.  Nothing is assumed of the clients.
Fairness ==
    /\ WF_vars(Main)
    /\ \A s \in Stages : WF_vars(Pop(s))
    /\ WF_vars(ParseStage)
    /\ WF_vars(Route)
    /\ WF_vars(App)
    /\ WF_vars(Encode)
    /\ WF_vars(NetOutStage)

FairSpec == Spec /\ Fairness

-----------------------------------------------------------------------------
ClientType ==
    [status : {"new", "open", "left", "closed"}, ask : Asks \cup {None},
     sent : 0 .. Segments, rcvd : Seq(Chunks)]

TypeOK ==
    /\ slots \in [SlotIds -> ConnType \cup {NoConn}]
    /\ free_list \in Seq(SlotIds)
    /\ queue \in [Stages -> Seq(SlotIds)]
    /\ hand \in [Threads -> SlotIds \cup {NoId}]
    /\ accepted \in Seq(Clients)
    /\ backlog \in Seq(Clients)
    /\ client \in [Clients -> ClientType]
    /\ total_conns \in Int
    /\ total_requests \in Nat
    /\ parse_queue_len \in Nat
    /\ errors \in [{"parse", "net_out"} -> Nat]

(* Ownership of a connection: an id is a permission to work on the slot.     *)

QueuedOnce ==
    \A s, t \in Stages :
        \A i \in DOMAIN queue[s], j \in DOMAIN queue[t] :
            queue[s][i] = queue[t][j] => s = t /\ i = j

HeldOnce ==
    \A s, t \in Threads : hand[s] = hand[t] /\ hand[s] # NoId => s = t

HeldNotQueued ==
    \A s \in Threads, t \in Stages :
        \A i \in DOMAIN queue[t] : queue[t][i] # hand[s]

\* An id is in at most one place, one queue position or one thread's hand, at any
\* time: two stages never work on the same connection, and a slot that NetOut
\* frees and main reuses is not still in somebody's queue (executor.rs 99-112).
OneHolder == QueuedOnce /\ HeldOnce /\ HeldNotQueued

\* The lifecycle state in which a connection reaches each thread.
StateAt == [main |-> "WaitingForRequest", parse |-> "WaitingForRequest",
            route |-> "Routed", app |-> "Processing",
            encode |-> "Sending", net_out |-> "Sending"]

\* conn is what thread s expects: an open connection, in the state the stage
\* before it left, with the response not begun.
ReadyFor(s, conn) ==
    /\ conn # NoConn
    /\ conn.state = StateAt[s]
    /\ conn.bytes_written = 0
    /\ StateAt[s] # "Sending" => conn.write_buf = <<>>
    /\ s = "route" => conn.request_path # None
    /\ s = "app" => conn.route_id # None

\* Each id that a thread holds or finds in its queue names a connection that is
\* ready for it: get_mut never finds an empty slot, the path is known to Route,
\* the route to App, and NetOut starts a response from its beginning.
HandoverReady ==
    /\ \A s \in Threads : hand[s] # NoId => ReadyFor(s, slots[hand[s]])
    /\ \A s \in Stages : \A i \in DOMAIN queue[s] : ReadyFor(s, slots[queue[s][i]])

\* With the connections left out the server is a chain of stages in which each
\* stage works in one step; Executors shows that the threads are one too.
Chain == INSTANCE StageChain WITH Source <- "main", Ids <- SlotIds
ChainRefinement == Chain!ChainSpec

-----------------------------------------------------------------------------
(* What the peers observe. *)

\* A client receives the beginning of the response to its own request and
\* nothing else, whatever slots were reused in between; and it is the whole
\* response when the server closes the socket after sending some of it.
ResponseIntegrity ==
    \A c \in Clients :
        LET mine == ResponseOf(PromisedTo(client[c].ask))
        IN  /\ IsPrefixOf(client[c].rcvd, mine)
            /\ client[c].status = "closed" /\ client[c].rcvd # <<>>
                 => client[c].rcvd = mine

-----------------------------------------------------------------------------
(* The metrics, which main logs as requests= and active_conns=. *)

\* total_conns counts the connections in the slab, whichever way they leave it.
ConnCountExact ==
    /\ total_conns = Cardinality(Occupied)
    /\ total_conns = active_count

-----------------------------------------------------------------------------
(* Nothing is lost on the way. *)

\* Some thread has the connection or will find it in its queue.
Carried(id) ==
    \/ \E s \in Threads : hand[s] = id
    \/ \E s \in Stages : \E i \in DOMAIN queue[s] : queue[s][i] = id

\* The push of s is to a full queue: the executors ignore the Err (executor.rs line
\* 108), and so does main (main.rs line 72).
Dropping(s, id) == hand[s] = id /\ Len(queue[Output[s]]) >= Room

\* An open connection is abandoned in three ways and in no other: it is pushed to a
\* full queue, Parse cannot make a request of what has been read, or NetOut has
\* written some of its response.  In particular a parsed request that nothing was
\* written of is dropped only where a queue is full.
AbandonedOnlyWhere ==
    [][\A id \in SlotIds :
        Carried(id) /\ ~Carried(id)' /\ slots'[id] # NoConn =>
          \/ \E s \in DOMAIN Output : Dropping(s, id)
          \/ hand["parse"] = id /\ slots'[id].state \in {"WaitingForRequest", "Closed"}
          \/ hand["net_out"] = id /\ slots'[id].bytes_written > 0]_vars

\* A slot is emptied only by NetOut, after the client got everything or left;
\* every other connection keeps its slot (stage.rs lines 552-567).
FreedOnlyWhenDone ==
    [][\A id \in SlotIds :
        slots[id] # NoConn /\ slots'[id] = NoConn =>
          LET c == slots[id].client
          IN  /\ slots[id].state = "Sending"
              /\ \/ client[c].status = "left"
                 \/ client'[c].rcvd = slots[id].write_buf]_vars

\* c's whole request, one that the parser can make sense of, had arrived before
\* Parse looked at its connection.
RequestReady(c) ==
    /\ client[c].sent = Segments /\ Parsable(client[c].ask)
    /\ \E id \in SlotIds :
         /\ slots[id] # NoConn
         /\ slots[id].client = c
         /\ slots[id].state = "WaitingForRequest"
         /\ Carried(id)

\* The server begins to answer such a request in the end, if the client waits (given
\* room for every slot in the queues): five threads, four queues and a mutex later.
ReadyIsAnswered ==
    \A c \in Clients :
        RequestReady(c) ~> (client[c].rcvd # <<>> \/ client[c].status = "left")

-----------------------------------------------------------------------------
(* What the comments and documents say and the code does not do. *)

\* stage.rs line 209: "Need more data - put back in queue".
IncompleteIsQueued ==
    \A id \in SlotIds :
        slots[id] # NoConn /\ slots[id].state = "WaitingForRequest" => Carried(id)

\* conn.rs line 25: Processing means "Handler is processing the request".
ProcessingIsProcessed ==
    \A id \in SlotIds :
        slots[id] # NoConn /\ slots[id].state = "Processing" => Carried(id)

\* conn.rs line 27: Sending means "Response is being sent".
SendingIsSent ==
    \A id \in SlotIds :
        slots[id] # NoConn /\ slots[id].state = "Sending" => Carried(id)
=============================================================================
