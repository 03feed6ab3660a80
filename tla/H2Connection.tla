----------------------------- MODULE H2Connection ----------------------------
(***************************************************************************)
(* The server's end of an HTTP/2 connection (ners-proto-http/src/h2:       *)
(* connection.rs and stream.rs), the client at the other end and the       *)
(* frames on the way.  The code is a library: its caller feeds it frames   *)
(* in the order in which they arrive, lets the application answer, and     *)
(* sends what take_outgoing returns.                                       *)
(*                                                                         *)
(* The client keeps to the protocol.  The application asks can_send before *)
(* it sends, stays within the send window of the stream and consumes it    *)
(* (Stream::consume_send_window), which is all that the library offers.    *)
(*                                                                         *)
(* Lengths are in units; MaxWindow stands for i32::MAX.  Header blocks are *)
(* left out.                                                               *)
(***************************************************************************)
EXTENDS Integers, SequencesExt, Selection

CONSTANTS
    StreamIds,       \* ids of the streams that the client may open
    InitialWindow,   \* initial_window_size of both sides' settings
    MaxWindow,       \* i32::MAX
    WindowSizes,     \* initial window sizes that the client may set
    Budget,          \* SETTINGS, PING, WINDOW_UPDATE and GOAWAY that it sends
    MaxQueue         \* bound: frames that wait in a queue

ASSUME H2Assumption ==
    /\ StreamIds \subseteq Nat \ {0}
    /\ InitialWindow \in Nat /\ MaxWindow \in Nat
    /\ InitialWindow <= MaxWindow
    /\ WindowSizes \subseteq 0 .. MaxWindow
    /\ Budget \in Nat /\ MaxQueue \in Nat

VARIABLES
    \* H2Connection
    streams,           \* id -> Stream, or NoStream where the map has no entry
    remote_initial,    \* remote_settings.initial_window_size
    send_window, recv_window,
    preface_received, settings_acked, going_away,
    last_stream_id,
    outgoing,          \* frames that take_outgoing will return
    \* the network
    to_server, to_client,
    \* the client
    view,              \* id -> its state of the stream
    credit,            \* id -> what it may still send on the stream
    conn_credit,       \* what it may still send on the connection
    conn_grant,        \* what the server may still send on the connection
    awaiting,          \* its SETTINGS and PINGs that are not yet answered
    budget

serverVars == <<streams, remote_initial, send_window, recv_window, preface_received,
                settings_acked, going_away, last_stream_id, outgoing>>
clientVars == <<view, credit, conn_credit, conn_grant, awaiting, budget>>
vars == <<serverVars, to_server, to_client, clientVars>>

-----------------------------------------------------------------------------
(* Streams (stream.rs). *)

StreamStates == {"Idle", "Open", "HalfClosedLocal", "HalfClosedRemote", "Closed"}
NoStream == [state |-> "none"]

NewStream == [state |-> "Idle", send_window |-> InitialWindow,
              recv_window |-> InitialWindow, body |-> 0]

Has(id) == streams[id] # NoStream

\* Mutant of Opened: HEADERS open a stream whatever its state.
OpenedAlways(state) == "Open"

Opened(state) == IF state = "Idle" THEN "Open" ELSE state

HalfClosedRemote(state) ==
    CASE state = "Open" -> "HalfClosedRemote"
      [] state = "HalfClosedLocal" -> "Closed"
      [] OTHER -> state

HalfClosedLocal(state) ==
    CASE state = "Open" -> "HalfClosedLocal"
      [] state = "HalfClosedRemote" -> "Closed"
      [] OTHER -> state

\* Mutant of CanSend: a stream that has sent its response can send.
CanSendAfterEnd(state) == state \in {"Open", "HalfClosedRemote", "HalfClosedLocal"}

CanSend(state) == state \in {"Open", "HalfClosedRemote"}
CanReceive(state) == state \in {"Open", "HalfClosedLocal"}

\* i32: saturating_add, and += as it wraps in a release build.
Saturated(n) ==
    IF n > MaxWindow THEN MaxWindow ELSE IF n < -MaxWindow - 1 THEN -MaxWindow - 1 ELSE n

\* Mutant of Wrapped: the integers are unbounded.
WrappedNot(n) == n

Wrapped(n) == ((n + MaxWindow + 1) % (2 * (MaxWindow + 1))) - MaxWindow - 1

-----------------------------------------------------------------------------
(* Frames. *)

Settings(value) == [type |-> "SETTINGS", value |-> value]
SettingsAck == [type |-> "SETTINGS_ACK"]
Ping(data) == [type |-> "PING", data |-> data]
PingAck(data) == [type |-> "PING_ACK", data |-> data]
Headers(id, end) == [type |-> "HEADERS", id |-> id, end |-> end]
Data(id, len, end) == [type |-> "DATA", id |-> id, len |-> len, end |-> end]
WindowUpdate(id, inc) == [type |-> "WINDOW_UPDATE", id |-> id, inc |-> inc]
RstStream(id) == [type |-> "RST_STREAM", id |-> id]
GoAway == [type |-> "GOAWAY"]

-----------------------------------------------------------------------------
(* process_preface and process_frame. *)

ProcessPreface ==
    /\ ~preface_received
    /\ preface_received' = TRUE
    /\ outgoing' = Append(outgoing, Settings(InitialWindow))
    /\ UNCHANGED <<streams, remote_initial, send_window, recv_window, settings_acked,
                   going_away, last_stream_id, to_server, to_client, clientVars>>

\* The next frame to process is of the given type.
Receives(type) ==
    /\ preface_received
    /\ to_server # <<>>
    /\ Head(to_server).type = type
    /\ to_server' = Tail(to_server)
    /\ UNCHANGED <<preface_received, to_client, clientVars>>

frame == Head(to_server)

ProcessSettings ==
    /\ Receives("SETTINGS")
    /\ remote_initial' = frame.value
    /\ streams' = [id \in StreamIds |->
                     IF Has(id)
                     THEN [streams[id] EXCEPT
                             !.send_window = Saturated(@ + frame.value - remote_initial)]
                     ELSE NoStream]
    /\ outgoing' = Append(outgoing, SettingsAck)
    /\ UNCHANGED <<send_window, recv_window, settings_acked, going_away, last_stream_id>>

ProcessSettingsAck ==
    /\ Receives("SETTINGS_ACK")
    /\ settings_acked' = TRUE
    /\ UNCHANGED <<streams, remote_initial, send_window, recv_window, going_away,
                   last_stream_id, outgoing>>

ProcessHeaders ==
    /\ Receives("HEADERS")
    /\ LET stream == IF Has(frame.id) THEN streams[frame.id] ELSE NewStream
           open == Opened(stream.state)
       IN  streams' = [streams EXCEPT ![frame.id] =
                         [stream EXCEPT !.state =
                            IF frame.end THEN HalfClosedRemote(open) ELSE open]]
    /\ last_stream_id' = IF frame.id > last_stream_id THEN frame.id ELSE last_stream_id
    /\ UNCHANGED <<remote_initial, send_window, recv_window, settings_acked,
                   going_away, outgoing>>

Target == streams[frame.id]

\* The stream after it took the payload of the frame.
Charged(stream, state) ==
    [stream EXCEPT !.recv_window = Wrapped(@ - frame.len), !.body = @ + frame.len,
                   !.state = state]

\* Mutant of ProcessData: END_STREAM is looked at only when there is data.
ProcessDataNonEmpty ==
    /\ Receives("DATA")
    /\ IF Has(frame.id) /\ CanReceive(Target.state)
       THEN /\ streams' = [streams EXCEPT ![frame.id] =
                  Charged(Target, IF frame.end /\ frame.len > 0
                                  THEN HalfClosedRemote(Target.state) ELSE Target.state)]
            /\ recv_window' = Wrapped(recv_window - frame.len)
       ELSE UNCHANGED <<streams, recv_window>>
    /\ UNCHANGED <<remote_initial, send_window, settings_acked, going_away,
                   last_stream_id, outgoing>>

\* Mutant of ProcessData: the connection window is left alone.
ProcessDataStreamOnly ==
    /\ Receives("DATA")
    /\ streams' = IF Has(frame.id) /\ CanReceive(Target.state)
                  THEN [streams EXCEPT ![frame.id] =
                          Charged(Target, IF frame.end THEN HalfClosedRemote(Target.state)
                                                       ELSE Target.state)]
                  ELSE streams
    /\ UNCHANGED <<remote_initial, send_window, recv_window, settings_acked,
                   going_away, last_stream_id, outgoing>>

\* DATA for a stream that is unknown or cannot receive is ignored.
ProcessData ==
    /\ Receives("DATA")
    /\ IF Has(frame.id) /\ CanReceive(Target.state)
       THEN /\ streams' = [streams EXCEPT ![frame.id] =
                  Charged(Target, IF frame.end THEN HalfClosedRemote(Target.state)
                                               ELSE Target.state)]
            /\ recv_window' = Wrapped(recv_window - frame.len)
       ELSE UNCHANGED <<streams, recv_window>>
    /\ UNCHANGED <<remote_initial, send_window, settings_acked, going_away,
                   last_stream_id, outgoing>>

ProcessWindowUpdate ==
    /\ Receives("WINDOW_UPDATE")
    /\ IF frame.id = 0
       THEN /\ send_window' = Wrapped(send_window + frame.inc)
            /\ UNCHANGED streams
       ELSE /\ streams' = IF Has(frame.id)
                          THEN [streams EXCEPT ![frame.id].send_window =
                                  Saturated(@ + frame.inc)]
                          ELSE streams
            /\ UNCHANGED send_window
    /\ UNCHANGED <<remote_initial, recv_window, settings_acked, going_away,
                   last_stream_id, outgoing>>

\* Mutant of ProcessPing: the answer overtakes what is already queued.
ProcessPingFirst ==
    /\ Receives("PING")
    /\ outgoing' = <<PingAck(frame.data)>> \o outgoing
    /\ UNCHANGED <<streams, remote_initial, send_window, recv_window, settings_acked,
                   going_away, last_stream_id>>

ProcessPing ==
    /\ Receives("PING")
    /\ outgoing' = Append(outgoing, PingAck(frame.data))
    /\ UNCHANGED <<streams, remote_initial, send_window, recv_window, settings_acked,
                   going_away, last_stream_id>>

ProcessGoAway ==
    /\ Receives("GOAWAY")
    /\ going_away' = TRUE
    /\ UNCHANGED <<streams, remote_initial, send_window, recv_window, settings_acked,
                   last_stream_id, outgoing>>

ProcessRstStream ==
    /\ Receives("RST_STREAM")
    /\ streams' = IF Has(frame.id) THEN [streams EXCEPT ![frame.id].state = "Closed"]
                                   ELSE streams
    /\ UNCHANGED <<remote_initial, send_window, recv_window, settings_acked,
                   going_away, last_stream_id, outgoing>>

ProcessFrame ==
    \/ ProcessSettings \/ ProcessSettingsAck \/ ProcessHeaders \/ ProcessData
    \/ ProcessWindowUpdate \/ ProcessPing \/ ProcessGoAway \/ ProcessRstStream

-----------------------------------------------------------------------------
(* The application and the caller of the library. *)

\* The frames that the server has sent and the client has not seen.
Downstream == to_client \o outgoing

SendHeaders(id, end) ==
    /\ Has(id) /\ CanSend(streams[id].state)
    /\ Len(Downstream) < MaxQueue
    /\ outgoing' = Append(outgoing, Headers(id, end))
    /\ streams' = IF end THEN [streams EXCEPT ![id].state = HalfClosedLocal(@)]
                         ELSE streams
    /\ UNCHANGED <<remote_initial, send_window, recv_window, preface_received,
                   settings_acked, going_away, last_stream_id, to_server, to_client,
                   clientVars>>

\* The library's send_data looks neither at the state nor at a window; it is the
\* application that does, and that consumes the stream's window.
SendData(id, len, end) ==
    /\ Has(id) /\ CanSend(streams[id].state)
    /\ len = 0 \/ len <= streams[id].send_window
    /\ Len(Downstream) < MaxQueue
    /\ outgoing' = Append(outgoing, Data(id, len, end))
    /\ LET stream == streams[id]
       IN  streams' = [streams EXCEPT ![id] =
                         [stream EXCEPT !.send_window = @ - len,
                                        !.state = IF end THEN HalfClosedLocal(@) ELSE @]]
    /\ UNCHANGED <<remote_initial, send_window, recv_window, preface_received,
                   settings_acked, going_away, last_stream_id, to_server, to_client,
                   clientVars>>

TakeOutgoing ==
    /\ outgoing # <<>>
    /\ to_client' = to_client \o outgoing
    /\ outgoing' = <<>>
    /\ UNCHANGED <<streams, remote_initial, send_window, recv_window, preface_received,
                   settings_acked, going_away, last_stream_id, to_server, clientVars>>

Server ==
    \/ ProcessPreface
    \/ ProcessFrame
    \/ \E id \in StreamIds, end \in BOOLEAN :
         \/ SendHeaders(id, end)
         \/ \E len \in 0 .. 1 : SendData(id, len, end)
    \/ TakeOutgoing

-----------------------------------------------------------------------------
(* The client.  view uses the names of the states from its side. *)

Sends(f) ==
    /\ Len(to_server) < MaxQueue
    /\ to_server' = Append(to_server, f)
    /\ UNCHANGED <<serverVars, to_client>>

\* New streams have larger ids than all before.
ClientOpens(id, end) ==
    /\ \A other \in StreamIds : other >= id => view[other] = "Idle"
    /\ Sends(Headers(id, end))
    /\ view' = [view EXCEPT ![id] = IF end THEN "HalfClosedLocal" ELSE "Open"]
    /\ UNCHANGED <<credit, conn_credit, conn_grant, awaiting, budget>>

ClientMaySend(id) == view[id] \in {"Open", "HalfClosedRemote"}

ClientData(id, len, end) ==
    /\ ClientMaySend(id)
    /\ len <= credit[id] /\ len <= conn_credit
    /\ Sends(Data(id, len, end))
    /\ view' = IF end THEN [view EXCEPT ![id] = HalfClosedLocal(@)] ELSE view
    /\ credit' = [credit EXCEPT ![id] = @ - len]
    /\ conn_credit' = conn_credit - len
    /\ UNCHANGED <<conn_grant, awaiting, budget>>

\* HEADERS after the data: trailers, which end the stream.
ClientTrailers(id) ==
    /\ ClientMaySend(id)
    /\ Sends(Headers(id, TRUE))
    /\ view' = [view EXCEPT ![id] = HalfClosedLocal(@)]
    /\ UNCHANGED <<credit, conn_credit, conn_grant, awaiting, budget>>

ClientResets(id) ==
    /\ view[id] \notin {"Idle", "Closed"}
    /\ Sends(RstStream(id))
    /\ view' = [view EXCEPT ![id] = "Closed"]
    /\ UNCHANGED <<credit, conn_credit, conn_grant, awaiting, budget>>

\* Frames about the connection; a PING carries what is left of the budget, so
\* that no two are the same.
ClientAsks(f) ==
    /\ Sends(f)
    /\ awaiting' = Append(awaiting, f)
    /\ UNCHANGED <<view, credit, conn_credit, conn_grant>>

ClientGrants(id, inc) ==
    /\ id # 0 => view[id] # "Idle"
    /\ id = 0 => conn_grant + inc <= MaxWindow
    /\ Sends(WindowUpdate(id, inc))
    /\ conn_grant' = IF id = 0 THEN conn_grant + inc ELSE conn_grant
    /\ UNCHANGED <<view, credit, conn_credit, awaiting>>

ClientControls ==
    /\ budget > 0
    /\ budget' = budget - 1
    /\ \/ \E value \in WindowSizes : ClientAsks(Settings(value))
       \/ ClientAsks(Ping(budget))
       \/ \E id \in StreamIds \cup {0} : ClientGrants(id, 1)
       \/ /\ Sends(GoAway)
          /\ UNCHANGED <<view, credit, conn_credit, conn_grant, awaiting>>

arrived == Head(to_client)

ClientReceives ==
    /\ to_client # <<>>
    /\ to_client' = Tail(to_client)
    /\ to_server' = IF arrived.type = "SETTINGS" THEN Append(to_server, SettingsAck)
                                                 ELSE to_server
    /\ awaiting' = IF arrived.type \in {"SETTINGS_ACK", "PING_ACK"} THEN Tail(awaiting)
                                                                    ELSE awaiting
    /\ view' = IF arrived.type \in {"HEADERS", "DATA"} /\ arrived.end
               THEN [view EXCEPT ![arrived.id] = HalfClosedRemote(@)] ELSE view
    /\ conn_grant' = IF arrived.type = "DATA" THEN conn_grant - arrived.len
                                              ELSE conn_grant
    /\ UNCHANGED <<serverVars, credit, conn_credit, budget>>

Client ==
    \/ \E id \in StreamIds :
         \/ \E end \in BOOLEAN :
              ClientOpens(id, end) \/ \E len \in 0 .. 1 : ClientData(id, len, end)
         \/ ClientTrailers(id)
         \/ ClientResets(id)
    \/ ClientControls
    \/ ClientReceives

-----------------------------------------------------------------------------
Init ==
    /\ streams = [id \in StreamIds |-> NoStream]
    /\ remote_initial = InitialWindow
    /\ send_window = InitialWindow /\ recv_window = InitialWindow
    /\ preface_received = FALSE /\ settings_acked = FALSE /\ going_away = FALSE
    /\ last_stream_id = 0
    /\ outgoing = <<>>
    /\ to_server = <<>> /\ to_client = <<>>
    /\ view = [id \in StreamIds |-> "Idle"]
    /\ credit = [id \in StreamIds |-> InitialWindow]
    /\ conn_credit = InitialWindow /\ conn_grant = InitialWindow
    /\ awaiting = <<>>
    /\ budget = Budget

Next == Server \/ Client

Spec == Init /\ [][Next]_vars

-----------------------------------------------------------------------------
I32 == -MaxWindow - 1 .. MaxWindow
StreamType ==
    [state : StreamStates, send_window : I32, recv_window : I32, body : Nat]
FrameTypes == {"SETTINGS", "SETTINGS_ACK", "PING", "PING_ACK", "HEADERS", "DATA",
               "WINDOW_UPDATE", "RST_STREAM", "GOAWAY"}

TypeOK ==
    /\ streams \in [StreamIds -> StreamType \cup {NoStream}]
    /\ remote_initial \in 0 .. MaxWindow
    /\ send_window \in I32 /\ recv_window \in I32
    /\ {preface_received, settings_acked, going_away} \subseteq BOOLEAN
    /\ last_stream_id \in StreamIds \cup {0}
    /\ \A channel \in {outgoing, to_server, to_client, awaiting} :
         \A i \in DOMAIN channel : channel[i].type \in FrameTypes
    /\ view \in [StreamIds -> StreamStates]
    /\ credit \in [StreamIds -> 0 .. InitialWindow]
    /\ conn_credit \in 0 .. InitialWindow
    /\ conn_grant \in Int
    /\ budget \in 0 .. Budget

AboutStream(f, id) == f.type \in {"HEADERS", "DATA"} /\ f.id = id
Bytes(f, ids) == IF f.type = "DATA" /\ f.id \in ids THEN f.len ELSE 0
BytesOnTheWay(ids) == SumFunction([i \in DOMAIN to_server |-> Bytes(to_server[i], ids)])

\* What a state of the client's is called on the server's side.
Mirrored(state) ==
    CASE state = "HalfClosedLocal" -> "HalfClosedRemote"
      [] state = "HalfClosedRemote" -> "HalfClosedLocal"
      [] OTHER -> state

\* When every frame has arrived, both ends agree on the state of every stream:
\* whatever the order in which requests, responses, trailers and resets crossed
\* (stream.rs lines 63-92).
ViewsAgree ==
    to_server = <<>> /\ Downstream = <<>> =>
        \A id \in StreamIds :
            IF view[id] = "Idle" THEN ~Has(id)
            ELSE Has(id) /\ streams[id].state = Mirrored(view[id])

\* Nothing follows END_STREAM: of the frames on their way to the client none comes
\* after the one that ends its stream, nor to a stream that the client has seen
\* ended (connection.rs lines 215-247, can_send).
EndIsLast ==
    \A id \in StreamIds, j \in DOMAIN Downstream :
        AboutStream(Downstream[j], id) =>
            /\ view[id] # "HalfClosedRemote"
            /\ \A i \in 1 .. j - 1 :
                 AboutStream(Downstream[i], id) => ~Downstream[i].end

Questions == {Settings(value) : value \in WindowSizes} \cup {Ping(data) : data \in 1 .. Budget}
Answers == {SettingsAck} \cup {PingAck(data) : data \in 1 .. Budget}
Answer(question) == IF question.type = "PING" THEN PingAck(question.data) ELSE SettingsAck
Answered(questions) == [i \in DOMAIN questions |-> Answer(questions[i])]

\* Each SETTINGS and PING is answered once and in order: what the client waits for
\* is what is on its way down, then what is not yet processed.
AnswersInOrder ==
    Answered(awaiting) =
        Members(Downstream, Answers) \o Answered(Members(to_server, Questions))

\* The receive windows are what the client may still send plus what is on its way,
\* on each stream and on the connection, and the bodies hold what was taken from
\* them: no DATA is ignored, counted twice or counted on one of the two only
\* (connection.rs lines 172-180).
ReceiveWindowsAgree ==
    /\ \A id \in StreamIds :
         Has(id) =>
           /\ streams[id].recv_window = credit[id] + BytesOnTheWay({id})
           /\ streams[id].body = InitialWindow - streams[id].recv_window
    /\ recv_window = conn_credit + BytesOnTheWay(StreamIds)

Rank(state) ==
    CASE state = "none" -> 0
      [] state = "Idle" -> 1
      [] state = "Open" -> 2
      [] state \in {"HalfClosedLocal", "HalfClosedRemote"} -> 3
      [] state = "Closed" -> 4

\* A stream never goes back: late or repeated frames do not reopen it (stream.rs
\* line 64), and it stays in the map.
StreamsAdvance ==
    [][\A id \in StreamIds :
         \/ streams'[id].state = streams[id].state
         \/ Rank(streams'[id].state) > Rank(streams[id].state)]_vars

-----------------------------------------------------------------------------
(* What a document says and the code does not do. *)

\* README.md line 22: "Full support with HPACK, stream multiplexing, flow control".
\* The client never receives more than it granted the connection.
ConnectionWindowRespected == conn_grant >= 0
=============================================================================
