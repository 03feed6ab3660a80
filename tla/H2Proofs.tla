------------------------------- MODULE H2Proofs ------------------------------
(***************************************************************************)
(* Proofs about H2Connection: whatever the number of streams, the windows  *)
(* and the order in which the frames of the two sides cross, both ends     *)
(* agree on the streams, the receive windows and the answers.              *)
(*                                                                         *)
(* What one stream, or one kind of frame, sees of a channel is the         *)
(* subsequence of its own frames; a frame of another leaves it alone.  The *)
(* invariant says of every stream how its state at the server, the state   *)
(* at the client and its frames on the way fit together.                   *)
(***************************************************************************)
EXTENDS H2Connection, DataFacts

-----------------------------------------------------------------------------
(* Frames. *)

HeadersFrames(id) == {Headers(id, end) : end \in BOOLEAN}
DataFrames(id) == {Data(id, len, end) : len \in 0 .. 1, end \in BOOLEAN}

\* The frames that carry a stream, and with RST_STREAM those that change its state.
Carriers(id) == HeadersFrames(id) \cup DataFrames(id)
StreamFrames(id) == Carriers(id) \cup {RstStream(id)}

ClientFrames ==
    Questions \cup {SettingsAck, GoAway}
      \cup {WindowUpdate(id, 1) : id \in StreamIds \cup {0}}
      \cup UNION {StreamFrames(id) : id \in StreamIds}

ServerFrames ==
    Answers \cup {Settings(InitialWindow)} \cup UNION {Carriers(id) : id \in StreamIds}

-----------------------------------------------------------------------------
(* The inductive invariant. *)

LiveStates == StreamStates \ {"Idle"}

Types ==
    /\ streams \in [StreamIds -> [state : LiveStates, send_window : I32,
                                  recv_window : I32, body : Nat] \cup {NoStream}]
    /\ remote_initial \in 0 .. MaxWindow
    /\ send_window \in I32 /\ recv_window \in I32
    /\ preface_received \in BOOLEAN /\ settings_acked \in BOOLEAN
    /\ going_away \in BOOLEAN
    /\ last_stream_id \in StreamIds \cup {0}
    /\ outgoing \in Seq(ServerFrames)
    /\ to_server \in Seq(ClientFrames)
    /\ to_client \in Seq(ServerFrames)
    /\ view \in [StreamIds -> StreamStates]
    /\ credit \in [StreamIds -> 0 .. InitialWindow]
    /\ conn_credit \in 0 .. InitialWindow
    /\ conn_grant \in Int
    /\ awaiting \in Seq(Questions)
    /\ budget \in 0 .. Budget

\* The frames of a stream on their way to the server and to the client.
Up(id) == Members(to_server, StreamFrames(id))
Down(id) == Members(Downstream, Carriers(id))

\* The frames after which the client sends no HEADERS or DATA on the stream.
Ends(f) == f.type = "RST_STREAM" \/ f.end

Ending(id) == \E i \in DOMAIN Up(id) : Ends(Up(id)[i])
Resetting(id) == RstStream(id) \in Range(Up(id))
Answering(id) == \E i \in DOMAIN Down(id) : Down(id)[i].end

\* The server has seen the end of the request, and has ended the response.
RemoteDone(id) == streams[id].state \in {"HalfClosedRemote", "Closed"}
LocalDone(id) == streams[id].state \in {"HalfClosedLocal", "Closed"}

\* The client sends HEADERS first and nothing but RST_STREAM after the end.
UpInOrder(id) ==
    /\ Up(id) # <<>> /\ ~Has(id) => Head(Up(id)).type = "HEADERS"
    /\ \A j \in DOMAIN Up(id) :
         Up(id)[j].type # "RST_STREAM" =>
             ~RemoteDone(id) /\ \A i \in 1 .. j - 1 : ~Ends(Up(id)[i])

\* What the client takes for ended is ended at the server or about to be, and what
\* the server has ended is ended at the client or about to be.
EndsMeet(id) ==
    /\ view[id] = "Idle" <=> ~Has(id) /\ Up(id) = <<>>
    /\ ~Has(id) => Down(id) = <<>> /\ view[id] \notin {"HalfClosedRemote"}
    /\ view[id] \in {"HalfClosedLocal", "Closed"} <=> Ending(id) \/ RemoteDone(id)
    /\ LocalDone(id) => view[id] \in {"HalfClosedRemote", "Closed"} \/ Answering(id)
    /\ view[id] \in {"HalfClosedRemote", "Closed"} => LocalDone(id) \/ Resetting(id)
    /\ Answering(id) => LocalDone(id)
    /\ Resetting(id) => view[id] = "Closed"

\* The server sends nothing after the end.
DownInOrder(id) ==
    \A j \in DOMAIN Down(id) :
        /\ view[id] # "HalfClosedRemote"
        /\ \A i \in 1 .. j - 1 : ~Down(id)[i].end

StreamOK(id) == UpInOrder(id) /\ EndsMeet(id) /\ DownInOrder(id)

StreamsOK == \A id \in StreamIds : StreamOK(id)

\* The windows, also of the streams that the server does not know yet.
WindowOK(id) ==
    /\ credit[id] + BytesOnTheWay({id}) =
         IF Has(id) THEN streams[id].recv_window ELSE InitialWindow
    /\ Has(id) => streams[id].body = InitialWindow - streams[id].recv_window

WindowsOK ==
    /\ \A id \in StreamIds : WindowOK(id)
    /\ conn_credit + BytesOnTheWay(StreamIds) = recv_window

\* What the client waits for: the answers on their way, then the questions on theirs.
Ordered(waiting, coming, going) ==
    /\ Len(waiting) = Len(coming) + Len(going)
    /\ \A i \in 1 .. Len(coming) : coming[i] = Answer(waiting[i])
    /\ \A i \in 1 .. Len(going) : waiting[Len(coming) + i] = going[i]

Coming == Members(Downstream, Answers)
Going == Members(to_server, Questions)

AnswersOK == Ordered(awaiting, Coming, Going)

IInv == Types /\ StreamsOK /\ WindowsOK /\ AnswersOK

-----------------------------------------------------------------------------
(* Facts about frames. *)

\* What is in a frame of a stream.
LEMMA StreamFrame ==
  ASSUME NEW id, NEW f \in StreamFrames(id)
  PROVE  /\ f.id = id
         /\ f.type \in {"HEADERS", "DATA", "RST_STREAM"}
         /\ f.type \in {"HEADERS", "DATA"} => f.end \in BOOLEAN
         /\ f.type = "DATA" => f.len \in 0 .. 1
         /\ f \in Carriers(id) <=> f.type # "RST_STREAM"
<1>1. ASSUME f \in HeadersFrames(id)
      PROVE  f.id = id /\ f.type = "HEADERS" /\ f.end \in BOOLEAN
  <2>1. PICK end \in BOOLEAN : f = Headers(id, end)
    BY <1>1 DEF HeadersFrames
  <2> QED BY <2>1 DEF Headers
<1>2. ASSUME f \in DataFrames(id)
      PROVE  f.id = id /\ f.type = "DATA" /\ f.end \in BOOLEAN /\ f.len \in 0 .. 1
  <2>1. PICK len \in 0 .. 1, end \in BOOLEAN : f = Data(id, len, end)
    BY <1>2 DEF DataFrames
  <2> QED BY <2>1 DEF Data
<1>3. ASSUME f = RstStream(id) PROVE f.id = id /\ f.type = "RST_STREAM"
  BY <1>3 DEF RstStream
<1> QED BY <1>1, <1>2, <1>3 DEF StreamFrames, Carriers

\* What is in a frame of the client, by its type.
LEMMA ClientFrame ==
  ASSUME NEW f \in ClientFrames
  PROVE  /\ f.type \in FrameTypes
         /\ f.type \in {"HEADERS", "DATA", "RST_STREAM"} => f.id \in StreamIds
         /\ f.type \in {"HEADERS", "DATA"} => f.end \in BOOLEAN
         /\ f.type = "DATA" => f.len \in 0 .. 1
         /\ f.type = "SETTINGS" => f.value \in WindowSizes
         /\ f.type = "PING" => f.data \in 1 .. Budget
         /\ f.type = "WINDOW_UPDATE" => f.id \in StreamIds \cup {0} /\ f.inc = 1
         /\ f \in Questions <=> f.type \in {"SETTINGS", "PING"}
         /\ \A id \in StreamIds :
              f \in StreamFrames(id) <=>
                f.type \in {"HEADERS", "DATA", "RST_STREAM"} /\ f.id = id
<1>1. \A g \in Questions :
        \/ g.type = "SETTINGS" /\ g.value \in WindowSizes
        \/ g.type = "PING" /\ g.data \in 1 .. Budget
  BY DEF Questions, Settings, Ping
<1>2. SettingsAck.type = "SETTINGS_ACK" /\ GoAway.type = "GOAWAY"
  BY DEF SettingsAck, GoAway
<1>3. \A id \in StreamIds \cup {0} : /\ WindowUpdate(id, 1).type = "WINDOW_UPDATE"
                                   /\ WindowUpdate(id, 1).id = id
                                   /\ WindowUpdate(id, 1).inc = 1
  BY DEF WindowUpdate
<1>4. \A id \in StreamIds : \A g \in StreamFrames(id) :
        /\ g.id = id
        /\ g.type \in {"HEADERS", "DATA", "RST_STREAM"}
        /\ g.type \in {"HEADERS", "DATA"} => g.end \in BOOLEAN
        /\ g.type = "DATA" => g.len \in 0 .. 1
  BY StreamFrame
<1>5. \/ f \in Questions \/ f = SettingsAck \/ f = GoAway
      \/ \E id \in StreamIds \cup {0} : f = WindowUpdate(id, 1)
      \/ \E id \in StreamIds : f \in StreamFrames(id)
  BY DEF ClientFrames
<1> QED BY <1>1, <1>2, <1>3, <1>4, <1>5 DEF FrameTypes

\* And in one of the server.
LEMMA ServerFrame ==
  ASSUME NEW f \in ServerFrames
  PROVE  /\ f.type \in FrameTypes \ {"PING", "RST_STREAM", "WINDOW_UPDATE", "GOAWAY"}
         /\ f.type \in {"HEADERS", "DATA"} => f.id \in StreamIds /\ f.end \in BOOLEAN
         /\ f.type = "DATA" => f.len \in 0 .. 1
         /\ f \in Answers <=> f.type \in {"SETTINGS_ACK", "PING_ACK"}
         /\ \A id \in StreamIds : f \in Carriers(id) <=> AboutStream(f, id)
<1>1. \A g \in Answers : g.type \in {"SETTINGS_ACK", "PING_ACK"}
  BY DEF Answers, SettingsAck, PingAck
<1>2. Settings(InitialWindow).type = "SETTINGS"
  BY DEF Settings
<1>3. \A id \in StreamIds : \A g \in Carriers(id) :
        /\ g.id = id
        /\ g.type \in {"HEADERS", "DATA"}
        /\ g.end \in BOOLEAN
        /\ g.type = "DATA" => g.len \in 0 .. 1
  BY StreamFrame DEF StreamFrames
<1>4. \/ f \in Answers \/ f = Settings(InitialWindow)
      \/ \E id \in StreamIds : f \in Carriers(id)
  BY DEF ServerFrames
<1> QED BY <1>1, <1>2, <1>3, <1>4 DEF FrameTypes, AboutStream

-----------------------------------------------------------------------------
(* Facts about channels. *)

\* A sequence with one element more, place by place.
LEMMA Longer ==
  ASSUME NEW X, NEW u \in Seq(X), NEW f \in X, NEW a, a = Append(u, f)
  PROVE  /\ Len(u) \in Nat /\ DOMAIN u = 1 .. Len(u)
         /\ DOMAIN a = 1 .. Len(u) + 1 /\ Len(a) = Len(u) + 1 /\ a # <<>>
         /\ a[Len(u) + 1] = f /\ \A i \in 1 .. Len(u) : a[i] = u[i]
         /\ Head(a) = IF u = <<>> THEN f ELSE Head(u)
BY AppendProperties, HeadTailAppend

\* And without its first one.
LEMMA Shorter ==
  ASSUME NEW X, NEW u \in Seq(X), u # <<>>, NEW t, t = Tail(u)
  PROVE  /\ Len(u) \in Nat \ {0} /\ DOMAIN u = 1 .. Len(u) /\ Head(u) = u[1] /\ u[1] \in X
         /\ DOMAIN t = 1 .. Len(u) - 1 /\ Len(t) = Len(u) - 1
         /\ \A i \in 1 .. Len(u) - 1 : t[i] = u[i + 1]
         /\ t # <<>> => Len(u) > 1 /\ Head(t) = u[2]
BY HeadTailProperties

\* The channels hold frames, and what a stream sees of them are its own.
LEMMA Channels ==
  ASSUME Types
  PROVE  /\ Downstream \in Seq(ServerFrames)
         /\ \A id : Up(id) \in Seq(StreamFrames(id)) /\ Down(id) \in Seq(Carriers(id))
         /\ Members(Downstream, Answers) \in Seq(Answers)
         /\ Members(to_server, Questions) \in Seq(Questions)
<1>1. Downstream \in Seq(ServerFrames) /\ to_server \in Seq(ClientFrames)
  BY ConcatProperties DEF Downstream, Types
<1>2. \A X, Y : Seq(X \cap Y) \subseteq Seq(Y)
  BY SeqMonotonic
<1> QED BY <1>1, <1>2, MembersSeq DEF Up, Down

\* The client sends a frame.
LEMMA ClientSent ==
  ASSUME Types, NEW f \in ClientFrames, to_server' = Append(to_server, f)
  PROVE  /\ to_server' \in Seq(ClientFrames)
         /\ \A id : Up(id)' = IF f \in StreamFrames(id) THEN Append(Up(id), f) ELSE Up(id)
         /\ Members(to_server', Questions) =
              IF f \in Questions THEN Append(Members(to_server, Questions), f)
                                ELSE Members(to_server, Questions)
<1>1. to_server \in Seq(ClientFrames)
  BY DEF Types
<1> QED BY <1>1, MembersAppend, AppendProperties DEF Up

\* The server processes a frame.
LEMMA Processed ==
  ASSUME Types, to_server # <<>>, to_server' = Tail(to_server)
  PROVE  /\ to_server' \in Seq(ClientFrames)
         /\ frame \in ClientFrames
         /\ \A id : /\ frame \in StreamFrames(id) =>
                         Up(id) # <<>> /\ Head(Up(id)) = frame /\ Up(id)' = Tail(Up(id))
                    /\ frame \notin StreamFrames(id) => Up(id)' = Up(id)
         /\ LET going == Members(to_server, Questions)
            IN  /\ frame \in Questions =>
                     /\ going # <<>> /\ Head(going) = frame
                     /\ Members(to_server', Questions) = Tail(going)
                /\ frame \notin Questions => Members(to_server', Questions) = going
<1>1. to_server \in Seq(ClientFrames)
  BY DEF Types
<1> QED BY <1>1, MembersTail, HeadTailProperties DEF Up, frame

\* What the client still receives when nothing, or one frame more, is queued, when
\* the queue is handed over, and when it receives a frame.
LEMMA Queued ==
  ASSUME Types, NEW f \in ServerFrames, outgoing' = Append(outgoing, f), to_client' = to_client
  PROVE  Downstream' = Append(Downstream, f) /\ outgoing' \in Seq(ServerFrames)
<1>1. outgoing \in Seq(ServerFrames) /\ to_client \in Seq(ServerFrames)
  BY DEF Types
<1>2. Append(outgoing, f) = outgoing \o <<f>> /\ <<f>> \in Seq(ServerFrames)
  BY <1>1
<1>3. Append(to_client \o outgoing, f) = (to_client \o outgoing) \o <<f>>
  BY <1>1, ConcatProperties, AppendIsConcat
<1>4. to_client \o (outgoing \o <<f>>) = (to_client \o outgoing) \o <<f>>
  BY <1>1, <1>2, ConcatAssociative
<1> QED BY <1>1, <1>2, <1>3, <1>4 DEF Downstream

LEMMA HandedOver ==
  ASSUME Types, to_client' = to_client \o outgoing, outgoing' = <<>>
  PROVE  Downstream' = Downstream /\ to_client' \in Seq(ServerFrames)
BY ConcatProperties, ConcatEmptySeq DEF Downstream, Types

LEMMA Arrived ==
  ASSUME Types, to_client # <<>>, to_client' = Tail(to_client), outgoing' = outgoing
  PROVE  /\ to_client' \in Seq(ServerFrames)
         /\ arrived \in ServerFrames
         /\ Downstream # <<>> /\ Head(Downstream) = arrived /\ Downstream' = Tail(Downstream)
<1>1. outgoing \in Seq(ServerFrames) /\ to_client \in Seq(ServerFrames)
  BY DEF Types
<1>2. Head(to_client) \in ServerFrames /\ Tail(to_client) \in Seq(ServerFrames)
  BY <1>1, HeadTailProperties
<1>3. /\ to_client \o outgoing # <<>>
      /\ Head(to_client \o outgoing) = Head(to_client)
      /\ Tail(to_client \o outgoing) = Tail(to_client) \o outgoing
  BY <1>1
<1> QED BY <1>2, <1>3 DEF Downstream, arrived

\* So a stream sees one frame more, or one less, or what it saw.
LEMMA DownLonger ==
  ASSUME Types, NEW f \in ServerFrames, Downstream' = Append(Downstream, f)
  PROVE  /\ \A id : Down(id)' = IF f \in Carriers(id) THEN Append(Down(id), f) ELSE Down(id)
         /\ Members(Downstream, Answers)' =
              IF f \in Answers THEN Append(Members(Downstream, Answers), f)
                              ELSE Members(Downstream, Answers)
BY Channels, MembersAppend DEF Down

LEMMA DownShorter ==
  ASSUME Types, Downstream # <<>>, Downstream' = Tail(Downstream), NEW f, f = Head(Downstream)
  PROVE  /\ \A id : /\ f \in Carriers(id) =>
                         Down(id) # <<>> /\ Head(Down(id)) = f /\ Down(id)' = Tail(Down(id))
                    /\ f \notin Carriers(id) => Down(id)' = Down(id)
         /\ LET coming == Members(Downstream, Answers)
            IN  /\ f \in Answers => /\ coming # <<>> /\ Head(coming) = f
                                    /\ Members(Downstream, Answers)' = Tail(coming)
                /\ f \notin Answers => Members(Downstream, Answers)' = coming
BY Channels, MembersTail DEF Down

LEMMA DownSame ==
  ASSUME Downstream' = Downstream
  PROVE  /\ \A id : Down(id)' = Down(id)
         /\ Members(Downstream, Answers)' = Members(Downstream, Answers)
BY DEF Down

-----------------------------------------------------------------------------
(* The invariant of a stream, step by step. *)

\* What the map has of a stream, by its state.
LEMMA InMap ==
  ASSUME Types, NEW id \in StreamIds
  PROVE  /\ Has(id) <=> streams[id].state # "none"
         /\ Has(id) <=> streams[id].state \in LiveStates
         /\ Has(id) => streams[id] \in [state : LiveStates, send_window : I32,
                                        recv_window : I32, body : Nat]
<1>1. NoStream.state = "none" /\ "none" \notin LiveStates
  BY DEF NoStream, LiveStates, StreamStates
<1>2. streams[id] \in [state : LiveStates, send_window : I32, recv_window : I32, body : Nat]
        \/ streams[id] = NoStream
  BY DEF Types
<1> QED BY <1>1, <1>2 DEF Has

\* A step that is about something else.
LEMMA StreamSame ==
  ASSUME NEW id \in StreamIds, StreamOK(id),
         streams'[id].state = streams[id].state, Has(id)' = Has(id),
         view'[id] = view[id], Up(id)' = Up(id), Down(id)' = Down(id)
  PROVE  StreamOK(id)'
BY DEF StreamOK, UpInOrder, EndsMeet, DownInOrder, Ending, Resetting, Answering,
       RemoteDone, LocalDone

\* The client opens the stream (ClientOpens).
LEMMA OpenStep ==
  ASSUME Types, NEW id \in StreamIds, StreamOK(id), NEW end \in BOOLEAN,
         view[id] = "Idle", view'[id] = IF end THEN "HalfClosedLocal" ELSE "Open",
         streams'[id].state = streams[id].state, Has(id)' = Has(id),
         Up(id)' = Append(Up(id), Headers(id, end)), Down(id)' = Down(id)
  PROVE  StreamOK(id)'
<1> DEFINE f == Headers(id, end)
           u == Up(id)
<1>1. ~Has(id) /\ u = <<>> /\ Down(id) = <<>>
  BY DEF StreamOK, EndsMeet
<1>2. /\ f \in StreamFrames(id) /\ f.type = "HEADERS" /\ f.end = end /\ f # RstStream(id)
  BY DEF StreamFrames, Carriers, HeadersFrames, Headers, RstStream
<1>3. DOMAIN Up(id)' = {1} /\ Up(id)'[1] = f /\ Head(Up(id)') = f /\ Up(id)' # <<>>
  <2>1. u \in Seq(StreamFrames(id)) /\ Len(u) = 0
    BY <1>1, Channels
  <2> HIDE DEF f, u
  <2> QED BY <1>1, <1>2, <2>1, Longer DEF f, u
<1>4. /\ Ending(id)' <=> end
      /\ ~Resetting(id)'
  <2>1. Range(Up(id)') = {f}
    BY <1>3 DEF Range
  <2> QED BY <1>2, <1>3, <2>1 DEF Ending, Resetting, Ends
<1>5. ~RemoteDone(id) /\ ~RemoteDone(id)' /\ ~LocalDone(id)'
  <2>1. streams[id].state = "none"
    BY <1>1, InMap
  <2> QED BY <2>1 DEF RemoteDone, LocalDone
<1>6. UpInOrder(id)'
  BY <1>2, <1>3, <1>5 DEF UpInOrder
<1>7. EndsMeet(id)'
  BY <1>1, <1>3, <1>4, <1>5 DEF EndsMeet, Answering
<1>8. DownInOrder(id)'
  BY <1>1 DEF DownInOrder
<1> QED BY <1>6, <1>7, <1>8 DEF StreamOK

\* The client sends on the stream (ClientData, ClientTrailers).
LEMMA CarryStep ==
  ASSUME Types, NEW id \in StreamIds, StreamOK(id), NEW f \in Carriers(id),
         ClientMaySend(id),
         view'[id] = IF f.end THEN HalfClosedLocal(view[id]) ELSE view[id],
         streams'[id].state = streams[id].state, Has(id)' = Has(id),
         Up(id)' = Append(Up(id), f), Down(id)' = Down(id)
  PROVE  StreamOK(id)'
<1> DEFINE u == Up(id)
           n == Len(Up(id))
<1>1. /\ f \in StreamFrames(id) /\ f.type # "RST_STREAM" /\ f.end \in BOOLEAN
      /\ f # RstStream(id)
  BY StreamFrame DEF StreamFrames, RstStream
<1>2. /\ n \in Nat /\ DOMAIN u = 1 .. n /\ DOMAIN Up(id)' = 1 .. n + 1
      /\ Up(id)'[n + 1] = f /\ \A i \in 1 .. n : Up(id)'[i] = u[i]
      /\ Up(id)' # <<>> /\ Head(Up(id)') = IF u = <<>> THEN f ELSE Head(u)
  <2>1. u \in Seq(StreamFrames(id)) /\ Up(id)' = Append(u, f)
    BY Channels
  <2> HIDE DEF u
  <2> QED BY <1>1, <2>1, Longer DEF u
<1>3. /\ view[id] \in {"Open", "HalfClosedRemote"}
      /\ ~Ending(id) /\ ~RemoteDone(id) /\ ~Resetting(id)
      /\ u = <<>> => Has(id)
  BY DEF ClientMaySend, StreamOK, EndsMeet
<1>4. /\ Ending(id)' <=> f.end
      /\ ~Resetting(id)'
  <2>1. Range(u) = {u[i] : i \in 1 .. n} /\ Range(Up(id)') = {Up(id)'[i] : i \in 1 .. n + 1}
    BY <1>2 DEF Range
  <2> HIDE DEF u, n
  <2> QED BY <1>1, <1>2, <1>3, <2>1 DEF Ending, Resetting, Ends, u
<1>5. (RemoteDone(id)' <=> RemoteDone(id)) /\ (LocalDone(id)' <=> LocalDone(id))
      /\ (Answering(id)' <=> Answering(id))
  BY DEF RemoteDone, LocalDone, Answering
<1>6. UpInOrder(id)'
  <2>1. UpInOrder(id) /\ \A i \in 1 .. n : ~Ends(u[i])
    BY <1>2, <1>3 DEF StreamOK, Ending
  <2> HIDE DEF n
  <2> QED BY <1>1, <1>2, <1>3, <1>5, <2>1 DEF UpInOrder
<1>7. view'[id] = IF f.end THEN (IF view[id] = "Open" THEN "HalfClosedLocal" ELSE "Closed")
                  ELSE view[id]
  BY <1>3 DEF HalfClosedLocal
<1>8. EndsMeet(id)'
  BY <1>1, <1>2, <1>3, <1>4, <1>5, <1>7 DEF EndsMeet, StreamOK
<1>9. DownInOrder(id)'
  BY <1>1, <1>3, <1>7 DEF DownInOrder, StreamOK
<1> QED BY <1>6, <1>8, <1>9 DEF StreamOK

\* The client gives the stream up (ClientResets).
LEMMA ResetStep ==
  ASSUME Types, NEW id \in StreamIds, StreamOK(id),
         view[id] \notin {"Idle", "Closed"}, view'[id] = "Closed",
         streams'[id].state = streams[id].state, Has(id)' = Has(id),
         Up(id)' = Append(Up(id), RstStream(id)), Down(id)' = Down(id)
  PROVE  StreamOK(id)'
<1> DEFINE f == RstStream(id)
           u == Up(id)
           n == Len(Up(id))
<1>1. f \in StreamFrames(id) /\ f.type = "RST_STREAM"
  BY DEF StreamFrames, RstStream
<1>2. /\ n \in Nat /\ DOMAIN u = 1 .. n /\ DOMAIN Up(id)' = 1 .. n + 1
      /\ Up(id)'[n + 1] = f /\ \A i \in 1 .. n : Up(id)'[i] = u[i]
      /\ Up(id)' # <<>> /\ Head(Up(id)') = IF u = <<>> THEN f ELSE Head(u)
  <2>1. u \in Seq(StreamFrames(id)) /\ Up(id)' = Append(u, f)
    BY Channels
  <2> HIDE DEF f, u
  <2> QED BY <1>1, <2>1, Longer DEF u
<1>3. Ending(id)' /\ Resetting(id)'
  <2>1. Range(Up(id)') = {Up(id)'[i] : i \in 1 .. n + 1}
    BY <1>2 DEF Range
  <2> HIDE DEF n, u
  <2> QED BY <1>1, <1>2, <2>1 DEF Ending, Resetting, Ends
<1>4. (RemoteDone(id)' <=> RemoteDone(id)) /\ (LocalDone(id)' <=> LocalDone(id))
      /\ (Answering(id)' <=> Answering(id))
  BY DEF RemoteDone, LocalDone, Answering
<1>5. u = <<>> => Has(id)
  BY DEF StreamOK, EndsMeet
<1>6. UpInOrder(id)'
  <2>1. UpInOrder(id)
    BY DEF StreamOK
  <2> HIDE DEF n, f
  <2> QED BY <1>1, <1>2, <1>4, <1>5, <2>1 DEF UpInOrder
<1>7. EndsMeet(id)'
  BY <1>2, <1>3, <1>4 DEF EndsMeet, StreamOK
<1>8. DownInOrder(id)'
  BY DEF DownInOrder, StreamOK
<1> QED BY <1>6, <1>7, <1>8 DEF StreamOK

\* The client receives a frame of the stream (ClientReceives).
LEMMA ArriveStep ==
  ASSUME Types, NEW id \in StreamIds, StreamOK(id), Down(id) # <<>>, NEW f,
         f = Head(Down(id)), Down(id)' = Tail(Down(id)),
         view'[id] = IF f.end THEN HalfClosedRemote(view[id]) ELSE view[id],
         streams'[id].state = streams[id].state, Has(id)' = Has(id), Up(id)' = Up(id)
  PROVE  StreamOK(id)'
<1> DEFINE d == Down(id)
           n == Len(Down(id))
<1>1. /\ n \in Nat \ {0} /\ DOMAIN d = 1 .. n /\ d[1] = f /\ f \in Carriers(id)
      /\ DOMAIN Down(id)' = 1 .. n - 1 /\ \A i \in 1 .. n - 1 : Down(id)'[i] = d[i + 1]
  BY Channels, Shorter
<1>2. f.end \in BOOLEAN /\ f.type # "RST_STREAM"
  BY <1>1, StreamFrame DEF StreamFrames
<1>3. /\ Has(id) /\ view[id] # "Idle" /\ view[id] # "HalfClosedRemote"
      /\ f.end => LocalDone(id)
  <2>1. 1 \in DOMAIN d
    BY <1>1
  <2> QED BY <1>1, <2>1 DEF StreamOK, EndsMeet, DownInOrder, Answering
<1>4. /\ Ending(id)' <=> Ending(id)
      /\ Resetting(id)' <=> Resetting(id)
      /\ RemoteDone(id)' <=> RemoteDone(id)
      /\ LocalDone(id)' <=> LocalDone(id)
  BY DEF Ending, Resetting, RemoteDone, LocalDone
<1>5. f.end => n = 1 /\ Down(id)' = <<>>
  <2>1. ASSUME f.end, n > 1 PROVE FALSE
    <3>1. 2 \in DOMAIN d /\ 1 \in 1 .. 2 - 1
      BY <1>1, <2>1
    <3> QED BY <1>1, <2>1, <3>1 DEF StreamOK, DownInOrder
  <2>2. n = 1 => Down(id)' = <<>>
    BY Channels
  <2> QED BY <1>1, <2>1, <2>2
<1>6. Answering(id) <=> f.end \/ Answering(id)'
  <2>1. ASSUME NEW i \in 1 .. n, d[i].end PROVE f.end \/ Answering(id)'
    <3>1. CASE i = 1
      BY <1>1, <2>1, <3>1
    <3>2. CASE i # 1
      <4>1. i - 1 \in 1 .. n - 1 /\ (i - 1) + 1 = i
        BY <1>1, <3>2
      <4> QED BY <1>1, <2>1, <4>1 DEF Answering
    <3> QED BY <3>1, <3>2
  <2>2. ASSUME NEW i \in 1 .. n - 1, Down(id)'[i].end PROVE Answering(id)
    <3>1. i + 1 \in 1 .. n
      BY <1>1
    <3> QED BY <1>1, <2>2, <3>1 DEF Answering
  <2>3. f.end => Answering(id)
    BY <1>1 DEF Answering
  <2> QED BY <1>1, <2>1, <2>2, <2>3 DEF Answering
<1>7. UpInOrder(id)'
  BY <1>4 DEF StreamOK, UpInOrder, RemoteDone
<1>8. view'[id] = IF f.end THEN (CASE view[id] = "Open" -> "HalfClosedRemote"
                                  [] view[id] = "HalfClosedLocal" -> "Closed"
                                  [] OTHER -> view[id])
                  ELSE view[id]
  BY DEF HalfClosedRemote
<1>9. view[id] \in {"Open", "HalfClosedLocal", "Closed"}
  BY <1>3 DEF Types, StreamStates
<1>10. EndsMeet(id)'
  BY <1>2, <1>3, <1>4, <1>5, <1>6, <1>8, <1>9 DEF StreamOK, EndsMeet
<1>11. DownInOrder(id)'
  <2>1. CASE f.end
    BY <1>5, <2>1 DEF DownInOrder
  <2>2. CASE ~f.end
    <3> SUFFICES ASSUME NEW j \in 1 .. n - 1
                 PROVE  /\ view'[id] # "HalfClosedRemote"
                        /\ \A i \in 1 .. j - 1 : ~Down(id)'[i].end
      BY <1>1 DEF DownInOrder
    <3>1. j + 1 \in 1 .. n /\ \A i \in 1 .. j - 1 : i + 1 \in 1 .. (j + 1) - 1 /\ i \in 1 .. n - 1
      BY <1>1
    <3>2. \A i \in 1 .. (j + 1) - 1 : ~d[i].end
      BY <1>1, <3>1 DEF StreamOK, DownInOrder
    <3> QED BY <1>1, <1>2, <1>3, <1>8, <2>2, <3>1, <3>2
  <2> QED BY <1>2, <2>1, <2>2
<1> QED BY <1>7, <1>10, <1>11 DEF StreamOK

\* The server processes HEADERS or DATA of the stream (ProcessHeaders, ProcessData).
LEMMA CarriedStep ==
  ASSUME Types, NEW id \in StreamIds, StreamOK(id), Up(id) # <<>>, NEW f,
         f = Head(Up(id)), f.type # "RST_STREAM", Up(id)' = Tail(Up(id)), Has(id)',
         NEW open, open = IF Has(id) THEN streams[id].state ELSE "Open",
         streams'[id].state = IF f.end THEN HalfClosedRemote(open) ELSE open,
         view'[id] = view[id], Down(id)' = Down(id)
  PROVE  StreamOK(id)'
<1> DEFINE u == Up(id)
           n == Len(Up(id))
<1>1. /\ n \in Nat \ {0} /\ DOMAIN u = 1 .. n /\ u[1] = f /\ f \in StreamFrames(id)
      /\ DOMAIN Up(id)' = 1 .. n - 1 /\ \A i \in 1 .. n - 1 : Up(id)'[i] = u[i + 1]
  BY Channels, Shorter
<1>2. f.end \in BOOLEAN /\ f # RstStream(id) /\ (Ends(f) <=> f.end)
  BY <1>1, StreamFrame DEF RstStream, Ends
<1>3. ~RemoteDone(id) /\ view[id] # "Idle"
  <2>1. 1 \in DOMAIN u
    BY <1>1
  <2> QED BY <1>1, <2>1 DEF StreamOK, UpInOrder, EndsMeet
<1>4. open \in {"Open", "HalfClosedLocal"} /\ (LocalDone(id) <=> open = "HalfClosedLocal")
  BY <1>3, InMap DEF RemoteDone, LocalDone, LiveStates, StreamStates
<1>5. /\ RemoteDone(id)' <=> f.end
      /\ LocalDone(id)' <=> LocalDone(id)
      /\ Answering(id)' <=> Answering(id)
  BY <1>2, <1>4 DEF HalfClosedRemote, RemoteDone, LocalDone, Answering
<1>6. ASSUME NEW j \in 1 .. n - 1, Up(id)'[j].type # "RST_STREAM"
      PROVE  ~f.end /\ \A i \in 1 .. j - 1 : ~Ends(Up(id)'[i])
  <2>1. /\ j + 1 \in 1 .. n /\ 1 \in 1 .. (j + 1) - 1
        /\ \A i \in 1 .. j - 1 : i + 1 \in 1 .. (j + 1) - 1 /\ i \in 1 .. n - 1
    BY <1>1
  <2>2. \A i \in 1 .. (j + 1) - 1 : ~Ends(u[i])
    BY <1>1, <1>6, <2>1 DEF StreamOK, UpInOrder
  <2> QED BY <1>1, <1>2, <2>1, <2>2
<1>7. Ending(id) <=> f.end \/ Ending(id)'
  <2>1. ASSUME NEW i \in 1 .. n, Ends(u[i]) PROVE f.end \/ Ending(id)'
    <3>1. CASE i = 1
      BY <1>1, <1>2, <2>1, <3>1
    <3>2. CASE i # 1
      <4>1. i - 1 \in 1 .. n - 1 /\ (i - 1) + 1 = i
        BY <1>1, <3>2
      <4> QED BY <1>1, <2>1, <4>1 DEF Ending
    <3> QED BY <3>1, <3>2
  <2>2. ASSUME NEW i \in 1 .. n - 1, Ends(Up(id)'[i]) PROVE Ending(id)
    <3>1. i + 1 \in 1 .. n
      BY <1>1
    <3> QED BY <1>1, <2>2, <3>1 DEF Ending
  <2>3. f.end => Ending(id)
    BY <1>1, <1>2 DEF Ending
  <2> QED BY <1>1, <2>1, <2>2, <2>3 DEF Ending
<1>8. Resetting(id)' => Resetting(id)
  <2>1. Range(u) = {u[i] : i \in 1 .. n} /\ Range(Up(id)') = {Up(id)'[i] : i \in 1 .. n - 1}
    BY <1>1 DEF Range
  <2>2. \A i \in 1 .. n - 1 : i + 1 \in 1 .. n
    BY <1>1
  <2> QED BY <1>1, <2>1, <2>2 DEF Resetting
<1>9. Resetting(id) => Resetting(id)'
  <2>1. Range(u) = {u[i] : i \in 1 .. n} /\ Range(Up(id)') = {Up(id)'[i] : i \in 1 .. n - 1}
    BY <1>1 DEF Range
  <2>2. SUFFICES ASSUME NEW i \in 1 .. n, u[i] = RstStream(id)
                 PROVE  RstStream(id) \in Range(Up(id)')
    BY <2>1 DEF Resetting
  <2>3. i # 1 /\ i - 1 \in 1 .. n - 1 /\ (i - 1) + 1 = i
    BY <1>1, <1>2, <2>2
  <2>4. Up(id)'[i - 1] = RstStream(id)
    BY <1>1, <2>2, <2>3
  <2> HIDE DEF n, u
  <2> QED BY <2>1, <2>3, <2>4
<1>10. UpInOrder(id)'
  BY <1>1, <1>5, <1>6 DEF UpInOrder
<1>11. EndsMeet(id)'
  BY <1>2, <1>3, <1>5, <1>7, <1>8, <1>9 DEF StreamOK, EndsMeet
<1>12. DownInOrder(id)'
  BY DEF StreamOK, DownInOrder
<1> QED BY <1>10, <1>11, <1>12 DEF StreamOK

\* DATA come for a stream that the server knows and whose request has not ended, so
\* that process_frame never ignores them.
LEMMA Expected ==
  ASSUME Types, NEW id \in StreamIds, StreamOK(id), Up(id) # <<>>, Head(Up(id)).type = "DATA"
  PROVE  Has(id) /\ CanReceive(streams[id].state)
<1>1. 1 \in DOMAIN Up(id) /\ Up(id)[1] = Head(Up(id))
  BY Channels, Shorter
<1>2. Has(id) /\ ~RemoteDone(id)
  BY <1>1 DEF StreamOK, UpInOrder
<1>3. streams[id].state \in LiveStates
  BY <1>2, InMap
<1> QED BY <1>2, <1>3 DEF CanReceive, RemoteDone, LiveStates, StreamStates

\* The server processes RST_STREAM of the stream (ProcessRstStream), which it knows.
LEMMA GivenUpStep ==
  ASSUME Types, NEW id \in StreamIds, StreamOK(id), Up(id) # <<>>, NEW f,
         f = Head(Up(id)), f.type = "RST_STREAM", Up(id)' = Tail(Up(id))
  PROVE  /\ Has(id)
         /\ /\ Has(id)' /\ streams'[id].state = "Closed"
            /\ view'[id] = view[id] /\ Down(id)' = Down(id)
            => StreamOK(id)'
<1> DEFINE u == Up(id)
           n == Len(Up(id))
<1>1. /\ n \in Nat \ {0} /\ DOMAIN u = 1 .. n /\ u[1] = f /\ f \in StreamFrames(id)
      /\ DOMAIN Up(id)' = 1 .. n - 1 /\ \A i \in 1 .. n - 1 : Up(id)'[i] = u[i + 1]
  BY Channels, Shorter
<1>2. f = RstStream(id) /\ Ends(f)
  BY <1>1, StreamFrame DEF StreamFrames, RstStream, Ends
<1>3. Has(id)
  BY DEF StreamOK, UpInOrder
<1>4. Ending(id) /\ Resetting(id) /\ view[id] = "Closed"
  <2>1. Ending(id) /\ Resetting(id)
    BY <1>1, <1>2 DEF Ending, Resetting, Range
  <2> QED BY <2>1 DEF StreamOK, EndsMeet
<1> SUFFICES ASSUME Has(id)', streams'[id].state = "Closed",
                    view'[id] = view[id], Down(id)' = Down(id)
             PROVE  StreamOK(id)'
  BY <1>3
<1>5. RemoteDone(id)' /\ LocalDone(id)'
  BY DEF RemoteDone, LocalDone
<1>6. \A j \in 1 .. n - 1 : Up(id)'[j].type = "RST_STREAM"
  <2> TAKE j \in 1 .. n - 1
  <2>1. j + 1 \in DOMAIN u /\ 1 \in 1 .. (j + 1) - 1 /\ Up(id)'[j] = u[j + 1]
    BY <1>1
  <2> QED BY <1>1, <1>2, <2>1 DEF StreamOK, UpInOrder
<1>7. UpInOrder(id)'
  BY <1>1, <1>6 DEF UpInOrder
<1>8. EndsMeet(id)'
  BY <1>4, <1>5 DEF EndsMeet
<1>9. DownInOrder(id)'
  BY DEF StreamOK, DownInOrder
<1> QED BY <1>7, <1>8, <1>9 DEF StreamOK

\* The server sends on the stream (SendHeaders, SendData).
LEMMA AnswerStep ==
  ASSUME Types, NEW id \in StreamIds, StreamOK(id), NEW f \in Carriers(id),
         Has(id), CanSend(streams[id].state), Has(id)',
         streams'[id].state = IF f.end THEN HalfClosedLocal(streams[id].state)
                                       ELSE streams[id].state,
         view'[id] = view[id], Up(id)' = Up(id), Down(id)' = Append(Down(id), f)
  PROVE  StreamOK(id)'
<1> DEFINE d == Down(id)
           n == Len(Down(id))
<1>1. f.end \in BOOLEAN
  BY StreamFrame DEF StreamFrames
<1>2. /\ n \in Nat /\ DOMAIN d = 1 .. n /\ DOMAIN Down(id)' = 1 .. n + 1
      /\ Down(id)'[n + 1] = f /\ \A i \in 1 .. n : Down(id)'[i] = d[i]
  <2>1. d \in Seq(Carriers(id)) /\ Down(id)' = Append(d, f)
    BY Channels
  <2> HIDE DEF d
  <2> QED BY <2>1, Longer DEF d
<1>3. /\ ~LocalDone(id) /\ ~Answering(id)
      /\ view[id] # "HalfClosedRemote" /\ view[id] # "Idle"
  BY DEF CanSend, LocalDone, StreamOK, EndsMeet
<1>4. /\ LocalDone(id)' <=> f.end
      /\ RemoteDone(id)' <=> RemoteDone(id)
      /\ Ending(id)' <=> Ending(id)
      /\ Resetting(id)' <=> Resetting(id)
  BY <1>1 DEF CanSend, HalfClosedLocal, LocalDone, RemoteDone, Ending, Resetting
<1>5. Answering(id)' <=> f.end
  <2> HIDE DEF n, d
  <2> QED BY <1>1, <1>2, <1>3 DEF Answering, d
<1>6. UpInOrder(id)'
  BY <1>4 DEF StreamOK, UpInOrder
<1>7. EndsMeet(id)'
  BY <1>1, <1>3, <1>4, <1>5 DEF StreamOK, EndsMeet
<1>8. DownInOrder(id)'
  <2>1. \A i \in 1 .. n : ~d[i].end
    BY <1>2, <1>3 DEF Answering
  <2> HIDE DEF n, d
  <2> QED BY <1>2, <1>3, <2>1 DEF DownInOrder
<1> QED BY <1>6, <1>7, <1>8 DEF StreamOK

-----------------------------------------------------------------------------
(* The types, step by step. *)

\* i32 arithmetic stays in range, and changes nothing that is in range.
LEMMA I32Facts ==
  ASSUME NEW n \in Int
  PROVE  /\ Wrapped(n) \in I32 /\ Saturated(n) \in I32
         /\ n \in I32 => Wrapped(n) = n
<1>1. MaxWindow \in Nat
  BY H2Assumption
<1> DEFINE d == 2 * (MaxWindow + 1)
           x == n + MaxWindow + 1
<1>2. d \in Nat /\ d > 0 /\ x \in Int
  BY <1>1
<1>3. x % d \in 0 .. d - 1 /\ (0 <= x /\ x < d => x % d = x)
  <2> HIDE DEF d, x
  <2> QED BY <1>2
<1>4. Wrapped(n) = (x % d) - MaxWindow - 1
  BY DEF Wrapped
<1>5. Wrapped(n) \in I32
  <2> DEFINE r == x % d
  <2>1. r \in 0 .. d - 1 /\ Wrapped(n) = r - MaxWindow - 1
    BY <1>3, <1>4
  <2> HIDE DEF r, x
  <2> QED BY <1>1, <2>1 DEF I32
<1>6. n \in I32 => Wrapped(n) = n
  <2>1. n \in I32 => 0 <= x /\ x < d
    BY <1>1 DEF I32
  <2>2. n \in I32 => Wrapped(n) = x - MaxWindow - 1
    BY <1>3, <1>4, <2>1
  <2> QED BY <1>1, <2>2
<1>7. Saturated(n) \in I32
  BY <1>1 DEF Saturated, I32
<1> QED BY <1>5, <1>6, <1>7

\* The states of a stream after it is opened, and closed from either side.
LEMMA LiveFacts ==
  ASSUME NEW state \in StreamStates
  PROVE  /\ Opened(state) \in LiveStates
         /\ HalfClosedRemote(state) \in StreamStates /\ HalfClosedLocal(state) \in StreamStates
         /\ state \in LiveStates => /\ HalfClosedRemote(state) \in LiveStates
                                    /\ HalfClosedLocal(state) \in LiveStates
                                    /\ Opened(state) = state
BY DEF Opened, HalfClosedRemote, HalfClosedLocal, LiveStates, StreamStates

\* A stream as the map has it.
LiveStream == [state : LiveStates, send_window : I32, recv_window : I32, body : Nat]

\* One entry of the map is changed.
LEMMA StreamsExcept ==
  ASSUME Types, NEW id \in StreamIds, NEW s \in LiveStream, streams' = [streams EXCEPT ![id] = s]
  PROVE  /\ streams' \in [StreamIds -> LiveStream \cup {NoStream}]
         /\ streams'[id] = s /\ Has(id)'
         /\ \A other \in StreamIds \ {id} : streams'[other] = streams[other]
<1>1. s # NoStream
  BY DEF LiveStream, NoStream, LiveStates, StreamStates
<1> QED BY <1>1 DEF Types, LiveStream, Has

\* What a receiving step takes from the channel, and for which stream.
LEMMA Taken ==
  ASSUME Types, NEW type, Receives(type)
  PROVE  /\ frame \in ClientFrames /\ frame.type = type
         /\ to_server # <<>> /\ to_server' = Tail(to_server)
         /\ to_server' \in Seq(ClientFrames)
         /\ UNCHANGED <<preface_received, to_client, clientVars>>
         /\ \A id \in StreamIds :
              IF type \in {"HEADERS", "DATA", "RST_STREAM"} /\ frame.id = id
              THEN Up(id) # <<>> /\ Head(Up(id)) = frame /\ Up(id)' = Tail(Up(id))
              ELSE Up(id)' = Up(id)
<1>1. to_server # <<>> /\ to_server' = Tail(to_server) /\ frame.type = type
  BY DEF Receives, frame
<1>2. /\ to_server' \in Seq(ClientFrames)
      /\ frame \in ClientFrames
      /\ \A id : /\ frame \in StreamFrames(id) =>
                      Up(id) # <<>> /\ Head(Up(id)) = frame /\ Up(id)' = Tail(Up(id))
                 /\ frame \notin StreamFrames(id) => Up(id)' = Up(id)
  BY <1>1, Processed
<1>3. \A id \in StreamIds :
        frame \in StreamFrames(id) <=>
          frame.type \in {"HEADERS", "DATA", "RST_STREAM"} /\ frame.id = id
  BY <1>2, ClientFrame
<1>4. UNCHANGED <<preface_received, to_client, clientVars>>
  BY DEF Receives
<1> QED BY <1>1, <1>2, <1>3, <1>4

\* HEADERS open the stream of a new id (connection.rs, handle_headers).
LEMMA HeadersStreams ==
  ASSUME Types, ProcessHeaders, NEW id \in StreamIds, id = frame.id
  PROVE  /\ streams' \in [StreamIds -> LiveStream \cup {NoStream}]
         /\ Has(id)'
         /\ LET open == IF Has(id) THEN streams[id].state ELSE "Open"
            IN  streams'[id].state = IF frame.end THEN HalfClosedRemote(open) ELSE open
         /\ streams'[id].recv_window = IF Has(id) THEN streams[id].recv_window ELSE InitialWindow
         /\ streams'[id].body = IF Has(id) THEN streams[id].body ELSE 0
         /\ \A other \in StreamIds \ {id} : streams'[other] = streams[other]
<1> DEFINE stream == IF Has(id) THEN streams[id] ELSE NewStream
           open == Opened(stream.state)
           new == [stream EXCEPT !.state = IF frame.end THEN HalfClosedRemote(open) ELSE open]
<1>1. frame \in ClientFrames /\ frame.type = "HEADERS"
  BY Taken DEF ProcessHeaders
<1>2. frame.end \in BOOLEAN
  BY <1>1, ClientFrame
<1>3. Has(id) => streams[id] \in LiveStream
  BY InMap DEF LiveStream
<1>4. stream \in [state : StreamStates, send_window : I32, recv_window : I32, body : Nat]
  <2>1. NewStream \in [state : StreamStates, send_window : I32, recv_window : I32, body : Nat]
    BY H2Assumption DEF NewStream, StreamStates, I32
  <2> QED BY <1>3, <2>1 DEF LiveStream, LiveStates
<1>5. open \in LiveStates /\ HalfClosedRemote(open) \in LiveStates
  BY <1>4, LiveFacts DEF LiveStates
<1>6. open = IF Has(id) THEN streams[id].state ELSE "Open"
  <2>1. Has(id) => streams[id].state \in LiveStates /\ streams[id].state \in StreamStates
    BY <1>3 DEF LiveStream, LiveStates
  <2>2. NewStream.state = "Idle"
    BY DEF NewStream
  <2>3. Opened("Idle") = "Open"
    BY DEF Opened
  <2> QED BY <2>1, <2>2, <2>3, LiveFacts
<1>7. /\ new \in LiveStream
      /\ new.state = IF frame.end THEN HalfClosedRemote(open) ELSE open
      /\ new.recv_window = stream.recv_window /\ new.body = stream.body
  <2> HIDE DEF stream, open
  <2> QED BY <1>2, <1>4, <1>5 DEF LiveStream
<1>8. streams' = [streams EXCEPT ![id] = new]
  BY DEF ProcessHeaders
<1>9. /\ streams' \in [StreamIds -> LiveStream \cup {NoStream}]
      /\ streams'[id] = new /\ Has(id)'
      /\ \A other \in StreamIds \ {id} : streams'[other] = streams[other]
  <2> HIDE DEF new
  <2> QED BY <1>7, <1>8, StreamsExcept
<1>10. /\ stream.recv_window = IF Has(id) THEN streams[id].recv_window ELSE InitialWindow
       /\ stream.body = IF Has(id) THEN streams[id].body ELSE 0
  BY DEF NewStream
<1> HIDE DEF new, stream, open
<1> QED BY <1>6, <1>7, <1>9, <1>10

\* DATA are charged to the stream (connection.rs, handle_data).
LEMMA DataStreams ==
  ASSUME Types, ProcessData, NEW id \in StreamIds, id = frame.id,
         Has(id), CanReceive(streams[id].state)
  PROVE  /\ streams' \in [StreamIds -> LiveStream \cup {NoStream}]
         /\ Has(id)'
         /\ streams'[id].state = IF frame.end THEN HalfClosedRemote(streams[id].state)
                                              ELSE streams[id].state
         /\ streams'[id].recv_window = Wrapped(streams[id].recv_window - frame.len)
         /\ streams'[id].body = streams[id].body + frame.len
         /\ recv_window' = Wrapped(recv_window - frame.len)
         /\ \A other \in StreamIds \ {id} : streams'[other] = streams[other]
<1> DEFINE s == streams[id]
           new == Charged(s, IF frame.end THEN HalfClosedRemote(s.state) ELSE s.state)
<1>1. frame \in ClientFrames /\ frame.type = "DATA"
  BY Taken DEF ProcessData
<1>2. frame.end \in BOOLEAN /\ frame.len \in 0 .. 1
  BY <1>1, ClientFrame
<1>3. s \in LiveStream
  BY InMap DEF LiveStream
<1>4. s.state \in LiveStates /\ s.state \in StreamStates /\ s.recv_window \in Int
      /\ s.body + frame.len \in Nat
  BY <1>2, <1>3, H2Assumption DEF LiveStream, LiveStates, I32
<1>5. Wrapped(s.recv_window - frame.len) \in I32 /\ HalfClosedRemote(s.state) \in LiveStates
  BY <1>2, <1>4, I32Facts, LiveFacts
<1>6. /\ new \in LiveStream
      /\ new.state = IF frame.end THEN HalfClosedRemote(s.state) ELSE s.state
      /\ new.recv_window = Wrapped(s.recv_window - frame.len)
      /\ new.body = s.body + frame.len
  <2> HIDE DEF s
  <2> QED BY <1>2, <1>3, <1>4, <1>5 DEF Charged, LiveStream
<1>7. streams' = [streams EXCEPT ![id] = new] /\ recv_window' = Wrapped(recv_window - frame.len)
  BY DEF ProcessData, Target
<1> HIDE DEF new
<1> QED BY <1>6, <1>7, StreamsExcept

\* WINDOW_UPDATE changes what may be sent, and nothing else.
LEMMA GrantStreams ==
  ASSUME Types, ProcessWindowUpdate
  PROVE  /\ streams' \in [StreamIds -> LiveStream \cup {NoStream}]
         /\ send_window' \in I32
         /\ \A id \in StreamIds :
              /\ streams'[id].state = streams[id].state
              /\ Has(id)' <=> Has(id)
              /\ Has(id) => /\ streams'[id].recv_window = streams[id].recv_window
                            /\ streams'[id].body = streams[id].body
<1>1. frame \in ClientFrames /\ frame.type = "WINDOW_UPDATE"
  BY Taken DEF ProcessWindowUpdate
<1>2. frame.id \in StreamIds \cup {0} /\ frame.inc = 1
  BY <1>1, ClientFrame
<1>3. send_window' \in I32
  <2>1. send_window \in Int
    BY H2Assumption DEF Types, I32
  <2> QED BY <1>2, <2>1, I32Facts DEF ProcessWindowUpdate, Types
<1>4. ASSUME NEW id \in StreamIds, frame.id = id, id # 0, Has(id)
      PROVE  /\ streams' \in [StreamIds -> LiveStream \cup {NoStream}]
             /\ Has(id)' /\ streams'[id].state = streams[id].state
             /\ streams'[id].recv_window = streams[id].recv_window
             /\ streams'[id].body = streams[id].body
             /\ \A other \in StreamIds \ {id} : streams'[other] = streams[other]
  <2> DEFINE window == Saturated(streams[id].send_window + frame.inc)
             new == [streams[id] EXCEPT !.send_window = window]
  <2>1. streams[id] \in LiveStream
    BY <1>4, InMap DEF LiveStream
  <2>2. window \in I32
    <3>1. streams[id].send_window \in Int
      BY <2>1, H2Assumption DEF LiveStream, I32
    <3> QED BY <1>2, <3>1, I32Facts
  <2>3. streams' = [streams EXCEPT ![id] = new]
    BY <1>4, <2>1 DEF ProcessWindowUpdate
  <2> HIDE DEF window
  <2>4. /\ new \in LiveStream /\ new.state = streams[id].state
        /\ new.recv_window = streams[id].recv_window /\ new.body = streams[id].body
    BY <2>1, <2>2 DEF LiveStream
  <2> HIDE DEF new
  <2> QED BY <2>3, <2>4, StreamsExcept
<1>5. CASE frame.id # 0 /\ Has(frame.id)
  <2>1. PICK id \in StreamIds : id = frame.id
    BY <1>2, <1>5
  <2>2. Has(id) /\ id # 0
    BY <1>5, <2>1
  <2> QED BY <1>3, <1>4, <2>1, <2>2 DEF Has
<1>6. CASE ~(frame.id # 0 /\ Has(frame.id))
  <2>1. streams' = streams
    BY <1>6 DEF ProcessWindowUpdate
  <2> QED BY <1>3, <2>1 DEF Types, LiveStream, Has
<1> QED BY <1>5, <1>6

\* RST_STREAM closes the stream (connection.rs, handle_rst_stream).
LEMMA ResetStreams ==
  ASSUME Types, ProcessRstStream, NEW id \in StreamIds, id = frame.id, Has(id)
  PROVE  /\ streams' \in [StreamIds -> LiveStream \cup {NoStream}]
         /\ Has(id)' /\ streams'[id].state = "Closed"
         /\ streams'[id].recv_window = streams[id].recv_window
         /\ streams'[id].body = streams[id].body
         /\ \A other \in StreamIds \ {id} : streams'[other] = streams[other]
<1> DEFINE new == [streams[id] EXCEPT !.state = "Closed"]
<1>1. streams[id] \in LiveStream
  BY InMap DEF LiveStream
<1>2. /\ new \in LiveStream /\ new.state = "Closed"
      /\ new.recv_window = streams[id].recv_window /\ new.body = streams[id].body
  BY <1>1 DEF LiveStream, LiveStates, StreamStates
<1>3. streams' = [streams EXCEPT ![id] = new]
  BY DEF ProcessRstStream
<1> HIDE DEF new
<1> QED BY <1>2, <1>3, StreamsExcept

\* SETTINGS go to every stream (connection.rs, handle_settings).
LEMMA SettingsStreams ==
  ASSUME Types, ProcessSettings
  PROVE  /\ streams' \in [StreamIds -> LiveStream \cup {NoStream}]
         /\ \A id \in StreamIds :
              /\ streams'[id].state = streams[id].state
              /\ Has(id)' <=> Has(id)
              /\ Has(id) => /\ streams'[id].recv_window = streams[id].recv_window
                            /\ streams'[id].body = streams[id].body
<1> DEFINE window(id) == Saturated(streams[id].send_window + frame.value - remote_initial)
           new(id) == [streams[id] EXCEPT !.send_window = window(id)]
<1>1. to_server # <<>> /\ frame.type = "SETTINGS" /\ to_server' = Tail(to_server)
  BY DEF ProcessSettings, Receives, frame
<1>2. frame.value \in Int
  <2>1. frame \in ClientFrames
    BY <1>1, Processed
  <2>2. frame.value \in WindowSizes
    BY <1>1, <2>1, ClientFrame
  <2>3. \A w \in WindowSizes : w \in Int
    BY H2Assumption
  <2> QED BY <2>2, <2>3
<1>3. ASSUME NEW id \in StreamIds, Has(id)
      PROVE  /\ new(id) \in LiveStream /\ new(id) # NoStream
             /\ new(id).state = streams[id].state
             /\ new(id).recv_window = streams[id].recv_window
             /\ new(id).body = streams[id].body
  <2>1. streams[id] \in LiveStream
    BY <1>3, InMap DEF LiveStream
  <2>2. window(id) \in I32
    <3>1. streams[id].send_window \in Int /\ remote_initial \in Int
      BY <2>1, H2Assumption DEF LiveStream, I32, Types
    <3> QED BY <1>2, <3>1, I32Facts
  <2> HIDE DEF window
  <2>3. new(id) \in LiveStream
    BY <2>1, <2>2 DEF LiveStream
  <2>4. new(id).state \in LiveStates
    BY <2>3 DEF LiveStream
  <2> QED BY <2>1, <2>3, <2>4 DEF LiveStream, NoStream, LiveStates, StreamStates
<1>4. \A id \in StreamIds : streams'[id] = IF Has(id) THEN new(id) ELSE NoStream
  BY DEF ProcessSettings
<1>5. streams' = [id \in StreamIds |-> streams'[id]]
  BY DEF ProcessSettings
<1>6. \A id \in StreamIds : ~Has(id) => streams[id] = NoStream
  BY DEF Has
<1> HIDE DEF new
<1> QED BY <1>3, <1>4, <1>5, <1>6 DEF Has

\* The frames that the two sides send are frames.
LEMMA Sendable ==
  /\ Settings(InitialWindow) \in ServerFrames /\ SettingsAck \in ServerFrames
  /\ \A data \in 1 .. Budget : PingAck(data) \in ServerFrames /\ PingAck(data) \in Answers
  /\ SettingsAck \in Answers
  /\ SettingsAck \in ClientFrames /\ GoAway \in ClientFrames
  /\ \A id \in StreamIds \cup {0} : WindowUpdate(id, 1) \in ClientFrames
  /\ Questions \subseteq ClientFrames
  /\ \A id \in StreamIds : Carriers(id) \subseteq ServerFrames /\ StreamFrames(id) \subseteq ClientFrames
  /\ \A id \in StreamIds : \A end \in BOOLEAN :
       /\ Headers(id, end) \in Carriers(id)
       /\ \A len \in 0 .. 1 : Data(id, len, end) \in Carriers(id)
  /\ \A id \in StreamIds : RstStream(id) \in StreamFrames(id) /\ Carriers(id) \subseteq StreamFrames(id)
BY DEF ServerFrames, ClientFrames, Answers, Questions, Carriers, StreamFrames, HeadersFrames,
       DataFrames

\* An answer is on its way to the client only if the client waits for it.
LEMMA Awaited ==
  ASSUME Types, AnswersOK, to_client # <<>>, arrived.type \in {"SETTINGS_ACK", "PING_ACK"}
  PROVE  awaiting # <<>>
<1>1. to_client \in Seq(ServerFrames) /\ outgoing \in Seq(ServerFrames)
  BY DEF Types
<1>2. arrived \in ServerFrames /\ Downstream # <<>> /\ Head(Downstream) = arrived
  BY <1>1, HeadTailProperties DEF arrived, Downstream
<1>3. arrived \in Answers
  BY <1>2, ServerFrame
<1>4. Coming # <<>> /\ Coming \in Seq(Answers) /\ Going \in Seq(Questions)
  BY <1>2, <1>3, Channels, MembersTail DEF Coming, Going
<1>5. Len(Coming) > 0 /\ Len(Coming) \in Nat /\ Len(Going) \in Nat
  BY <1>4
<1>6. Len(awaiting) = Len(Coming) + Len(Going)
  BY DEF AnswersOK, Ordered
<1> QED BY <1>5, <1>6

\* What a step of the library makes of the state it keeps.
LEMMA ProcessTypes ==
  ASSUME Types, ProcessFrame
  PROVE  Types'
<1>1. CASE ProcessSettings
  <2>1. frame \in ClientFrames /\ frame.type = "SETTINGS" /\ to_server' \in Seq(ClientFrames)
    BY <1>1, Taken DEF ProcessSettings
  <2>2. frame.value \in 0 .. MaxWindow
    BY <2>1, ClientFrame, H2Assumption
  <2>3. streams' \in [StreamIds -> LiveStream \cup {NoStream}]
    BY <1>1, SettingsStreams
  <2>4. outgoing' \in Seq(ServerFrames)
    BY <1>1, Sendable, AppendProperties DEF ProcessSettings, Types
  <2> QED BY <1>1, <2>1, <2>2, <2>3, <2>4 DEF ProcessSettings, Receives, clientVars, Types, LiveStream
<1>2. CASE ProcessSettingsAck
  <2>1. to_server' \in Seq(ClientFrames)
    BY <1>2, Taken DEF ProcessSettingsAck
  <2> QED BY <1>2, <2>1 DEF ProcessSettingsAck, Receives, clientVars, Types
<1>3. CASE ProcessHeaders
  <2>1. frame \in ClientFrames /\ frame.type = "HEADERS" /\ to_server' \in Seq(ClientFrames)
    BY <1>3, Taken DEF ProcessHeaders
  <2>2. frame.id \in StreamIds
    BY <2>1, ClientFrame
  <2>3. streams' \in [StreamIds -> LiveStream \cup {NoStream}]
    BY <1>3, <2>2, HeadersStreams
  <2> QED BY <1>3, <2>1, <2>2, <2>3 DEF ProcessHeaders, Receives, clientVars, Types, LiveStream
<1>4. CASE ProcessData
  <2>1. frame \in ClientFrames /\ frame.type = "DATA" /\ to_server' \in Seq(ClientFrames)
    BY <1>4, Taken DEF ProcessData
  <2>2. frame.id \in StreamIds /\ frame.len \in 0 .. 1
    BY <2>1, ClientFrame
  <2>3. recv_window' \in I32
    <3>1. recv_window \in Int
      BY H2Assumption DEF Types, I32
    <3> QED BY <1>4, <2>2, <3>1, I32Facts DEF ProcessData, Types
  <2>4. streams' \in [StreamIds -> LiveStream \cup {NoStream}]
    <3>1. CASE Has(frame.id) /\ CanReceive(streams[frame.id].state)
      BY <1>4, <2>2, <3>1, DataStreams
    <3>2. CASE ~(Has(frame.id) /\ CanReceive(streams[frame.id].state))
      BY <1>4, <3>2 DEF ProcessData, Target, Types, LiveStream
    <3> QED BY <3>1, <3>2
  <2> QED BY <1>4, <2>1, <2>3, <2>4 DEF ProcessData, Receives, clientVars, Types, LiveStream
<1>5. CASE ProcessWindowUpdate
  <2>1. to_server' \in Seq(ClientFrames)
    BY <1>5, Taken DEF ProcessWindowUpdate
  <2>2. streams' \in [StreamIds -> LiveStream \cup {NoStream}] /\ send_window' \in I32
    BY <1>5, GrantStreams
  <2> QED BY <1>5, <2>1, <2>2 DEF ProcessWindowUpdate, Receives, clientVars, Types, LiveStream
<1>6. CASE ProcessPing
  <2>1. frame \in ClientFrames /\ frame.type = "PING" /\ to_server' \in Seq(ClientFrames)
    BY <1>6, Taken DEF ProcessPing
  <2>2. PingAck(frame.data) \in ServerFrames
    BY <2>1, ClientFrame, Sendable
  <2>3. outgoing' \in Seq(ServerFrames)
    BY <1>6, <2>2, AppendProperties DEF ProcessPing, Types
  <2> QED BY <1>6, <2>1, <2>3 DEF ProcessPing, Receives, clientVars, Types
<1>7. CASE ProcessGoAway
  <2>1. to_server' \in Seq(ClientFrames)
    BY <1>7, Taken DEF ProcessGoAway
  <2> QED BY <1>7, <2>1 DEF ProcessGoAway, Receives, clientVars, Types
<1>8. CASE ProcessRstStream
  <2>1. frame \in ClientFrames /\ frame.type = "RST_STREAM" /\ to_server' \in Seq(ClientFrames)
    BY <1>8, Taken DEF ProcessRstStream
  <2>2. frame.id \in StreamIds
    BY <2>1, ClientFrame
  <2>3. streams' \in [StreamIds -> LiveStream \cup {NoStream}]
    <3>1. CASE Has(frame.id)
      BY <1>8, <2>2, <3>1, ResetStreams
    <3>2. CASE ~Has(frame.id)
      BY <1>8, <3>2 DEF ProcessRstStream, Types, LiveStream
    <3> QED BY <3>1, <3>2
  <2> QED BY <1>8, <2>1, <2>3 DEF ProcessRstStream, Receives, clientVars, Types, LiveStream
<1> QED BY <1>1, <1>2, <1>3, <1>4, <1>5, <1>6, <1>7, <1>8 DEF ProcessFrame

LEMMA SendTypes ==
  ASSUME Types, NEW id \in StreamIds, NEW end \in BOOLEAN,
         SendHeaders(id, end) \/ \E len \in 0 .. 1 : SendData(id, len, end)
  PROVE  Types'
<1>1. CASE SendHeaders(id, end)
  <2> DEFINE new == [streams[id] EXCEPT !.state = HalfClosedLocal(@)]
  <2>1. streams[id] \in LiveStream
    BY <1>1, InMap DEF SendHeaders, LiveStream
  <2>2. streams[id].state \in StreamStates /\ streams[id].state \in LiveStates
    BY <2>1 DEF LiveStream, LiveStates
  <2>3. new \in LiveStream
    BY <2>1, <2>2, LiveFacts DEF LiveStream
  <2>4. streams' \in [StreamIds -> LiveStream \cup {NoStream}]
    <3>1. CASE end
      <4>1. streams' = [streams EXCEPT ![id] = new]
        BY <1>1, <3>1 DEF SendHeaders
      <4> HIDE DEF new
      <4> QED BY <2>3, <4>1, StreamsExcept
    <3>2. CASE ~end
      BY <1>1, <3>2 DEF SendHeaders, Types, LiveStream
    <3> QED BY <3>1, <3>2
  <2>5. Headers(id, end) \in ServerFrames
    BY Sendable
  <2>6. outgoing' \in Seq(ServerFrames)
    BY <1>1, <2>5, AppendProperties DEF SendHeaders, Types
  <2> QED BY <1>1, <2>4, <2>6 DEF SendHeaders, clientVars, Types, LiveStream
<1>2. ASSUME NEW len \in 0 .. 1, SendData(id, len, end) PROVE Types'
  <2> DEFINE s == streams[id]
             new == [s EXCEPT !.send_window = s.send_window - len,
                              !.state = IF end THEN HalfClosedLocal(s.state) ELSE s.state]
  <2>1. s \in LiveStream
    BY <1>2, InMap DEF SendData, LiveStream
  <2>2. s.state \in StreamStates /\ s.state \in LiveStates
    BY <2>1 DEF LiveStream, LiveStates
  <2>3. s.send_window - len \in I32
    <3>1. s.send_window \in I32 /\ (len = 0 \/ len <= s.send_window)
      BY <1>2, <2>1 DEF SendData, LiveStream
    <3> QED BY <3>1, H2Assumption DEF I32
  <2>4. new \in LiveStream
    <3>1. HalfClosedLocal(s.state) \in LiveStates
      BY <2>2, LiveFacts
    <3> HIDE DEF s
    <3> QED BY <2>1, <2>2, <2>3, <3>1 DEF LiveStream
  <2>5. streams' = [streams EXCEPT ![id] = new]
    BY <1>2, <2>1 DEF SendData, LiveStream
  <2>6. streams' \in [StreamIds -> LiveStream \cup {NoStream}]
    <3> HIDE DEF new
    <3> QED BY <2>4, <2>5, StreamsExcept
  <2>7. Data(id, len, end) \in ServerFrames
    BY Sendable
  <2>8. outgoing' \in Seq(ServerFrames)
    BY <1>2, <2>7, AppendProperties DEF SendData, Types
  <2> QED BY <1>2, <2>6, <2>8 DEF SendData, clientVars, Types, LiveStream
<1> QED BY <1>1, <1>2

\* The states of the client's view after either side closes it.
LEMMA ViewFacts ==
  ASSUME Types, NEW id \in StreamIds
  PROVE  /\ view[id] \in StreamStates
         /\ \A state \in StreamStates : [view EXCEPT ![id] = state] \in [StreamIds -> StreamStates]
         /\ HalfClosedLocal(view[id]) \in StreamStates
         /\ HalfClosedRemote(view[id]) \in StreamStates
         /\ {"Open", "HalfClosedLocal", "Closed"} \subseteq StreamStates
<1>1. view[id] \in StreamStates /\ view \in [StreamIds -> StreamStates]
  BY DEF Types
<1>2. \A state \in StreamStates : [view EXCEPT ![id] = state] \in [StreamIds -> StreamStates]
  BY <1>1
<1> QED BY <1>1, <1>2, LiveFacts DEF StreamStates

\* A frame that the client sends keeps the types of the server and of the channels.
LEMMA SendsTypes ==
  ASSUME Types, NEW f \in ClientFrames, Sends(f),
         view' \in [StreamIds -> StreamStates],
         credit' \in [StreamIds -> 0 .. InitialWindow],
         conn_credit' \in 0 .. InitialWindow, conn_grant' \in Int,
         awaiting' \in Seq(Questions), budget' \in 0 .. Budget
  PROVE  Types'
BY ClientSent DEF Sends, serverVars, Types

LEMMA ClientTypes ==
  ASSUME Types, AnswersOK, Client
  PROVE  Types'
<1>1. ASSUME NEW id \in StreamIds, NEW end \in BOOLEAN, ClientOpens(id, end) PROVE Types'
  <2>1. Headers(id, end) \in ClientFrames
    BY Sendable
  <2>2. view' \in [StreamIds -> StreamStates]
    BY <1>1, ViewFacts DEF ClientOpens
  <2> QED BY <1>1, <2>1, <2>2, SendsTypes DEF ClientOpens, Types
<1>2. ASSUME NEW id \in StreamIds, NEW end \in BOOLEAN, NEW len \in 0 .. 1,
             ClientData(id, len, end)
      PROVE  Types'
  <2>1. Data(id, len, end) \in ClientFrames
    BY Sendable
  <2>2. view' \in [StreamIds -> StreamStates]
    BY <1>2, ViewFacts DEF ClientData, Types
  <2>3. credit' \in [StreamIds -> 0 .. InitialWindow]
    <3>1. credit[id] - len \in 0 .. InitialWindow
      BY <1>2, H2Assumption DEF ClientData, Types
    <3> QED BY <1>2, <3>1 DEF ClientData, Types
  <2>4. conn_credit' \in 0 .. InitialWindow
    BY <1>2, H2Assumption DEF ClientData, Types
  <2> QED BY <1>2, <2>1, <2>2, <2>3, <2>4, SendsTypes DEF ClientData, Types
<1>3. ASSUME NEW id \in StreamIds, ClientTrailers(id) PROVE Types'
  <2>1. Headers(id, TRUE) \in ClientFrames
    BY Sendable
  <2>2. view' \in [StreamIds -> StreamStates]
    BY <1>3, ViewFacts DEF ClientTrailers
  <2> QED BY <1>3, <2>1, <2>2, SendsTypes DEF ClientTrailers, Types
<1>4. ASSUME NEW id \in StreamIds, ClientResets(id) PROVE Types'
  <2>1. RstStream(id) \in ClientFrames
    BY Sendable
  <2>2. view' \in [StreamIds -> StreamStates]
    BY <1>4, ViewFacts DEF ClientResets
  <2> QED BY <1>4, <2>1, <2>2, SendsTypes DEF ClientResets, Types
<1>5. ASSUME ClientControls PROVE Types'
  <2>1. budget \in 1 .. Budget /\ budget' \in 0 .. Budget
    BY <1>5, H2Assumption DEF ClientControls, Types
  <2>2. ASSUME NEW f \in Questions, ClientAsks(f) PROVE Types'
    <3>1. f \in ClientFrames /\ awaiting' \in Seq(Questions)
      BY <2>2, Sendable, AppendProperties DEF ClientAsks, Types
    <3> QED BY <2>1, <2>2, <3>1, SendsTypes DEF ClientAsks, Types
  <2>3. ASSUME NEW id \in StreamIds \cup {0}, ClientGrants(id, 1) PROVE Types'
    <3>1. WindowUpdate(id, 1) \in ClientFrames
      BY Sendable
    <3>2. conn_grant' \in Int
      BY <2>3 DEF ClientGrants, Types
    <3> QED BY <2>1, <2>3, <3>1, <3>2, SendsTypes DEF ClientGrants, Types
  <2>4. ASSUME Sends(GoAway), UNCHANGED <<view, credit, conn_credit, conn_grant, awaiting>>
        PROVE  Types'
    BY <2>1, <2>4, Sendable, SendsTypes DEF Types
  <2>5. Ping(budget) \in Questions /\ \A value \in WindowSizes : Settings(value) \in Questions
    BY <2>1 DEF Questions
  <2> QED BY <1>5, <2>2, <2>3, <2>4, <2>5 DEF ClientControls
<1>6. ASSUME ClientReceives PROVE Types'
  <2>1. to_client' \in Seq(ServerFrames) /\ arrived \in ServerFrames
    BY <1>6, Arrived DEF ClientReceives, serverVars
  <2>2. to_server' \in Seq(ClientFrames)
    BY <1>6, Sendable, AppendProperties DEF ClientReceives, Types
  <2>3. awaiting' \in Seq(Questions)
    <3>1. CASE arrived.type \in {"SETTINGS_ACK", "PING_ACK"}
      <4>1. awaiting # <<>> /\ awaiting \in Seq(Questions)
        BY <1>6, <3>1, Awaited DEF ClientReceives, Types
      <4> QED BY <1>6, <3>1, <4>1, HeadTailProperties DEF ClientReceives
    <3>2. CASE arrived.type \notin {"SETTINGS_ACK", "PING_ACK"}
      BY <1>6, <3>2 DEF ClientReceives, Types
    <3> QED BY <3>1, <3>2
  <2>4. view' \in [StreamIds -> StreamStates]
    <3>1. CASE arrived.type \in {"HEADERS", "DATA"} /\ arrived.end
      <4>1. arrived.id \in StreamIds
        BY <2>1, <3>1, ServerFrame
      <4> QED BY <1>6, <3>1, <4>1, ViewFacts DEF ClientReceives
    <3>2. CASE ~(arrived.type \in {"HEADERS", "DATA"} /\ arrived.end)
      BY <1>6, <3>2 DEF ClientReceives, Types
    <3> QED BY <3>1, <3>2
  <2>5. conn_grant' \in Int
    <3>1. arrived.type = "DATA" => arrived.len \in Int
      BY <2>1, ServerFrame
    <3> QED BY <1>6, <3>1 DEF ClientReceives, Types
  <2> QED BY <1>6, <2>1, <2>2, <2>3, <2>4, <2>5 DEF ClientReceives, serverVars, Types
<1> QED BY <1>1, <1>2, <1>3, <1>4, <1>5, <1>6 DEF Client

LEMMA TypesStep ==
  ASSUME Types, AnswersOK, [Next]_vars
  PROVE  Types'
<1>1. CASE ProcessPreface
  <2>1. outgoing' \in Seq(ServerFrames)
    BY <1>1, Sendable, AppendProperties DEF ProcessPreface, Types
  <2> QED BY <1>1, <2>1 DEF ProcessPreface, clientVars, Types
<1>2. CASE TakeOutgoing
  <2>1. to_client' \in Seq(ServerFrames)
    BY <1>2, HandedOver DEF TakeOutgoing
  <2> QED BY <1>2, <2>1 DEF TakeOutgoing, clientVars, Types
<1>3. CASE UNCHANGED vars
  BY <1>3 DEF vars, serverVars, clientVars, Types
<1> QED BY <1>1, <1>2, <1>3, ProcessTypes, SendTypes, ClientTypes DEF Next, Server

-----------------------------------------------------------------------------
(* The streams, step by step. *)

\* What a stream is to the other steps.
Untouched(id) ==
    /\ streams'[id].state = streams[id].state
    /\ Has(id)' = Has(id)
    /\ view'[id] = view[id]
    /\ Up(id)' = Up(id)
    /\ Down(id)' = Down(id)

LEMMA AllUntouched ==
  ASSUME StreamsOK, \A id \in StreamIds : Untouched(id)
  PROVE  StreamsOK'
BY StreamSame DEF StreamsOK, Untouched

LEMMA OthersUntouched ==
  ASSUME StreamsOK, NEW id \in StreamIds, StreamOK(id)',
         \A other \in StreamIds \ {id} : Untouched(other)
  PROVE  StreamsOK'
<1>1. \A other \in StreamIds \ {id} : StreamOK(other)'
  BY StreamSame DEF StreamsOK, Untouched
<1> QED BY <1>1 DEF StreamsOK

\* What the streams see when the server queues a frame, or queues nothing.
LEMMA Put ==
  ASSUME Types, NEW f \in ServerFrames, outgoing' = Append(outgoing, f), to_client' = to_client
  PROVE  \A id \in StreamIds :
           Down(id)' = IF AboutStream(f, id) THEN Append(Down(id), f) ELSE Down(id)
<1>1. Downstream' = Append(Downstream, f)
  BY Queued
<1>2. \A id : Down(id)' = IF f \in Carriers(id) THEN Append(Down(id), f) ELSE Down(id)
  BY <1>1, DownLonger
<1> QED BY <1>2, ServerFrame

LEMMA PutNothing ==
  ASSUME outgoing' = outgoing, to_client' = to_client
  PROVE  \A id : Down(id)' = Down(id)
BY DownSame DEF Downstream

LEMMA ProcessStreams ==
  ASSUME Types, StreamsOK, ProcessFrame
  PROVE  StreamsOK'
<1>1. ASSUME NEW type, Receives(type), type \notin {"HEADERS", "DATA", "RST_STREAM"}
      PROVE  \A id \in StreamIds : Up(id)' = Up(id) /\ view'[id] = view[id]
  BY <1>1, Taken DEF clientVars
<1>2. ASSUME NEW id \in StreamIds, NEW type \in {"HEADERS", "DATA", "RST_STREAM"},
             Receives(type), id = frame.id, UNCHANGED outgoing
      PROVE  /\ Up(id) # <<>> /\ Head(Up(id)) = frame /\ Up(id)' = Tail(Up(id))
             /\ \A other \in StreamIds : /\ Down(other)' = Down(other)
                                         /\ view'[other] = view[other]
             /\ \A other \in StreamIds \ {id} : Up(other)' = Up(other)
             /\ frame.type = type /\ frame \in ClientFrames
  BY <1>2, Taken, PutNothing DEF clientVars
<1>3. CASE ProcessSettings
  <2>1. \A id \in StreamIds : Up(id)' = Up(id) /\ view'[id] = view[id]
    BY <1>1, <1>3 DEF ProcessSettings
  <2>2. \A id \in StreamIds : Down(id)' = Down(id)
    <3>1. to_client' = to_client /\ outgoing' = Append(outgoing, SettingsAck)
      BY <1>3 DEF ProcessSettings, Receives
    <3> QED BY <3>1, Put, Sendable DEF AboutStream, SettingsAck
  <2>3. \A id \in StreamIds :
          streams'[id].state = streams[id].state /\ (Has(id)' <=> Has(id))
    BY <1>3, SettingsStreams
  <2>4. \A id \in StreamIds : Has(id)' = Has(id)
    BY <2>3 DEF Has
  <2> QED BY <2>1, <2>2, <2>3, <2>4, AllUntouched DEF Untouched
<1>4. CASE ProcessSettingsAck
  BY <1>1, <1>4, PutNothing, AllUntouched DEF ProcessSettingsAck, Receives, Untouched, Has
<1>5. CASE ProcessHeaders
  <2>1. frame.id \in StreamIds
    BY <1>5, Taken, ClientFrame DEF ProcessHeaders
  <2>2. PICK id \in StreamIds : id = frame.id
    BY <2>1
  <2>3. /\ Up(id) # <<>> /\ Head(Up(id)) = frame /\ Up(id)' = Tail(Up(id))
        /\ \A other \in StreamIds : Down(other)' = Down(other) /\ view'[other] = view[other]
        /\ \A other \in StreamIds \ {id} : Up(other)' = Up(other)
        /\ frame.type = "HEADERS"
    BY <1>2, <1>5, <2>2 DEF ProcessHeaders
  <2> DEFINE open == IF Has(id) THEN streams[id].state ELSE "Open"
  <2>4. /\ Has(id)'
        /\ streams'[id].state = IF frame.end THEN HalfClosedRemote(open) ELSE open
        /\ \A other \in StreamIds \ {id} : streams'[other] = streams[other]
    BY <1>5, <2>2, HeadersStreams
  <2>5. StreamOK(id)'
    BY <2>3, <2>4, CarriedStep DEF StreamsOK
  <2> QED BY <2>3, <2>4, <2>5, OthersUntouched DEF Untouched, Has
<1>6. CASE ProcessData
  <2>1. frame.id \in StreamIds
    BY <1>6, Taken, ClientFrame DEF ProcessData
  <2>2. PICK id \in StreamIds : id = frame.id
    BY <2>1
  <2>3. /\ Up(id) # <<>> /\ Head(Up(id)) = frame /\ Up(id)' = Tail(Up(id))
        /\ \A other \in StreamIds : Down(other)' = Down(other) /\ view'[other] = view[other]
        /\ \A other \in StreamIds \ {id} : Up(other)' = Up(other)
        /\ frame.type = "DATA"
    BY <1>2, <1>6, <2>2 DEF ProcessData
  <2>4. Has(id) /\ CanReceive(streams[id].state)
    BY <2>3, Expected DEF StreamsOK
  <2>5. /\ Has(id)'
        /\ streams'[id].state = IF frame.end THEN HalfClosedRemote(streams[id].state)
                                             ELSE streams[id].state
        /\ \A other \in StreamIds \ {id} : streams'[other] = streams[other]
    BY <1>6, <2>2, <2>4, DataStreams
  <2>6. StreamOK(id)'
    BY <2>3, <2>4, <2>5, CarriedStep DEF StreamsOK
  <2> QED BY <2>3, <2>5, <2>6, OthersUntouched DEF Untouched, Has
<1>7. CASE ProcessWindowUpdate
  <2>1. \A id \in StreamIds : Up(id)' = Up(id) /\ view'[id] = view[id]
    BY <1>1, <1>7 DEF ProcessWindowUpdate
  <2>2. \A id \in StreamIds : Down(id)' = Down(id)
    BY <1>7, PutNothing DEF ProcessWindowUpdate, Receives
  <2>3. \A id \in StreamIds :
          streams'[id].state = streams[id].state /\ (Has(id)' <=> Has(id))
    BY <1>7, GrantStreams
  <2>4. \A id \in StreamIds : Has(id)' = Has(id)
    BY <2>3 DEF Has
  <2> QED BY <2>1, <2>2, <2>3, <2>4, AllUntouched DEF Untouched
<1>8. CASE ProcessPing
  <2>1. frame \in ClientFrames /\ frame.type = "PING"
    BY <1>8, Taken DEF ProcessPing
  <2>2. PingAck(frame.data) \in ServerFrames
    BY <2>1, ClientFrame, Sendable
  <2>3. \A id \in StreamIds : Down(id)' = Down(id)
    <3>1. to_client' = to_client /\ outgoing' = Append(outgoing, PingAck(frame.data))
      BY <1>8 DEF ProcessPing, Receives
    <3> QED BY <2>2, <3>1, Put DEF AboutStream, PingAck
  <2> QED BY <1>1, <1>8, <2>3, AllUntouched DEF ProcessPing, Untouched, Has
<1>9. CASE ProcessGoAway
  BY <1>1, <1>9, PutNothing, AllUntouched DEF ProcessGoAway, Receives, Untouched, Has
<1>10. CASE ProcessRstStream
  <2>1. frame.id \in StreamIds
    BY <1>10, Taken, ClientFrame DEF ProcessRstStream
  <2>2. PICK id \in StreamIds : id = frame.id
    BY <2>1
  <2>3. /\ Up(id) # <<>> /\ Head(Up(id)) = frame /\ Up(id)' = Tail(Up(id))
        /\ \A other \in StreamIds : Down(other)' = Down(other) /\ view'[other] = view[other]
        /\ \A other \in StreamIds \ {id} : Up(other)' = Up(other)
        /\ frame.type = "RST_STREAM"
    BY <1>2, <1>10, <2>2 DEF ProcessRstStream
  <2>4. Has(id)
    BY <2>3, GivenUpStep DEF StreamsOK
  <2>5. /\ Has(id)' /\ streams'[id].state = "Closed"
        /\ \A other \in StreamIds \ {id} : streams'[other] = streams[other]
    BY <1>10, <2>2, <2>4, ResetStreams
  <2>6. StreamOK(id)'
    BY <2>3, <2>5, GivenUpStep DEF StreamsOK
  <2> QED BY <2>3, <2>5, <2>6, OthersUntouched DEF Untouched, Has
<1> QED BY <1>3, <1>4, <1>5, <1>6, <1>7, <1>8, <1>9, <1>10 DEF ProcessFrame

LEMMA SendStreams ==
  ASSUME Types, StreamsOK, NEW id \in StreamIds, NEW end \in BOOLEAN,
         SendHeaders(id, end) \/ \E len \in 0 .. 1 : SendData(id, len, end)
  PROVE  StreamsOK'
<1>1. ASSUME NEW f \in Carriers(id), f.end = end, outgoing' = Append(outgoing, f),
             UNCHANGED <<to_server, to_client, view>>,
             Has(id), CanSend(streams[id].state),
             streams' = [streams EXCEPT ![id] = streams'[id]],
             streams'[id].state = IF end THEN HalfClosedLocal(streams[id].state)
                                         ELSE streams[id].state
      PROVE  StreamsOK'
  <2>1. f \in ServerFrames /\ \A other \in StreamIds : AboutStream(f, other) <=> other = id
    <3>1. f \in ServerFrames
      BY Sendable
    <3>2. f.id = id /\ f.type \in {"HEADERS", "DATA"}
      BY StreamFrame DEF StreamFrames
    <3> QED BY <3>1, <3>2 DEF AboutStream
  <2>2. \A other \in StreamIds :
          Down(other)' = IF AboutStream(f, other) THEN Append(Down(other), f) ELSE Down(other)
    BY <1>1, <2>1, Put
  <2>3. \A other : Up(other)' = Up(other)
    BY <1>1 DEF Up
  <2>4. streams'[id].state \in LiveStates
    <3>1. streams[id].state \in LiveStates /\ streams[id].state \in StreamStates
      BY <1>1, InMap DEF LiveStates
    <3> QED BY <1>1, <3>1, LiveFacts
  <2>5. Has(id)'
    <3>1. NoStream.state \notin LiveStates
      BY DEF NoStream, LiveStates, StreamStates
    <3> QED BY <2>4, <3>1 DEF Has
  <2>6. StreamOK(id)'
    <3>1. Down(id)' = Append(Down(id), f)
      BY <2>1, <2>2
    <3> QED BY <1>1, <2>3, <2>5, <3>1, AnswerStep DEF StreamsOK
  <2>7. \A other \in StreamIds \ {id} : streams'[other] = streams[other]
    BY <1>1 DEF Types
  <2> QED BY <1>1, <2>1, <2>2, <2>3, <2>6, <2>7, OthersUntouched DEF Untouched, Has
<1>2. CASE SendHeaders(id, end)
  <2>1. Headers(id, end) \in Carriers(id) /\ Headers(id, end).end = end
    BY Sendable DEF Headers
  <2>2. streams[id] \in LiveStream
    BY <1>2, InMap DEF SendHeaders, LiveStream
  <2>3. streams' = [streams EXCEPT ![id] = streams'[id]]
    BY <1>2 DEF SendHeaders, Types
  <2>4. streams'[id].state = IF end THEN HalfClosedLocal(streams[id].state)
                                    ELSE streams[id].state
    BY <1>2, <2>2 DEF SendHeaders, Types, LiveStream
  <2> QED BY <1>1, <1>2, <2>1, <2>3, <2>4 DEF SendHeaders, clientVars
<1>3. ASSUME NEW len \in 0 .. 1, SendData(id, len, end) PROVE StreamsOK'
  <2>1. Data(id, len, end) \in Carriers(id) /\ Data(id, len, end).end = end
    BY Sendable DEF Data
  <2>2. streams[id] \in LiveStream
    BY <1>3, InMap DEF SendData, LiveStream
  <2>3. streams' = [streams EXCEPT ![id] = streams'[id]]
    BY <1>3 DEF SendData, Types
  <2>4. streams'[id].state = IF end THEN HalfClosedLocal(streams[id].state)
                                    ELSE streams[id].state
    BY <1>3, <2>2 DEF SendData, Types, LiveStream
  <2> QED BY <1>1, <1>3, <2>1, <2>3, <2>4 DEF SendData, clientVars
<1> QED BY <1>2, <1>3

\* A frame that the client sends is seen by its stream.
LEMMA SendsStreams ==
  ASSUME Types, NEW f \in ClientFrames, Sends(f)
  PROVE  /\ \A id \in StreamIds :
              /\ Up(id)' = IF f.type \in {"HEADERS", "DATA", "RST_STREAM"} /\ f.id = id
                           THEN Append(Up(id), f) ELSE Up(id)
              /\ Down(id)' = Down(id)
              /\ streams'[id] = streams[id]
              /\ Has(id)' = Has(id)
<1>1. /\ to_server' = Append(to_server, f)
      /\ UNCHANGED <<streams, outgoing, to_client>>
  BY DEF Sends, serverVars
<1>2. \A id : Up(id)' = IF f \in StreamFrames(id) THEN Append(Up(id), f) ELSE Up(id)
  BY <1>1, ClientSent
<1>3. \A id : Down(id)' = Down(id)
  BY <1>1, PutNothing
<1>4. \A id \in StreamIds : Has(id)' = Has(id)
  BY <1>1 DEF Has
<1> QED BY <1>1, <1>2, <1>3, <1>4, ClientFrame

LEMMA ClientStreams ==
  ASSUME Types, StreamsOK, Client
  PROVE  StreamsOK'
<1>1. ASSUME NEW id \in StreamIds, NEW f \in StreamFrames(id), Sends(f),
             view' = [view EXCEPT ![id] = view'[id]]
      PROVE  /\ \A other \in StreamIds \ {id} : Untouched(other)
             /\ Up(id)' = Append(Up(id), f) /\ Down(id)' = Down(id)
             /\ streams'[id].state = streams[id].state /\ Has(id)' = Has(id)
  <2>1. f \in ClientFrames /\ f.type \in {"HEADERS", "DATA", "RST_STREAM"} /\ f.id = id
    BY <1>1, Sendable, StreamFrame
  <2>2. \A other \in StreamIds \ {id} : view'[other] = view[other]
    BY <1>1 DEF Types
  <2> QED BY <1>1, <2>1, <2>2, SendsStreams DEF Untouched
<1>2. ASSUME NEW id \in StreamIds, NEW end \in BOOLEAN, ClientOpens(id, end)
      PROVE  StreamsOK'
  <2>1. Headers(id, end) \in StreamFrames(id)
    BY Sendable
  <2>2. /\ view[id] = "Idle" /\ view'[id] = IF end THEN "HalfClosedLocal" ELSE "Open"
        /\ view' = [view EXCEPT ![id] = view'[id]]
        /\ Sends(Headers(id, end))
    BY <1>2, H2Assumption DEF ClientOpens, Types
  <2>3. StreamOK(id)'
    BY <1>1, <2>1, <2>2, OpenStep DEF StreamsOK
  <2> QED BY <1>1, <2>1, <2>2, <2>3, OthersUntouched
<1>3. ASSUME NEW id \in StreamIds, NEW f \in Carriers(id), Sends(f), ClientMaySend(id),
             view' = IF f.end THEN [view EXCEPT ![id] = HalfClosedLocal(@)] ELSE view
      PROVE  StreamsOK'
  <2>1. f \in StreamFrames(id)
    BY Sendable
  <2>2. /\ view'[id] = IF f.end THEN HalfClosedLocal(view[id]) ELSE view[id]
        /\ view' = [view EXCEPT ![id] = view'[id]]
    BY <1>3 DEF Types
  <2>3. StreamOK(id)'
    BY <1>1, <1>3, <2>1, <2>2, CarryStep DEF StreamsOK
  <2> QED BY <1>1, <1>3, <2>1, <2>2, <2>3, OthersUntouched
<1>4. ASSUME NEW id \in StreamIds, NEW end \in BOOLEAN, NEW len \in 0 .. 1,
             ClientData(id, len, end)
      PROVE  StreamsOK'
  <2>1. Data(id, len, end) \in Carriers(id) /\ Data(id, len, end).end = end
    BY Sendable DEF Data
  <2> QED BY <1>3, <1>4, <2>1 DEF ClientData
<1>5. ASSUME NEW id \in StreamIds, ClientTrailers(id) PROVE StreamsOK'
  <2>1. Headers(id, TRUE) \in Carriers(id) /\ Headers(id, TRUE).end
    BY Sendable DEF Headers
  <2> QED BY <1>3, <1>5, <2>1 DEF ClientTrailers
<1>6. ASSUME NEW id \in StreamIds, ClientResets(id) PROVE StreamsOK'
  <2>1. RstStream(id) \in StreamFrames(id)
    BY Sendable
  <2>2. /\ view[id] \notin {"Idle", "Closed"} /\ view'[id] = "Closed"
        /\ view' = [view EXCEPT ![id] = view'[id]]
        /\ Sends(RstStream(id))
    BY <1>6 DEF ClientResets, Types
  <2>3. StreamOK(id)'
    BY <1>1, <2>1, <2>2, ResetStep DEF StreamsOK
  <2> QED BY <1>1, <2>1, <2>2, <2>3, OthersUntouched
<1>7. ASSUME NEW f \in ClientFrames, f.type \notin {"HEADERS", "DATA", "RST_STREAM"},
             Sends(f), view' = view
      PROVE  StreamsOK'
  BY <1>7, SendsStreams, AllUntouched DEF Untouched
<1>8. CASE ClientControls
  <2>1. budget \in 1 .. Budget
    BY <1>8, H2Assumption DEF ClientControls, Types
  <2>2. \A f \in Questions : f \in ClientFrames /\ f.type \in {"SETTINGS", "PING"}
    BY Sendable, ClientFrame
  <2>3. Ping(budget) \in Questions /\ \A value \in WindowSizes : Settings(value) \in Questions
    BY <2>1 DEF Questions
  <2>4. \A id \in StreamIds \cup {0} :
          WindowUpdate(id, 1) \in ClientFrames /\ WindowUpdate(id, 1).type = "WINDOW_UPDATE"
    BY Sendable DEF WindowUpdate
  <2>5. GoAway \in ClientFrames /\ GoAway.type = "GOAWAY"
    BY Sendable DEF GoAway
  <2>6. view' = view /\ \E f \in Questions \cup {GoAway}
                                 \cup {WindowUpdate(id, 1) : id \in StreamIds \cup {0}} : Sends(f)
    BY <1>8, <2>3 DEF ClientControls, ClientAsks, ClientGrants
  <2> QED BY <1>7, <2>2, <2>4, <2>5, <2>6
<1>9. CASE ClientReceives
  <2>1. /\ arrived \in ServerFrames
        /\ Downstream # <<>> /\ Head(Downstream) = arrived /\ Downstream' = Tail(Downstream)
    BY <1>9, Arrived DEF ClientReceives, serverVars
  <2>2. \A id \in StreamIds :
          IF AboutStream(arrived, id)
          THEN Down(id) # <<>> /\ Head(Down(id)) = arrived /\ Down(id)' = Tail(Down(id))
          ELSE Down(id)' = Down(id)
    <3>1. \A id : /\ arrived \in Carriers(id) =>
                       Down(id) # <<>> /\ Head(Down(id)) = arrived /\ Down(id)' = Tail(Down(id))
                  /\ arrived \notin Carriers(id) => Down(id)' = Down(id)
      BY <2>1, DownShorter
    <3> QED BY <2>1, <3>1, ServerFrame
  <2>3. \A id \in StreamIds : Up(id)' = Up(id)
    <3>1. CASE arrived.type = "SETTINGS"
      <4>1. to_server' = Append(to_server, SettingsAck)
        BY <1>9, <3>1 DEF ClientReceives
      <4>2. \A id : Up(id)' = IF SettingsAck \in StreamFrames(id)
                              THEN Append(Up(id), SettingsAck) ELSE Up(id)
        BY <4>1, ClientSent, Sendable
      <4>3. \A id : SettingsAck \notin StreamFrames(id)
        BY StreamFrame DEF SettingsAck
      <4> QED BY <4>2, <4>3
    <3>2. CASE arrived.type # "SETTINGS"
      BY <1>9, <3>2 DEF ClientReceives, Up
    <3> QED BY <3>1, <3>2
  <2>4. streams' = streams /\ \A id \in StreamIds : Has(id)' = Has(id)
    BY <1>9 DEF ClientReceives, serverVars, Has
  <2>5. CASE arrived.type \in {"HEADERS", "DATA"}
    <3>1. PICK id \in StreamIds : arrived.id = id
      BY <2>1, <2>5, ServerFrame
    <3>2. \A other \in StreamIds : AboutStream(arrived, other) <=> other = id
      BY <2>5, <3>1 DEF AboutStream
    <3>3. /\ view'[id] = IF arrived.end THEN HalfClosedRemote(view[id]) ELSE view[id]
          /\ \A other \in StreamIds \ {id} : view'[other] = view[other]
      BY <1>9, <2>5, <3>1 DEF ClientReceives, Types
    <3>4. StreamOK(id)'
      BY <2>2, <2>3, <2>4, <3>2, <3>3, ArriveStep DEF StreamsOK
    <3> QED BY <2>2, <2>3, <2>4, <3>2, <3>3, <3>4, OthersUntouched DEF Untouched
  <2>6. CASE arrived.type \notin {"HEADERS", "DATA"}
    <3>1. \A other \in StreamIds : ~AboutStream(arrived, other)
      BY <2>6 DEF AboutStream
    <3>2. view' = view
      BY <1>9, <2>6 DEF ClientReceives
    <3> QED BY <2>2, <2>3, <2>4, <3>1, <3>2, AllUntouched DEF Untouched
  <2> QED BY <2>5, <2>6
<1> QED BY <1>2, <1>4, <1>5, <1>6, <1>8, <1>9 DEF Client

LEMMA StreamsStep ==
  ASSUME Types, StreamsOK, [Next]_vars
  PROVE  StreamsOK'
<1>1. CASE ProcessPreface
  <2>1. \A id \in StreamIds : Down(id)' = Down(id)
    <3>1. to_client' = to_client /\ outgoing' = Append(outgoing, Settings(InitialWindow))
      BY <1>1 DEF ProcessPreface
    <3> QED BY <3>1, Put, Sendable DEF AboutStream, Settings
  <2> QED BY <1>1, <2>1, AllUntouched DEF ProcessPreface, clientVars, Untouched, Has, Up
<1>2. CASE TakeOutgoing
  <2>1. \A id \in StreamIds : Down(id)' = Down(id)
    BY <1>2, HandedOver, DownSame DEF TakeOutgoing
  <2> QED BY <1>2, <2>1, AllUntouched DEF TakeOutgoing, clientVars, Untouched, Has, Up
<1>3. CASE UNCHANGED vars
  BY <1>3, PutNothing, AllUntouched DEF vars, serverVars, clientVars, Untouched, Has, Up
<1> QED BY <1>1, <1>2, <1>3, ProcessStreams, SendStreams, ClientStreams DEF Next, Server

-----------------------------------------------------------------------------
(* The windows, step by step. *)

\* The payloads of a channel, place by place.
Lengths(channel, ids) == [i \in DOMAIN channel |-> Bytes(channel[i], ids)]

LEMMA LengthsFacts ==
  ASSUME NEW channel \in Seq(ClientFrames), NEW ids
  PROVE  /\ Lengths(channel, ids) \in Seq(Nat)
         /\ \A f \in ClientFrames :
              /\ Bytes(f, ids) \in Nat
              /\ Lengths(Append(channel, f), ids) = Append(Lengths(channel, ids), Bytes(f, ids))
         /\ channel # <<>> =>
              /\ Lengths(channel, ids) # <<>>
              /\ Head(Lengths(channel, ids)) = Bytes(Head(channel), ids)
              /\ Tail(Lengths(channel, ids)) = Lengths(Tail(channel), ids)
<1> DEFINE b(f) == Bytes(f, ids)
           ls(c) == [i \in DOMAIN c |-> b(c[i])]
<1>1. \A f \in ClientFrames : b(f) \in Nat
  BY ClientFrame DEF Bytes
<1>2. \A c : Lengths(c, ids) = ls(c)
  BY DEF Lengths
<1> HIDE DEF b
<1>3. \A c \in Seq(ClientFrames) : ls(c) \in Seq(Nat) /\ Len(ls(c)) = Len(c)
  BY <1>1
<1>4. ASSUME NEW f \in ClientFrames
      PROVE  ls(Append(channel, f)) = Append(ls(channel), b(f))
  <2>1. /\ Append(channel, f) \in Seq(ClientFrames) /\ DOMAIN channel = 1 .. Len(channel)
        /\ Len(channel) \in Nat
    BY AppendProperties
  <2>2. ls(Append(channel, f)) \in Seq(Nat) /\ Append(ls(channel), b(f)) \in Seq(Nat)
    BY <1>1, <1>3, <2>1
  <2>3. /\ Len(ls(Append(channel, f))) = Len(channel) + 1
        /\ Len(Append(ls(channel), b(f))) = Len(channel) + 1
    BY <1>1, <1>3, <2>1
  <2>4. ASSUME NEW i \in 1 .. Len(channel) + 1
        PROVE  ls(Append(channel, f))[i] = Append(ls(channel), b(f))[i]
    BY <1>1, <1>3, <2>1
  <2> HIDE DEF ls
  <2> QED BY <2>1, <2>2, <2>3, <2>4, SeqEqual
<1>5. ASSUME channel # <<>>
      PROVE  ls(channel) # <<>> /\ Head(ls(channel)) = b(Head(channel))
             /\ Tail(ls(channel)) = ls(Tail(channel))
  <2>1. /\ Len(channel) \in Nat \ {0} /\ DOMAIN channel = 1 .. Len(channel)
        /\ Tail(channel) \in Seq(ClientFrames) /\ Len(Tail(channel)) = Len(channel) - 1
        /\ Head(channel) = channel[1]
        /\ \A i \in 1 .. Len(channel) - 1 : Tail(channel)[i] = channel[i + 1]
    BY <1>5, HeadTailProperties
  <2>2. ls(channel) \in Seq(Nat) /\ Len(ls(channel)) = Len(channel) /\ ls(channel) # <<>>
    <3>1. ls(channel) \in Seq(Nat) /\ Len(ls(channel)) = Len(channel)
      BY <1>3
    <3>2. Len(<<>>) = 0
      OBVIOUS
    <3> HIDE DEF ls
    <3> QED BY <2>1, <3>1, <3>2
  <2>3. Head(ls(channel)) = ls(channel)[1]
    BY <2>2, HeadTailProperties
  <2>4. /\ Tail(ls(channel)) \in Seq(Nat) /\ Len(Tail(ls(channel))) = Len(channel) - 1
        /\ \A i \in 1 .. Len(channel) - 1 : Tail(ls(channel))[i] = ls(channel)[i + 1]
    <3> HIDE DEF ls
    <3> QED BY <2>1, <2>2, HeadTailProperties
  <2>5. ls(Tail(channel)) \in Seq(Nat) /\ Len(ls(Tail(channel))) = Len(channel) - 1
    BY <1>3, <2>1
  <2>6. ASSUME NEW i \in 1 .. Len(channel) - 1
        PROVE  Tail(ls(channel))[i] = ls(Tail(channel))[i]
    <3>1. i + 1 \in DOMAIN channel /\ i \in DOMAIN Tail(channel)
      BY <2>1
    <3>2. ls(channel)[i + 1] = b(channel[i + 1]) /\ ls(Tail(channel))[i] = b(Tail(channel)[i])
      BY <3>1
    <3> HIDE DEF ls
    <3> QED BY <2>1, <2>4, <3>2
  <2>7. Tail(ls(channel)) = ls(Tail(channel))
    <3> HIDE DEF ls
    <3> QED BY <2>4, <2>5, <2>6, SeqEqual
  <2>8. ls(channel)[1] = b(channel[1])
    BY <2>1
  <2> QED BY <2>1, <2>2, <2>3, <2>7, <2>8
<1>6. ls(channel) \in Seq(Nat)
  BY <1>3
<1> HIDE DEF ls
<1> QED BY <1>1, <1>2, <1>4, <1>5, <1>6 DEF b

\* What is on its way is a number of units, grows by what is sent and shrinks by
\* what is processed.
LEMMA BytesAreNatural ==
  ASSUME Types, NEW ids PROVE BytesOnTheWay(ids) \in Nat
<1>1. Lengths(to_server, ids) \in Seq(Nat)
  BY LengthsFacts DEF Types
<1> QED BY <1>1, SumOfNatSeq DEF BytesOnTheWay, Lengths

LEMMA BytesSent ==
  ASSUME Types, NEW f \in ClientFrames, to_server' = Append(to_server, f)
  PROVE  \A ids : BytesOnTheWay(ids)' = BytesOnTheWay(ids) + Bytes(f, ids)
<1> TAKE ids
<1>1. /\ Lengths(to_server, ids) \in Seq(Nat) /\ Bytes(f, ids) \in Nat
      /\ Lengths(to_server', ids) = Append(Lengths(to_server, ids), Bytes(f, ids))
  BY LengthsFacts DEF Types
<1>2. Lengths(to_server, ids) \in Seq(Int) /\ Bytes(f, ids) \in Int
  BY <1>1
<1>3. SumFunction(Lengths(to_server', ids)) =
        SumFunction(Lengths(to_server, ids)) + Bytes(f, ids)
  BY <1>1, <1>2, SumAppend
<1> QED BY <1>3 DEF BytesOnTheWay, Lengths

LEMMA BytesProcessed ==
  ASSUME Types, to_server # <<>>, to_server' = Tail(to_server)
  PROVE  \A ids : BytesOnTheWay(ids) = Bytes(frame, ids) + BytesOnTheWay(ids)'
<1> TAKE ids
<1>1. /\ Lengths(to_server, ids) \in Seq(Nat) /\ Lengths(to_server, ids) # <<>>
      /\ Head(Lengths(to_server, ids)) = Bytes(frame, ids)
      /\ Tail(Lengths(to_server, ids)) = Lengths(to_server', ids)
  BY LengthsFacts DEF Types, frame
<1>2. Lengths(to_server, ids) \in Seq(Int)
  BY <1>1
<1>3. SumFunction(Lengths(to_server, ids)) =
        Bytes(frame, ids) + SumFunction(Lengths(to_server', ids))
  BY <1>1, <1>2, SumTail
<1> QED BY <1>3 DEF BytesOnTheWay, Lengths

\* A frame without payload moves no bytes.
LEMMA NoBytes ==
  ASSUME NEW f, f.type # "DATA" PROVE \A ids : Bytes(f, ids) = 0
BY DEF Bytes

\* The windows of the streams in ids, and that of the connection, are left alone.
Quiet(id) ==
    /\ credit'[id] = credit[id]
    /\ BytesOnTheWay({id})' = BytesOnTheWay({id})
    /\ Has(id)' <=> Has(id)
    /\ Has(id) => /\ streams'[id].recv_window = streams[id].recv_window
                  /\ streams'[id].body = streams[id].body

ConnectionQuiet ==
    /\ conn_credit' = conn_credit /\ recv_window' = recv_window
    /\ BytesOnTheWay(StreamIds)' = BytesOnTheWay(StreamIds)

LEMMA QuietStep ==
  ASSUME WindowsOK, NEW id \in StreamIds, Quiet(id)
  PROVE  WindowOK(id)'
BY DEF WindowsOK, WindowOK, Quiet

LEMMA AllQuiet ==
  ASSUME WindowsOK, \A id \in StreamIds : Quiet(id), ConnectionQuiet
  PROVE  WindowsOK'
BY QuietStep DEF WindowsOK, ConnectionQuiet

\* The bytes on the way when the channel to the server is left alone, and when what
\* goes in or out of it has no payload.
LEMMA SameBytes ==
  ASSUME Types,
         \/ to_server' = to_server
         \/ \E f \in ClientFrames : f.type # "DATA" /\ to_server' = Append(to_server, f)
         \/ to_server # <<>> /\ frame.type # "DATA" /\ to_server' = Tail(to_server)
  PROVE  \A ids : BytesOnTheWay(ids)' = BytesOnTheWay(ids)
<1>1. CASE to_server' = to_server
  BY <1>1 DEF BytesOnTheWay
<1>2. ASSUME NEW f \in ClientFrames, f.type # "DATA", to_server' = Append(to_server, f)
      PROVE  \A ids : BytesOnTheWay(ids)' = BytesOnTheWay(ids)
  <2> TAKE ids
  <2>1. BytesOnTheWay(ids)' = BytesOnTheWay(ids) + Bytes(f, ids)
    BY <1>2, BytesSent
  <2> QED BY <1>2, <2>1, NoBytes, BytesAreNatural
<1>3. ASSUME to_server # <<>>, frame.type # "DATA", to_server' = Tail(to_server)
      PROVE  \A ids : BytesOnTheWay(ids)' = BytesOnTheWay(ids)
  <2> TAKE ids
  <2>1. to_server' \in Seq(ClientFrames)
    BY <1>3, HeadTailProperties DEF Types
  <2>2. BytesOnTheWay(ids) = Bytes(frame, ids) + BytesOnTheWay(ids)'
    BY <1>3, BytesProcessed
  <2>3. BytesOnTheWay(ids)' \in Nat
    <3>1. Lengths(to_server', ids) \in Seq(Nat)
      BY <2>1, LengthsFacts
    <3> QED BY <3>1, SumOfNatSeq DEF BytesOnTheWay, Lengths
  <2> QED BY <1>3, <2>2, <2>3, NoBytes
<1> QED BY <1>1, <1>2, <1>3

LEMMA ProcessWindows ==
  ASSUME Types, StreamsOK, WindowsOK, ProcessFrame
  PROVE  WindowsOK'
<1>1. ASSUME NEW type, Receives(type), type # "DATA"
      PROVE  /\ \A ids : BytesOnTheWay(ids)' = BytesOnTheWay(ids)
             /\ credit' = credit /\ conn_credit' = conn_credit
  <2>1. frame.type = type /\ to_server # <<>> /\ to_server' = Tail(to_server)
    BY <1>1, Taken
  <2> QED BY <1>1, <2>1, SameBytes DEF Receives, clientVars
<1>2. CASE ProcessSettings
  <2>1. \A id \in StreamIds :
          /\ Has(id)' <=> Has(id)
          /\ Has(id) => /\ streams'[id].recv_window = streams[id].recv_window
                        /\ streams'[id].body = streams[id].body
    BY <1>2, SettingsStreams
  <2> QED BY <1>1, <1>2, <2>1, AllQuiet DEF ProcessSettings, Quiet, ConnectionQuiet
<1>3. CASE ProcessWindowUpdate
  <2>1. \A id \in StreamIds :
          /\ Has(id)' <=> Has(id)
          /\ Has(id) => /\ streams'[id].recv_window = streams[id].recv_window
                        /\ streams'[id].body = streams[id].body
    BY <1>3, GrantStreams
  <2> QED BY <1>1, <1>3, <2>1, AllQuiet DEF ProcessWindowUpdate, Quiet, ConnectionQuiet
<1>4. CASE ProcessSettingsAck \/ ProcessPing \/ ProcessGoAway
  <2>1. /\ \A ids : BytesOnTheWay(ids)' = BytesOnTheWay(ids)
        /\ UNCHANGED <<credit, conn_credit, streams, recv_window>>
    BY <1>1, <1>4 DEF ProcessSettingsAck, ProcessPing, ProcessGoAway
  <2> QED BY <2>1, AllQuiet DEF Quiet, ConnectionQuiet, Has
<1>5. CASE ProcessRstStream
  <2>1. /\ \A ids : BytesOnTheWay(ids)' = BytesOnTheWay(ids)
        /\ UNCHANGED <<credit, conn_credit, recv_window>>
        /\ frame.id \in StreamIds
    BY <1>1, <1>5, Taken, ClientFrame DEF ProcessRstStream
  <2>2. CASE Has(frame.id)
    <3>1. PICK id \in StreamIds : id = frame.id /\ Has(id)
      BY <2>1, <2>2
    <3>2. /\ Has(id)'
          /\ streams'[id].recv_window = streams[id].recv_window
          /\ streams'[id].body = streams[id].body
          /\ \A other \in StreamIds \ {id} : streams'[other] = streams[other]
      BY <1>5, <3>1, ResetStreams
    <3> QED BY <2>1, <3>1, <3>2, AllQuiet DEF Quiet, ConnectionQuiet, Has
  <2>3. CASE ~Has(frame.id)
    <3>1. streams' = streams
      BY <1>5, <2>3 DEF ProcessRstStream
    <3> QED BY <2>1, <3>1, AllQuiet DEF Quiet, ConnectionQuiet, Has
  <2> QED BY <2>2, <2>3
<1>6. CASE ProcessHeaders
  <2>1. /\ \A ids : BytesOnTheWay(ids)' = BytesOnTheWay(ids)
        /\ UNCHANGED <<credit, conn_credit, recv_window>>
        /\ frame.id \in StreamIds
    BY <1>1, <1>6, Taken, ClientFrame DEF ProcessHeaders
  <2>2. PICK id \in StreamIds : id = frame.id
    BY <2>1
  <2>3. /\ Has(id)'
        /\ streams'[id].recv_window = IF Has(id) THEN streams[id].recv_window ELSE InitialWindow
        /\ streams'[id].body = IF Has(id) THEN streams[id].body ELSE 0
        /\ \A other \in StreamIds \ {id} : streams'[other] = streams[other]
    BY <1>6, <2>2, HeadersStreams
  <2>4. \A other \in StreamIds \ {id} : Quiet(other)
    BY <2>1, <2>3 DEF Quiet, Has
  <2>5. WindowOK(id)'
    BY <2>1, <2>3, H2Assumption DEF WindowsOK, WindowOK
  <2> QED BY <2>1, <2>4, <2>5, QuietStep DEF WindowsOK
<1>7. CASE ProcessData
  <2>1. /\ to_server # <<>> /\ to_server' = Tail(to_server)
        /\ UNCHANGED <<credit, conn_credit>>
        /\ frame.type = "DATA" /\ frame \in ClientFrames
    BY <1>7, Taken DEF ProcessData, clientVars
  <2>2. frame.id \in StreamIds /\ frame.len \in 0 .. 1
    BY <2>1, ClientFrame
  <2>3. PICK id \in StreamIds : id = frame.id
    BY <2>2
  <2>4. Up(id) # <<>> /\ Head(Up(id)) = frame
    BY <1>7, <2>3, Taken DEF ProcessData
  <2>5. Has(id) /\ CanReceive(streams[id].state)
    BY <2>1, <2>4, Expected DEF StreamsOK
  <2>6. /\ Has(id)'
        /\ streams'[id].recv_window = Wrapped(streams[id].recv_window - frame.len)
        /\ streams'[id].body = streams[id].body + frame.len
        /\ recv_window' = Wrapped(recv_window - frame.len)
        /\ \A other \in StreamIds \ {id} : streams'[other] = streams[other]
    BY <1>7, <2>3, <2>5, DataStreams
  <2>7. /\ Bytes(frame, {id}) = frame.len /\ Bytes(frame, StreamIds) = frame.len
        /\ \A other \in StreamIds \ {id} : Bytes(frame, {other}) = 0
    BY <2>1, <2>3 DEF Bytes
  <2>8. \A ids : /\ BytesOnTheWay(ids) = Bytes(frame, ids) + BytesOnTheWay(ids)'
                 /\ BytesOnTheWay(ids) \in Nat /\ BytesOnTheWay(ids)' \in Nat
    <3>1. \A ids : BytesOnTheWay(ids) = Bytes(frame, ids) + BytesOnTheWay(ids)'
      BY <2>1, BytesProcessed
    <3>2. \A ids : BytesOnTheWay(ids) \in Nat
      BY BytesAreNatural
    <3>3. \A ids : BytesOnTheWay(ids)' \in Nat
      <4> TAKE ids
      <4>1. Lengths(to_server', ids) \in Seq(Nat)
        BY <1>7, Taken, LengthsFacts DEF ProcessData
      <4> QED BY <4>1, SumOfNatSeq DEF BytesOnTheWay, Lengths
    <3> QED BY <3>1, <3>2, <3>3
  <2>9. \A other \in StreamIds \ {id} : Quiet(other)
    BY <2>1, <2>6, <2>7, <2>8 DEF Quiet, Has
  <2> DEFINE w == streams[id].recv_window
             on == BytesOnTheWay({id})
             all == BytesOnTheWay(StreamIds)
  <2>10. /\ w = credit[id] + on /\ w \in I32 /\ credit[id] \in Nat
         /\ streams[id].body = InitialWindow - w
    <3>1. WindowOK(id)
      BY DEF WindowsOK
    <3>2. credit[id] \in 0 .. InitialWindow
      BY DEF Types
    <3>3. streams[id] \in LiveStream
      BY <2>5, InMap DEF LiveStream
    <3>4. w \in I32 /\ credit[id] \in Nat
      BY <3>2, <3>3, H2Assumption DEF LiveStream
    <3> QED BY <2>5, <3>1, <3>4 DEF WindowOK
  <2>11. recv_window = conn_credit + all /\ recv_window \in I32 /\ conn_credit \in Nat
    BY H2Assumption DEF WindowsOK, Types
  <2>12. Wrapped(w - frame.len) = w - frame.len
    <3>1. on >= frame.len /\ on \in Nat
      BY <2>2, <2>7, <2>8
    <3> HIDE DEF w, on
    <3>2. w - frame.len \in Int /\ w - frame.len \in I32
      BY <2>2, <2>10, <3>1, H2Assumption DEF I32
    <3> QED BY <3>2, I32Facts
  <2>13. Wrapped(recv_window - frame.len) = recv_window - frame.len
    <3>1. all >= frame.len /\ all \in Nat
      BY <2>2, <2>7, <2>8
    <3> HIDE DEF all
    <3>2. recv_window - frame.len \in Int /\ recv_window - frame.len \in I32
      BY <2>2, <2>11, <3>1, H2Assumption DEF I32
    <3> QED BY <3>2, I32Facts
  <2>14. WindowOK(id)'
    <3>1. credit'[id] = credit[id] /\ w \in Int
      BY <2>1, <2>10, H2Assumption DEF I32
    <3>2. on = frame.len + BytesOnTheWay({id})' /\ BytesOnTheWay({id})' \in Nat
      BY <2>7, <2>8
    <3>3. credit[id] + BytesOnTheWay({id})' = w - frame.len
      <4> HIDE DEF w, on
      <4> QED BY <2>2, <2>10, <3>1, <3>2
    <3>4. streams'[id].body = InitialWindow - (w - frame.len)
      <4> HIDE DEF w
      <4> QED BY <2>2, <2>6, <2>10, <3>1, H2Assumption
    <3> HIDE DEF w, on
    <3> QED BY <2>6, <2>12, <3>1, <3>3, <3>4 DEF WindowOK, w
  <2>15. conn_credit' + BytesOnTheWay(StreamIds)' = recv_window'
    <3>1. all = frame.len + BytesOnTheWay(StreamIds)' /\ BytesOnTheWay(StreamIds)' \in Nat
      BY <2>7, <2>8
    <3>2. conn_credit + BytesOnTheWay(StreamIds)' = recv_window - frame.len
      <4> HIDE DEF all
      <4> QED BY <2>2, <2>11, <3>1
    <3> QED BY <2>1, <2>6, <2>13, <3>2
  <2> QED BY <2>9, <2>14, <2>15, QuietStep DEF WindowsOK
<1> QED BY <1>2, <1>3, <1>4, <1>5, <1>6, <1>7 DEF ProcessFrame

LEMMA SendWindows ==
  ASSUME Types, WindowsOK, NEW id \in StreamIds, NEW end \in BOOLEAN,
         SendHeaders(id, end) \/ \E len \in 0 .. 1 : SendData(id, len, end)
  PROVE  WindowsOK'
<1>1. /\ UNCHANGED <<to_server, credit, conn_credit, recv_window>>
      /\ Has(id)
  BY DEF SendHeaders, SendData, clientVars
<1>2. streams[id] \in LiveStream
  BY <1>1, InMap DEF LiveStream
<1>3. /\ streams'[id].recv_window = streams[id].recv_window
      /\ streams'[id].body = streams[id].body
      /\ streams'[id].state \in LiveStates
      /\ \A other \in StreamIds \ {id} : streams'[other] = streams[other]
  <2>1. streams[id].state \in LiveStates /\ streams[id].state \in StreamStates
    BY <1>2 DEF LiveStream, LiveStates
  <2>2. HalfClosedLocal(streams[id].state) \in LiveStates
    BY <2>1, LiveFacts
  <2>3. CASE SendHeaders(id, end)
    BY <1>2, <2>1, <2>2, <2>3 DEF SendHeaders, Types, LiveStream
  <2>4. ASSUME NEW len \in 0 .. 1, SendData(id, len, end)
        PROVE  /\ streams'[id].recv_window = streams[id].recv_window
               /\ streams'[id].body = streams[id].body
               /\ streams'[id].state \in LiveStates
               /\ \A other \in StreamIds \ {id} : streams'[other] = streams[other]
    BY <1>2, <2>1, <2>2, <2>4 DEF SendData, Types, LiveStream
  <2> QED BY <2>3, <2>4
<1>4. Has(id)'
  <2>1. NoStream.state \notin LiveStates
    BY DEF NoStream, LiveStates, StreamStates
  <2> QED BY <1>3, <2>1 DEF Has
<1>5. \A ids : BytesOnTheWay(ids)' = BytesOnTheWay(ids)
  BY <1>1, SameBytes
<1> QED BY <1>1, <1>3, <1>4, <1>5, AllQuiet DEF Quiet, ConnectionQuiet, Has

LEMMA ClientWindows ==
  ASSUME Types, WindowsOK, Client
  PROVE  WindowsOK'
<1>1. ASSUME UNCHANGED <<streams, recv_window, credit, conn_credit>>,
             \/ to_server' = to_server
             \/ \E f \in ClientFrames : f.type # "DATA" /\ to_server' = Append(to_server, f)
      PROVE  WindowsOK'
  <2>1. \A ids : BytesOnTheWay(ids)' = BytesOnTheWay(ids)
    BY <1>1, SameBytes
  <2> QED BY <1>1, <2>1, AllQuiet DEF Quiet, ConnectionQuiet, Has
<1>2. ASSUME NEW f \in ClientFrames, f.type # "DATA", Sends(f),
             UNCHANGED <<credit, conn_credit>>
      PROVE  WindowsOK'
  BY <1>1, <1>2 DEF Sends, serverVars
<1>3. ASSUME NEW id \in StreamIds, NEW end \in BOOLEAN, ClientOpens(id, end) PROVE WindowsOK'
  <2>1. Headers(id, end) \in ClientFrames /\ Headers(id, end).type # "DATA"
    BY Sendable DEF Headers
  <2> QED BY <1>2, <1>3, <2>1 DEF ClientOpens
<1>4. ASSUME NEW id \in StreamIds, ClientTrailers(id) PROVE WindowsOK'
  <2>1. Headers(id, TRUE) \in ClientFrames /\ Headers(id, TRUE).type # "DATA"
    BY Sendable DEF Headers
  <2> QED BY <1>2, <1>4, <2>1 DEF ClientTrailers
<1>5. ASSUME NEW id \in StreamIds, ClientResets(id) PROVE WindowsOK'
  <2>1. RstStream(id) \in ClientFrames /\ RstStream(id).type # "DATA"
    BY Sendable DEF RstStream
  <2> QED BY <1>2, <1>5, <2>1 DEF ClientResets
<1>6. CASE ClientControls
  <2>1. budget \in 1 .. Budget
    BY <1>6, H2Assumption DEF ClientControls, Types
  <2>2. \A f \in Questions : f \in ClientFrames /\ f.type \in {"SETTINGS", "PING"}
    BY Sendable, ClientFrame
  <2>3. Ping(budget) \in Questions /\ \A value \in WindowSizes : Settings(value) \in Questions
    BY <2>1 DEF Questions
  <2>4. \A id \in StreamIds \cup {0} :
          WindowUpdate(id, 1) \in ClientFrames /\ WindowUpdate(id, 1).type = "WINDOW_UPDATE"
    BY Sendable DEF WindowUpdate
  <2>5. GoAway \in ClientFrames /\ GoAway.type = "GOAWAY"
    BY Sendable DEF GoAway
  <2>6. UNCHANGED <<credit, conn_credit>> /\
          \E f \in Questions \cup {GoAway}
                     \cup {WindowUpdate(id, 1) : id \in StreamIds \cup {0}} : Sends(f)
    BY <1>6, <2>3 DEF ClientControls, ClientAsks, ClientGrants
  <2> QED BY <1>2, <2>2, <2>4, <2>5, <2>6
<1>7. CASE ClientReceives
  <2>1. SettingsAck \in ClientFrames /\ SettingsAck.type # "DATA"
    BY Sendable DEF SettingsAck
  <2> QED BY <1>1, <1>7, <2>1 DEF ClientReceives, serverVars
<1>8. ASSUME NEW id \in StreamIds, NEW end \in BOOLEAN, NEW len \in 0 .. 1,
             ClientData(id, len, end)
      PROVE  WindowsOK'
  <2> DEFINE f == Data(id, len, end)
  <2>1. /\ f \in ClientFrames /\ Bytes(f, {id}) = len /\ Bytes(f, StreamIds) = len
        /\ \A other \in StreamIds \ {id} : Bytes(f, {other}) = 0
    BY Sendable DEF Data, Bytes
  <2>2. /\ to_server' = Append(to_server, f)
        /\ UNCHANGED <<streams, recv_window>>
        /\ credit' = [credit EXCEPT ![id] = credit[id] - len]
        /\ conn_credit' = conn_credit - len
    BY <1>8 DEF ClientData, Sends, serverVars
  <2>3. \A ids : /\ BytesOnTheWay(ids)' = BytesOnTheWay(ids) + Bytes(f, ids)
                 /\ BytesOnTheWay(ids) \in Nat
    <3>1. \A ids : BytesOnTheWay(ids)' = BytesOnTheWay(ids) + Bytes(f, ids)
      BY <2>1, <2>2, BytesSent
    <3> QED BY <3>1, BytesAreNatural
  <2>4. \A other \in StreamIds :
          /\ credit[other] \in Int
          /\ credit'[other] = IF other = id THEN credit[id] - len ELSE credit[other]
    BY <2>2, H2Assumption DEF Types
  <2>5. conn_credit \in Int
    BY H2Assumption DEF Types
  <2> HIDE DEF f
  <2>6. \A other \in StreamIds : credit'[other] + BytesOnTheWay({other})'
                                   = credit[other] + BytesOnTheWay({other})
    <3> TAKE other \in StreamIds
    <3>1. /\ BytesOnTheWay({other})' = BytesOnTheWay({other}) + Bytes(f, {other})
          /\ BytesOnTheWay({other}) \in Nat
      BY <2>3
    <3>2. Bytes(f, {other}) = IF other = id THEN len ELSE 0
      BY <2>1
    <3>3. /\ credit[other] \in Int
          /\ credit'[other] = IF other = id THEN credit[other] - len ELSE credit[other]
      BY <2>4
    <3> QED BY <3>1, <3>2, <3>3
  <2>7. conn_credit' + BytesOnTheWay(StreamIds)' = conn_credit + BytesOnTheWay(StreamIds)
    BY <2>1, <2>2, <2>3, <2>5
  <2> QED BY <2>2, <2>6, <2>7 DEF WindowsOK, WindowOK, Has
<1> QED BY <1>3, <1>4, <1>5, <1>6, <1>7, <1>8 DEF Client

LEMMA WindowsStep ==
  ASSUME Types, StreamsOK, WindowsOK, [Next]_vars
  PROVE  WindowsOK'
<1>1. CASE ProcessPreface \/ TakeOutgoing \/ UNCHANGED vars
  <2>1. UNCHANGED <<streams, recv_window, credit, conn_credit, to_server>>
    BY <1>1 DEF ProcessPreface, TakeOutgoing, vars, serverVars, clientVars
  <2>2. \A ids : BytesOnTheWay(ids)' = BytesOnTheWay(ids)
    BY <2>1, SameBytes
  <2> QED BY <2>1, <2>2, AllQuiet DEF Quiet, ConnectionQuiet, Has
<1> QED BY <1>1, ProcessWindows, SendWindows, ClientWindows DEF Next, Server

-----------------------------------------------------------------------------
(* The answers, step by step. *)

\* The client asks, the server answers the oldest question, the client receives an
\* answer.
LEMMA AskStep ==
  ASSUME NEW a \in Seq(Questions), NEW c \in Seq(Answers), NEW g \in Seq(Questions),
         Ordered(a, c, g), NEW f \in Questions
  PROVE  Ordered(Append(a, f), c, Append(g, f))
<1> DEFINE b == Append(a, f)
           h == Append(g, f)
<1>1. /\ Len(a) \in Nat /\ Len(c) \in Nat /\ Len(g) \in Nat
      /\ Len(b) = Len(a) + 1 /\ Len(h) = Len(g) + 1
      /\ b[Len(a) + 1] = f /\ h[Len(g) + 1] = f
      /\ \A i \in 1 .. Len(a) : b[i] = a[i]
      /\ \A i \in 1 .. Len(g) : h[i] = g[i]
  BY AppendProperties
<1> HIDE DEF b, h
<1>2. Len(a) = Len(c) + Len(g)
  BY DEF Ordered
<1>3. \A i \in 1 .. Len(c) : c[i] = Answer(b[i])
  BY <1>1, <1>2 DEF Ordered
<1>4. ASSUME NEW i \in 1 .. Len(g) + 1 PROVE b[Len(c) + i] = h[i]
  <2>1. CASE i \in 1 .. Len(g)
    <3>1. Len(c) + i \in 1 .. Len(a) /\ a[Len(c) + i] = g[i]
      BY <1>1, <1>2, <2>1 DEF Ordered
    <3> QED BY <1>1, <2>1, <3>1
  <2>2. CASE i = Len(g) + 1
    <3>1. Len(c) + i = Len(a) + 1
      BY <1>1, <1>2, <2>2
    <3> QED BY <1>1, <2>2, <3>1
  <2> QED BY <1>1, <2>1, <2>2
<1>5. Ordered(b, c, h)
  BY <1>1, <1>2, <1>3, <1>4 DEF Ordered
<1> QED BY <1>5 DEF b, h

LEMMA ReplyStep ==
  ASSUME NEW a \in Seq(Questions), NEW c \in Seq(Answers), NEW g \in Seq(Questions),
         Ordered(a, c, g), g # <<>>, Answer(Head(g)) \in Answers
  PROVE  Ordered(a, Append(c, Answer(Head(g))), Tail(g))
<1> DEFINE f == Answer(Head(g))
           d == Append(c, f)
           t == Tail(g)
<1>1. /\ Len(a) \in Nat /\ Len(c) \in Nat /\ Len(g) \in Nat \ {0}
      /\ Len(d) = Len(c) + 1 /\ Len(t) = Len(g) - 1
      /\ d[Len(c) + 1] = f /\ \A i \in 1 .. Len(c) : d[i] = c[i]
      /\ Head(g) = g[1] /\ \A i \in 1 .. Len(g) - 1 : t[i] = g[i + 1]
  BY AppendProperties, HeadTailProperties
<1>2. Len(a) = Len(c) + Len(g) /\ a[Len(c) + 1] = g[1]
  BY <1>1 DEF Ordered
<1>3. d[Len(c) + 1] = Answer(a[Len(c) + 1])
  BY <1>1, <1>2
<1>4. \A i \in 1 .. Len(c) : c[i] = Answer(a[i])
  BY DEF Ordered
<1> HIDE DEF d, t, f
<1>5. \A i \in 1 .. Len(d) : d[i] = Answer(a[i])
  BY <1>1, <1>3, <1>4
<1>6. ASSUME NEW i \in 1 .. Len(t) PROVE a[Len(d) + i] = t[i]
  <2>1. i + 1 \in 1 .. Len(g) /\ i \in 1 .. Len(g) - 1 /\ Len(d) + i = Len(c) + (i + 1)
    BY <1>1
  <2>2. a[Len(c) + (i + 1)] = g[i + 1]
    BY <2>1 DEF Ordered
  <2> QED BY <1>1, <2>1, <2>2
<1>7. Len(a) = Len(d) + Len(t)
  BY <1>1, <1>2
<1>8. Ordered(a, d, t)
  BY <1>5, <1>6, <1>7 DEF Ordered
<1> QED BY <1>8 DEF d, t, f

LEMMA ReceiptStep ==
  ASSUME NEW a \in Seq(Questions), NEW c \in Seq(Answers), NEW g \in Seq(Questions),
         Ordered(a, c, g), c # <<>>
  PROVE  Ordered(Tail(a), Tail(c), g)
<1> DEFINE b == Tail(a)
           d == Tail(c)
<1>1. /\ Len(a) \in Nat /\ Len(g) \in Nat /\ Len(c) \in Nat \ {0}
      /\ Len(d) = Len(c) - 1 /\ \A i \in 1 .. Len(c) - 1 : d[i] = c[i + 1]
  BY HeadTailProperties
<1>2. Len(a) = Len(c) + Len(g)
  BY DEF Ordered
<1>3. /\ Len(b) = Len(a) - 1 /\ \A i \in 1 .. Len(a) - 1 : b[i] = a[i + 1]
  <2>1. Len(a) # 0 /\ Len(<<>>) = 0
    BY <1>1, <1>2
  <2>2. a # <<>>
    BY <2>1
  <2> QED BY <2>2, HeadTailProperties
<1> HIDE DEF b, d
<1>4. ASSUME NEW i \in 1 .. Len(d) PROVE d[i] = Answer(b[i])
  <2>1. i + 1 \in 1 .. Len(c) /\ i \in 1 .. Len(a) - 1 /\ i \in 1 .. Len(c) - 1
    BY <1>1, <1>2
  <2>2. c[i + 1] = Answer(a[i + 1])
    BY <2>1 DEF Ordered
  <2> QED BY <1>1, <1>3, <2>1, <2>2
<1>5. ASSUME NEW i \in 1 .. Len(g) PROVE b[Len(d) + i] = g[i]
  <2>1. Len(d) + i \in 1 .. Len(a) - 1 /\ (Len(d) + i) + 1 = Len(c) + i
    BY <1>1, <1>2
  <2>2. a[Len(c) + i] = g[i]
    BY DEF Ordered
  <2> QED BY <1>3, <2>1, <2>2
<1>6. Len(b) = Len(d) + Len(g)
  BY <1>1, <1>2, <1>3
<1>7. Ordered(b, d, g)
  BY <1>4, <1>5, <1>6 DEF Ordered
<1> QED BY <1>7 DEF b, d

\* What the questions and answers on their way are when the server queues a frame,
\* when it takes one from the channel, and when the client sends one.
LEMMA ComingFacts ==
  ASSUME Types, to_client' = to_client
  PROVE  /\ outgoing' = outgoing => Coming' = Coming
         /\ \A f \in ServerFrames :
              outgoing' = Append(outgoing, f) =>
                Coming' = IF f \in Answers THEN Append(Coming, f) ELSE Coming
<1>1. outgoing' = outgoing => Coming' = Coming
  BY DEF Coming, Downstream
<1>2. ASSUME NEW f \in ServerFrames, outgoing' = Append(outgoing, f)
      PROVE  Coming' = IF f \in Answers THEN Append(Coming, f) ELSE Coming
  <2>1. Downstream' = Append(Downstream, f)
    BY <1>2, Queued
  <2> QED BY <2>1, DownLonger DEF Coming
<1> QED BY <1>1, <1>2

LEMMA GoingFacts ==
  ASSUME Types
  PROVE  /\ \A type : Receives(type) =>
              IF type \in {"SETTINGS", "PING"}
              THEN Going # <<>> /\ Head(Going) = frame /\ Going' = Tail(Going)
              ELSE Going' = Going
         /\ \A f \in ClientFrames :
              to_server' = Append(to_server, f) =>
                Going' = IF f \in Questions THEN Append(Going, f) ELSE Going
<1>1. ASSUME NEW type, Receives(type)
      PROVE  IF type \in {"SETTINGS", "PING"}
             THEN Going # <<>> /\ Head(Going) = frame /\ Going' = Tail(Going)
             ELSE Going' = Going
  <2>1. frame \in ClientFrames /\ frame.type = type
        /\ to_server # <<>> /\ to_server' = Tail(to_server)
    BY <1>1, Taken
  <2>2. frame \in Questions <=> type \in {"SETTINGS", "PING"}
    BY <2>1, ClientFrame
  <2>3. /\ frame \in Questions =>
             Going # <<>> /\ Head(Going) = frame /\ Going' = Tail(Going)
        /\ frame \notin Questions => Going' = Going
    BY <2>1, Processed DEF Going
  <2> QED BY <2>2, <2>3
<1>2. ASSUME NEW f \in ClientFrames, to_server' = Append(to_server, f)
      PROVE  Going' = IF f \in Questions THEN Append(Going, f) ELSE Going
  BY <1>2, ClientSent DEF Going
<1> QED BY <1>1, <1>2

LEMMA AnswersStep ==
  ASSUME Types, AnswersOK, [Next]_vars
  PROVE  AnswersOK'
<1>1. awaiting \in Seq(Questions) /\ Coming \in Seq(Answers) /\ Going \in Seq(Questions)
  BY Channels DEF Types, Coming, Going
<1>2. ASSUME awaiting' = awaiting, Coming' = Coming, Going' = Going PROVE AnswersOK'
  BY <1>2 DEF AnswersOK
<1>3. CASE ProcessPreface
  <2>1. Settings(InitialWindow) \in ServerFrames /\ Settings(InitialWindow) \notin Answers
    BY Sendable, ServerFrame DEF Settings
  <2>2. Coming' = Coming
    BY <1>3, <2>1, ComingFacts DEF ProcessPreface
  <2> QED BY <1>2, <1>3, <2>2 DEF ProcessPreface, clientVars, Going
<1>4. CASE TakeOutgoing
  <2>1. Coming' = Coming
    BY <1>4, HandedOver DEF TakeOutgoing, Coming
  <2> QED BY <1>2, <1>4, <2>1 DEF TakeOutgoing, clientVars, Going
<1>5. CASE UNCHANGED vars
  BY <1>2, <1>5 DEF vars, serverVars, clientVars, Coming, Going, Downstream
<1>6. CASE ProcessSettings \/ ProcessPing
  <2>1. PICK type \in {"SETTINGS", "PING"} :
          Receives(type) /\ outgoing' = Append(outgoing, Answer(frame))
    BY <1>6, Taken DEF ProcessSettings, ProcessPing, Answer
  <2>2. Going # <<>> /\ Head(Going) = frame /\ Going' = Tail(Going)
    BY <2>1, GoingFacts
  <2>3. Answer(frame) \in Answers /\ Answer(frame) \in ServerFrames
    BY <2>1, Taken, ClientFrame, Sendable DEF Answer
  <2>4. Coming' = Append(Coming, Answer(frame))
    BY <2>1, <2>3, ComingFacts DEF Receives
  <2>5. awaiting' = awaiting
    BY <2>1 DEF Receives, clientVars
  <2> QED BY <1>1, <2>2, <2>3, <2>4, <2>5, ReplyStep DEF AnswersOK
<1>7. CASE ProcessSettingsAck \/ ProcessHeaders \/ ProcessData \/ ProcessWindowUpdate
             \/ ProcessGoAway \/ ProcessRstStream
  <2>1. PICK type : type \notin {"SETTINGS", "PING"} /\ Receives(type) /\ outgoing' = outgoing
    BY <1>7 DEF ProcessSettingsAck, ProcessHeaders, ProcessData, ProcessWindowUpdate,
                ProcessGoAway, ProcessRstStream
  <2> QED BY <1>2, <2>1, GoingFacts, ComingFacts DEF Receives, clientVars
<1>8. ASSUME NEW id \in StreamIds, NEW end \in BOOLEAN,
             SendHeaders(id, end) \/ \E len \in 0 .. 1 : SendData(id, len, end)
      PROVE  AnswersOK'
  <2>1. PICK f \in Carriers(id) : outgoing' = Append(outgoing, f)
    BY <1>8, Sendable DEF SendHeaders, SendData
  <2>2. f \in ServerFrames /\ f \notin Answers
    <3>1. f \in ServerFrames /\ f.type \in {"HEADERS", "DATA"}
      BY Sendable, StreamFrame DEF StreamFrames
    <3> QED BY <3>1, ServerFrame
  <2>3. UNCHANGED <<to_client, to_server, awaiting>>
    BY <1>8 DEF SendHeaders, SendData, clientVars
  <2> QED BY <1>2, <2>1, <2>2, <2>3, ComingFacts DEF Going
<1>9. ASSUME NEW f \in ClientFrames, f \notin Questions, Sends(f), awaiting' = awaiting
      PROVE  AnswersOK'
  BY <1>2, <1>9, GoingFacts, ComingFacts DEF Sends, serverVars
<1>10. ASSUME NEW f \in Questions, ClientAsks(f) PROVE AnswersOK'
  <2>1. f \in ClientFrames
    BY Sendable
  <2> QED BY <1>1, <1>10, <2>1, GoingFacts, ComingFacts, AskStep
          DEF ClientAsks, Sends, serverVars, AnswersOK
<1>11. ASSUME NEW id \in StreamIds,
              \/ \E end \in BOOLEAN :
                   ClientOpens(id, end) \/ \E len \in 0 .. 1 : ClientData(id, len, end)
              \/ ClientTrailers(id)
              \/ ClientResets(id)
       PROVE  AnswersOK'
  <2>1. PICK f \in StreamFrames(id) : Sends(f) /\ awaiting' = awaiting
    BY <1>11, Sendable DEF ClientOpens, ClientData, ClientTrailers, ClientResets
  <2>2. f \in ClientFrames /\ f \notin Questions
    BY Sendable, StreamFrame, ClientFrame
  <2> QED BY <1>9, <2>1, <2>2
<1>12. CASE ClientControls
  <2>1. budget \in 1 .. Budget
    BY <1>12, H2Assumption DEF ClientControls, Types
  <2>2. Ping(budget) \in Questions /\ \A value \in WindowSizes : Settings(value) \in Questions
    BY <2>1 DEF Questions
  <2>3. \A id \in StreamIds \cup {0} :
          WindowUpdate(id, 1) \in ClientFrames /\ WindowUpdate(id, 1) \notin Questions
    BY Sendable, ClientFrame DEF WindowUpdate
  <2>4. GoAway \in ClientFrames /\ GoAway \notin Questions
    BY Sendable, ClientFrame DEF GoAway
  <2> QED BY <1>9, <1>10, <1>12, <2>2, <2>3, <2>4 DEF ClientControls, ClientGrants
<1>13. CASE ClientReceives
  <2>1. /\ arrived \in ServerFrames
        /\ Downstream # <<>> /\ Head(Downstream) = arrived /\ Downstream' = Tail(Downstream)
    BY <1>13, Arrived DEF ClientReceives, serverVars
  <2>2. arrived \in Answers <=> arrived.type \in {"SETTINGS_ACK", "PING_ACK"}
    BY <2>1, ServerFrame
  <2>3. /\ arrived \in Answers => Coming # <<>> /\ Coming' = Tail(Coming)
        /\ arrived \notin Answers => Coming' = Coming
    BY <2>1, DownShorter DEF Coming
  <2>4. Going' = Going
    <3>1. SettingsAck \in ClientFrames /\ SettingsAck \notin Questions
      BY Sendable, ClientFrame DEF SettingsAck
    <3>2. to_server' = to_server => Going' = Going
      BY DEF Going
    <3> QED BY <1>13, <3>1, <3>2, GoingFacts DEF ClientReceives
  <2>5. awaiting' = IF arrived \in Answers THEN Tail(awaiting) ELSE awaiting
    BY <1>13, <2>2 DEF ClientReceives
  <2> QED BY <1>1, <1>2, <2>3, <2>4, <2>5, ReceiptStep DEF AnswersOK
<1> QED BY <1>3, <1>4, <1>5, <1>6, <1>7, <1>8, <1>11, <1>12, <1>13
        DEF Next, Server, ProcessFrame, Client

-----------------------------------------------------------------------------
(* The theorems. *)

LEMMA InitInvariant == Init => IInv
<1> SUFFICES ASSUME Init PROVE IInv
  OBVIOUS
<1>1. Types
  <2>1. InitialWindow \in I32 /\ InitialWindow \in 0 .. InitialWindow /\ InitialWindow \in Int
        /\ InitialWindow \in 0 .. MaxWindow /\ Budget \in 0 .. Budget
    BY H2Assumption DEF I32
  <2>2. "Idle" \in StreamStates
    BY DEF StreamStates
  <2>3. /\ streams \in [StreamIds -> [state : LiveStates, send_window : I32,
                                     recv_window : I32, body : Nat] \cup {NoStream}]
        /\ view \in [StreamIds -> StreamStates]
        /\ credit \in [StreamIds -> 0 .. InitialWindow]
    BY <2>1, <2>2 DEF Init
  <2>4. /\ outgoing \in Seq(ServerFrames) /\ to_server \in Seq(ClientFrames)
        /\ to_client \in Seq(ServerFrames) /\ awaiting \in Seq(Questions)
    BY EmptySeq DEF Init
  <2>5. last_stream_id \in StreamIds \cup {0}
    BY DEF Init
  <2> QED BY <2>1, <2>3, <2>4, <2>5 DEF Init, Types
<1>2. \A id : Up(id) = <<>> /\ Down(id) = <<>>
  BY MembersEmpty DEF Init, Up, Down, Downstream
<1>3. StreamsOK
  BY <1>2 DEF StreamsOK, StreamOK, UpInOrder, EndsMeet, DownInOrder, Ending, Resetting,
              Answering, RemoteDone, LocalDone, Range, Init, Has, NoStream
<1>4. \A ids : BytesOnTheWay(ids) = 0
  <2> TAKE ids
  <2>1. Lengths(<<>>, ids) = <<>>
    BY DEF Lengths
  <2>2. BytesOnTheWay(ids) = SumFunction(<<>>)
    BY <2>1 DEF Init, BytesOnTheWay, Lengths
  <2>3. <<>> \in Seq(Int)
    OBVIOUS
  <2> QED BY <2>2, <2>3, SumOfSeq
<1>5. WindowsOK
  BY <1>4, H2Assumption DEF WindowsOK, WindowOK, Init, Has, NoStream
<1>6. AnswersOK
  <2>1. Coming = <<>> /\ Going = <<>> /\ awaiting = <<>>
    BY MembersEmpty DEF Init, Coming, Going, Downstream
  <2>2. Len(<<>>) = 0 /\ 1 .. 0 = {}
    OBVIOUS
  <2> QED BY <2>1, <2>2 DEF AnswersOK, Ordered
<1> QED BY <1>1, <1>3, <1>5, <1>6 DEF IInv

\* The inductive invariant holds in every state: what the two ends and the frames
\* between them have to do with each other, whatever crossed on the way.
THEOREM Invariant == Spec => []IInv
<1>1. IInv /\ [Next]_vars => IInv'
  BY TypesStep, StreamsStep, WindowsStep, AnswersStep DEF IInv
<1> QED BY <1>1, InitInvariant, PTL DEF Spec

\* The variables keep their types; the windows stay in i32.
THEOREM TypesCorrect == Spec => []TypeOK
<1>1. IInv => TypeOK
  <2> SUFFICES ASSUME IInv PROVE TypeOK
    OBVIOUS
  <2>1. Types
    BY DEF IInv
  <2>2. streams \in [StreamIds -> StreamType \cup {NoStream}]
    BY <2>1 DEF Types, StreamType, LiveStates
  <2>3. \A f \in ClientFrames \cup ServerFrames : f.type \in FrameTypes
    BY ClientFrame, ServerFrame
  <2>4. \A X : \A channel \in Seq(X) : \A i \in DOMAIN channel : channel[i] \in X
    OBVIOUS
  <2>5. Questions \subseteq ClientFrames
    BY Sendable
  <2>6. /\ \A i \in DOMAIN outgoing : outgoing[i].type \in FrameTypes
        /\ \A i \in DOMAIN to_server : to_server[i].type \in FrameTypes
        /\ \A i \in DOMAIN to_client : to_client[i].type \in FrameTypes
        /\ \A i \in DOMAIN awaiting : awaiting[i].type \in FrameTypes
    <3>1. /\ \A i \in DOMAIN outgoing : outgoing[i] \in ServerFrames
          /\ \A i \in DOMAIN to_server : to_server[i] \in ClientFrames
          /\ \A i \in DOMAIN to_client : to_client[i] \in ServerFrames
          /\ \A i \in DOMAIN awaiting : awaiting[i] \in Questions
      BY <2>1, <2>4 DEF Types
    <3> QED BY <2>3, <2>5, <3>1
  <2> QED BY <2>1, <2>2, <2>6 DEF Types, TypeOK
<1> QED BY <1>1, Invariant, PTL

\* Once every frame has arrived both ends agree on every stream, in whatever order
\* requests, responses, trailers and resets crossed (stream.rs lines 63-92).
THEOREM ViewsAgreeAlways == Spec => []ViewsAgree
<1>1. IInv => ViewsAgree
  <2> SUFFICES ASSUME IInv, to_server = <<>>, Downstream = <<>>, NEW id \in StreamIds
               PROVE  IF view[id] = "Idle" THEN ~Has(id)
                      ELSE Has(id) /\ streams[id].state = Mirrored(view[id])
    BY DEF ViewsAgree
  <2>1. Up(id) = <<>> /\ Down(id) = <<>>
    BY MembersEmpty DEF Up, Down
  <2>2. ~Ending(id) /\ ~Answering(id) /\ ~Resetting(id)
    BY <2>1 DEF Ending, Answering, Resetting, Range
  <2>3. EndsMeet(id) /\ Types
    BY DEF IInv, StreamsOK, StreamOK
  <2>4. view[id] \in StreamStates /\ (Has(id) => streams[id].state \in LiveStates)
    BY <2>3, InMap DEF Types
  <2> QED BY <2>1, <2>2, <2>3, <2>4
          DEF EndsMeet, RemoteDone, LocalDone, Mirrored, LiveStates, StreamStates
<1> QED BY <1>1, Invariant, PTL

\* Nothing follows END_STREAM on its way to the client, nor reaches a stream that the
\* client has seen ended (connection.rs lines 215-247).
THEOREM EndIsLastAlways == Spec => []EndIsLast
<1>1. IInv => EndIsLast
  <2> SUFFICES ASSUME IInv, NEW id \in StreamIds, NEW j \in DOMAIN Downstream,
                      AboutStream(Downstream[j], id)
               PROVE  /\ view[id] # "HalfClosedRemote"
                      /\ \A i \in 1 .. j - 1 :
                           AboutStream(Downstream[i], id) => ~Downstream[i].end
    BY DEF EndIsLast
  <2>1. Types /\ DownInOrder(id)
    BY DEF IInv, StreamsOK, StreamOK
  <2>2. /\ Downstream \in Seq(ServerFrames) /\ DOMAIN Downstream = 1 .. Len(Downstream)
        /\ Len(Downstream) \in Nat
        /\ Down(id) \in Seq(Carriers(id)) /\ DOMAIN Down(id) = 1 .. Len(Down(id))
        /\ Len(Down(id)) \in Nat
    BY <2>1, Channels
  <2>3. \A i \in DOMAIN Downstream :
          Downstream[i] \in Carriers(id) <=> AboutStream(Downstream[i], id)
    BY <2>2, ServerFrame
  <2>4. \E m \in DOMAIN Down(id) : Down(id)[m] = Downstream[j]
    <3>1. AllKept(Down(id), Downstream, Carriers(id))
      BY <2>2, MembersOrder DEF Down
    <3> QED BY <2>3, <3>1 DEF AllKept
  <2>5. ASSUME NEW i \in 1 .. j - 1, AboutStream(Downstream[i], id)
        PROVE  ~Downstream[i].end
    <3>1. i \in DOMAIN Downstream /\ i < j
      BY <2>2
    <3>2. \E k, m \in DOMAIN Down(id) : k < m /\ Down(id)[k] = Downstream[i]
      <4>1. Downstream[i] \in Carriers(id) /\ Downstream[j] \in Carriers(id)
        BY <2>3, <2>5, <3>1
      <4>2. KeptInOrder(Down(id), Downstream, Carriers(id))
        BY <2>2, MembersOrder DEF Down
      <4> QED BY <3>1, <4>1, <4>2 DEF KeptInOrder
    <3>3. PICK k \in DOMAIN Down(id), m \in DOMAIN Down(id) :
            k < m /\ Down(id)[k] = Downstream[i]
      BY <3>2
    <3>4. k \in 1 .. m - 1
      BY <2>2, <3>3
    <3> QED BY <2>1, <3>3, <3>4 DEF DownInOrder
  <2> QED BY <2>1, <2>4, <2>5 DEF DownInOrder
<1> QED BY <1>1, Invariant, PTL

\* Each SETTINGS and PING is answered once and in order (connection.rs, handle_settings
\* and handle_ping).
THEOREM AnswersInOrderAlways == Spec => []AnswersInOrder
<1>1. IInv => AnswersInOrder
  <2> SUFFICES ASSUME IInv PROVE AnswersInOrder
    OBVIOUS
  <2>1. Ordered(awaiting, Coming, Going)
    BY DEF IInv, AnswersOK
  <2>2. awaiting \in Seq(Questions) /\ Coming \in Seq(Answers) /\ Going \in Seq(Questions)
    BY Channels DEF IInv, Types, Coming, Going
  <2> DEFINE X == {Answer(q) : q \in Questions} \cup Answers
             waiting == Answered(awaiting)
             replies == Answered(Going)
             whole == Coming \o replies
  <2>3. \A s \in Seq(Questions) :
          /\ Answered(s) \in Seq(X) /\ Len(Answered(s)) = Len(s)
          /\ \A i \in 1 .. Len(s) : Answered(s)[i] = Answer(s[i])
    <3> TAKE s \in Seq(Questions)
    <3>1. DOMAIN s = 1 .. Len(s) /\ Len(s) \in Nat /\ \A i \in 1 .. Len(s) : s[i] \in Questions
      OBVIOUS
    <3>2. /\ Answered(s) = [i \in 1 .. Len(s) |-> Answer(s[i])]
          /\ \A i \in 1 .. Len(s) : Answer(s[i]) \in X
      BY <3>1 DEF Answered
    <3> HIDE DEF X
    <3> QED BY <3>1, <3>2
  <2> HIDE DEF X
  <2>4. Coming \in Seq(X)
    BY <2>2, SeqMonotonic DEF X
  <2>5. /\ Len(whole) = Len(Coming) + Len(Going) /\ whole \in Seq(X)
        /\ \A i \in 1 .. Len(Coming) : whole[i] = Coming[i]
        /\ \A i \in 1 .. Len(Going) : whole[Len(Coming) + i] = Answer(Going[i])
        /\ Len(Coming) \in Nat /\ Len(Going) \in Nat
    <3>1. replies \in Seq(X) /\ Len(replies) = Len(Going)
          /\ \A i \in 1 .. Len(Going) : replies[i] = Answer(Going[i])
      BY <2>2, <2>3
    <3>2. Len(Coming) \in Nat /\ Len(Going) \in Nat
      BY <2>2
    <3> HIDE DEF replies
    <3>3. /\ whole \in Seq(X) /\ Len(whole) = Len(Coming) + Len(replies)
          /\ \A i \in 1 .. Len(Coming) + Len(replies) :
               whole[i] = IF i <= Len(Coming) THEN Coming[i] ELSE replies[i - Len(Coming)]
      BY <2>4, <3>1, ConcatProperties
    <3>4. ASSUME NEW i \in 1 .. Len(Going) PROVE whole[Len(Coming) + i] = replies[i]
      <4>1. /\ Len(Coming) + i \in 1 .. Len(Coming) + Len(replies)
            /\ ~(Len(Coming) + i <= Len(Coming)) /\ (Len(Coming) + i) - Len(Coming) = i
        BY <3>1, <3>2
      <4> HIDE DEF whole
      <4> QED BY <3>3, <4>1
    <3> HIDE DEF whole
    <3> QED BY <3>1, <3>2, <3>3, <3>4
  <2>6. /\ waiting \in Seq(X) /\ Len(waiting) = Len(awaiting)
        /\ \A i \in 1 .. Len(awaiting) : waiting[i] = Answer(awaiting[i])
        /\ Len(awaiting) = Len(Coming) + Len(Going)
    BY <2>1, <2>2, <2>3 DEF Ordered
  <2> HIDE DEF whole, waiting
  <2>7. ASSUME NEW i \in 1 .. Len(awaiting) PROVE waiting[i] = whole[i]
    <3>1. CASE i \in 1 .. Len(Coming)
      BY <2>1, <2>5, <2>6, <3>1 DEF Ordered
    <3>2. CASE i \notin 1 .. Len(Coming)
      <4>1. i - Len(Coming) \in 1 .. Len(Going) /\ Len(Coming) + (i - Len(Coming)) = i
        BY <2>5, <2>6, <3>2
      <4>2. awaiting[i] = Going[i - Len(Coming)]
        BY <2>1, <4>1 DEF Ordered
      <4>3. whole[i] = Answer(Going[i - Len(Coming)])
        BY <2>5, <4>1
      <4> QED BY <2>6, <4>2, <4>3
    <3> QED BY <3>1, <3>2
  <2>8. waiting = whole
    BY <2>5, <2>6, <2>7, SeqEqual
  <2> QED BY <2>8 DEF AnswersInOrder, Coming, Going, whole, waiting, replies
<1> QED BY <1>1, Invariant, PTL

\* The receive windows are what the client may still send plus what is on its way: no
\* DATA is ignored, counted twice or counted on one window only (connection.rs lines
\* 172-180).
THEOREM ReceiveWindowsAlwaysAgree == Spec => []ReceiveWindowsAgree
<1>1. IInv => ReceiveWindowsAgree
  BY DEF IInv, WindowsOK, WindowOK, ReceiveWindowsAgree
<1> QED BY <1>1, Invariant, PTL

\* How far a stream has come in each of its states.
LEMMA RankFacts ==
  /\ Rank("none") = 0 /\ Rank("Open") = 2
  /\ Rank("HalfClosedLocal") = 3 /\ Rank("HalfClosedRemote") = 3 /\ Rank("Closed") = 4
BY DEF Rank

\* A stream never goes back and stays in the map, whatever frames arrive late or again
\* (stream.rs line 64).
THEOREM StreamsAlwaysAdvance == Spec => StreamsAdvance
<1> DEFINE Advances(id) ==
             \/ streams'[id].state = streams[id].state
             \/ Rank(streams'[id].state) > Rank(streams[id].state)
<1>1. IInv /\ [Next]_vars => \A id \in StreamIds : Advances(id)
  <2> SUFFICES ASSUME IInv, [Next]_vars PROVE \A id \in StreamIds : Advances(id)
    OBVIOUS
  <2>1. Types /\ StreamsOK
    BY DEF IInv
  <2>2. \A id \in StreamIds :
          streams[id].state \in {"none", "Open", "HalfClosedLocal", "HalfClosedRemote", "Closed"}
    BY <2>1, InMap DEF LiveStates, StreamStates
  <2>3. CASE UNCHANGED streams
    BY <2>3
  <2>4. CASE ProcessSettings
    BY <2>1, <2>4, SettingsStreams
  <2>5. CASE ProcessWindowUpdate
    BY <2>1, <2>5, GrantStreams
  <2>6. CASE ProcessHeaders
    <3>1. PICK id \in StreamIds : id = frame.id
      BY <2>1, <2>6, Taken, ClientFrame DEF ProcessHeaders
    <3>2. /\ LET open == IF Has(id) THEN streams[id].state ELSE "Open"
             IN  streams'[id].state = IF frame.end THEN HalfClosedRemote(open) ELSE open
          /\ \A other \in StreamIds \ {id} : streams'[other] = streams[other]
      BY <2>1, <2>6, <3>1, HeadersStreams
    <3>3. Has(id) <=> streams[id].state # "none"
      BY <2>1, InMap
    <3>4. Advances(id)
      BY <2>2, <3>2, <3>3, RankFacts DEF HalfClosedRemote
    <3> QED BY <3>2, <3>4
  <2>7. CASE ProcessData
    <3>1. PICK id \in StreamIds : id = frame.id
      BY <2>1, <2>7, Taken, ClientFrame DEF ProcessData
    <3>2. CASE Has(id) /\ CanReceive(streams[id].state)
      <4>1. /\ streams'[id].state = IF frame.end THEN HalfClosedRemote(streams[id].state)
                                                 ELSE streams[id].state
            /\ \A other \in StreamIds \ {id} : streams'[other] = streams[other]
        BY <2>1, <2>7, <3>1, <3>2, DataStreams
      <4>2. Advances(id)
        BY <2>2, <4>1, RankFacts DEF HalfClosedRemote
      <4> QED BY <4>1, <4>2
    <3>3. CASE ~(Has(id) /\ CanReceive(streams[id].state))
      BY <2>3, <2>7, <3>1, <3>3 DEF ProcessData, Target
    <3> QED BY <3>2, <3>3
  <2>8. CASE ProcessRstStream
    <3>1. PICK id \in StreamIds : id = frame.id
      BY <2>1, <2>8, Taken, ClientFrame DEF ProcessRstStream
    <3>2. CASE Has(id)
      <4>1. /\ streams'[id].state = "Closed"
            /\ \A other \in StreamIds \ {id} : streams'[other] = streams[other]
        BY <2>1, <2>8, <3>1, <3>2, ResetStreams
      <4>2. Advances(id)
        BY <2>2, <4>1, RankFacts
      <4> QED BY <4>1, <4>2
    <3>3. CASE ~Has(id)
      BY <2>3, <2>8, <3>1, <3>3 DEF ProcessRstStream
    <3> QED BY <3>2, <3>3
  <2>9. ASSUME NEW id \in StreamIds, NEW end \in BOOLEAN,
               SendHeaders(id, end) \/ \E len \in 0 .. 1 : SendData(id, len, end)
        PROVE  \A other \in StreamIds : Advances(other)
    <3>1. streams[id] \in LiveStream
      BY <2>1, <2>9, InMap DEF SendHeaders, SendData, LiveStream
    <3>2. /\ \/ streams'[id].state = streams[id].state
             \/ streams'[id].state = HalfClosedLocal(streams[id].state)
          /\ \A other \in StreamIds \ {id} : streams'[other] = streams[other]
      BY <2>1, <2>9, <3>1 DEF SendHeaders, SendData, Types, LiveStream
    <3>3. Advances(id)
      BY <2>2, <3>2, RankFacts DEF HalfClosedLocal
    <3> QED BY <3>2, <3>3
  <2>10. Client => UNCHANGED streams
    BY DEF Client, ClientOpens, ClientData, ClientTrailers, ClientResets, ClientControls,
           ClientAsks, ClientGrants, ClientReceives, Sends, serverVars
  <2>11. ProcessPreface \/ TakeOutgoing \/ ProcessSettingsAck \/ ProcessPing \/ ProcessGoAway
           \/ UNCHANGED vars => UNCHANGED streams
    BY DEF ProcessPreface, TakeOutgoing, ProcessSettingsAck, ProcessPing, ProcessGoAway,
           vars, serverVars
  <2> HIDE DEF Advances
  <2> QED BY <2>3, <2>4, <2>5, <2>6, <2>7, <2>8, <2>9, <2>10, <2>11
          DEF Next, Server, ProcessFrame
<1>2. IInv /\ [Next]_vars => [\A id \in StreamIds : Advances(id)]_vars
  BY <1>1
<1> QED BY <1>2, Invariant, PTL DEF Spec, StreamsAdvance
=============================================================================
