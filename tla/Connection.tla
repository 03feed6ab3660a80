------------------------------ MODULE Connection -----------------------------
(***************************************************************************)
(* What both variants of the stages (Pipeline, Phase1) have in common: the *)
(* state of a connection (conn.rs), the routes and their responses.        *)
(*                                                                         *)
(* A request is one of Asks and reaches the server in Segments pieces; a   *)
(* response is a sequence of chunks <<route, n>>.                          *)
(***************************************************************************)
EXTENDS ConnSlab

CONSTANTS
    Clients,         \* the peers; each connects at most once
    Asks,            \* what they may ask, a subset of AllAsks
    Segments,        \* pieces in which a request arrives
    SendBuffer       \* chunks that a fresh socket takes before WouldBlock

\* Well-formed requests for a page or for none, one with a character that the pieces
\* cut in two, one without header fields, and one that is malformed.
AllAsks == {"root", "api", "health", "other", "cut", "bare", "malformed"}

ASSUME ConnectionAssumption ==
    /\ Asks \subseteq AllAsks
    /\ Segments \in Nat \ {0}
    /\ SendBuffer \in Nat \ {0}

None == "none"

\* Mutant of NewConn: the state starts at Parsing, which no stage leaves.
NewConnParsing(c) ==
    [client |-> c, state |-> "Parsing", read_buf |-> 0,
     request_path |-> None, route_id |-> None, write_buf |-> <<>>,
     bytes_written |-> 0]

\* ConnState::new.  read_buf counts the pieces of the request read so far.
NewConn(c) ==
    [client |-> c, state |-> "WaitingForRequest", read_buf |-> 0,
     request_path |-> None, route_id |-> None, write_buf |-> <<>>,
     bytes_written |-> 0]

\* The landing page is larger than a socket buffer, the other bodies are not.
ChunksOf(route) == IF route = "hello" THEN SendBuffer + 1 ELSE 1

\* What a handler appends to write_buf (handlers.rs).
ResponseOf(route) == [n \in 1 .. ChunksOf(route) |-> <<route, n>>]

\* Mutant of RouteOf: the two routes are swapped.
RouteOfSwapped(path) ==
    CASE path = "root" -> "json" [] path = "api" -> "hello" [] OTHER -> "not_found"

\* stage.rs lines 298-302: "/" is RouteId(0), "/api/test" is RouteId(1) and
\* everything else RouteId(999).
RouteOf(path) ==
    CASE path = "root" -> "hello" [] path = "api" -> "json" [] OTHER -> "not_found"

Unsent(conn) == Len(conn.write_buf) - conn.bytes_written

Lifecycle == {"WaitingForRequest", "Routed", "Processing", "Sending", "Closed"}
Chunks == {"hello", "json", "not_found"} \X (1 .. SendBuffer + 1)

ConnType ==
    [client : Clients, state : Lifecycle, read_buf : 0 .. Segments,
     request_path : Asks \cup {None},
     route_id : {"hello", "json", "not_found", None},
     write_buf : Seq(Chunks), bytes_written : Nat]

ASSUME NoConnAssumption == NoConn \notin ConnType

-----------------------------------------------------------------------------
\* What HttpParser::parse may make of the first n pieces of a request.  Text that is
\* not UTF-8 is Invalid at once: that of a malformed request, or a well-formed one as
\* long as its last character is not whole.  Without header fields the end of the
\* request line is never found.
ParseOf(ask, n) ==
    IF n < Segments
    THEN IF n > 0 /\ ask \in {"cut", "malformed"} THEN {"Incomplete", "Invalid"}
                                                 ELSE {"Incomplete"}
    ELSE CASE ask = "malformed" -> {"Invalid"}
           [] ask = "bare" -> {"Incomplete"}
           [] OTHER -> {"Ok"}

-----------------------------------------------------------------------------
(* What a client may expect. *)

\* The server can make sense of the whole of the request.
Parsable(ask) == "Ok" \in ParseOf(ask, Segments)


IsPrefixOf(a, b) == Len(a) <= Len(b) /\ a = SubSeq(b, 1, Len(a))

\* The pages of README.md lines 264-265; any other path has none.
Promised == [root |-> "hello", api |-> "json"]
PromisedTo(ask) == IF ask \in DOMAIN Promised THEN Promised[ask] ELSE "not_found"
=============================================================================
