------------------------------ MODULE Mt5Bridge ------------------------------
(***************************************************************************)
(* The line protocol between the engine and MetaTrader 5: the engine is    *)
(* the server (venue/mt5/bridge.rs), the expert advisor the client         *)
(* (scripts/mt5/MemosBridge.mq5).  Requests go one at a time over the one  *)
(* connection; a request that fails drops it, and the next one accepts the *)
(* connection the advisor makes anew.  A line may arrive in two pieces, a  *)
(* wait may time out while the answer is under way, and the advisor may be *)
(* restarted at any time.                                                  *)
(***************************************************************************)
EXTENDS Integers, Sequences

CONSTANTS Callers, Requests, Links      \* Requests and Links bound the requests and connections

BridgeAssumption == Requests \in Nat /\ Links \in Nat

VARIABLES
    request,          \* caller -> the request it has under way
    conn,             \* the accepted connection, 0 for none
    backlog,          \* connections made and not accepted yet
    wire,             \* link -> pieces of lines on their way to the advisor
    replies,          \* link -> replies on their way back
    dropped,          \* links the bridge has closed
    closed,           \* links the advisor has closed
    sock,             \* the advisor's connection, 0 for none
    buf,              \* g_buf: the pieces the advisor has read
    written,          \* the requests put on the wire, in order (history)
    executed,         \* the requests carried out, in order (history)
    answer,           \* request -> 0, Failed or the request its reply was for
    asked, linked     \* how many requests and links there have been

bridgeVars == <<request, conn, backlog, wire, replies, dropped, closed, sock, buf, written,
                executed, answer, asked, linked>>
eaVars == <<closed, sock, buf, executed, linked>>

Idle == [at |-> "idle", id |-> 0]
Ids == 1 .. Requests
Failed == -1
Line(id) == <<[id |-> id, end |-> FALSE], [id |-> id, end |-> TRUE]>>
\* The mutex around the connection is held from its acquisition to the end of the request.
Locked == \E c \in Callers : request[c].at \in {"accept", "write", "read"}

Init ==
    /\ request = [c \in Callers |-> Idle] /\ conn = 0 /\ backlog = <<>>
    /\ wire = [l \in 1 .. Links |-> <<>>] /\ replies = [l \in 1 .. Links |-> <<>>]
    /\ dropped = {} /\ closed = {} /\ sock = 0 /\ buf = <<>>
    /\ written = <<>> /\ executed = <<>> /\ answer = [i \in Ids |-> 0]
    /\ asked = 0 /\ linked = 0

-----------------------------------------------------------------------------
\* The bridge

Call(c) ==
    /\ request[c] = Idle /\ asked < Requests
    /\ asked' = asked + 1
    /\ request' = [request EXCEPT ![c] = [at |-> "lock", id |-> asked + 1]]
    /\ UNCHANGED <<conn, backlog, wire, replies, dropped, written, answer, eaVars>>

Lock(c) ==
    /\ request[c].at = "lock" /\ ~Locked
    /\ request' = [request EXCEPT ![c].at = IF conn = 0 THEN "accept" ELSE "write"]
    /\ UNCHANGED <<conn, backlog, wire, replies, dropped, written, answer, asked, eaVars>>

\* The first connection that waits, though the advisor may have left it by now.
Accept(c) ==
    /\ request[c].at = "accept" /\ backlog # <<>>
    /\ conn' = Head(backlog) /\ backlog' = Tail(backlog)
    /\ request' = [request EXCEPT ![c].at = "write"]
    /\ UNCHANGED <<wire, replies, dropped, written, answer, asked, eaVars>>

Finish(c, result) ==
    /\ answer' = [answer EXCEPT ![request[c].id] = result]
    /\ request' = [request EXCEPT ![c] = Idle]

AcceptTimeout(c) ==
    /\ request[c].at = "accept" /\ backlog = <<>>
    /\ Finish(c, Failed)
    /\ UNCHANGED <<conn, backlog, wire, replies, dropped, written, asked, eaVars>>

Write(c) ==
    /\ request[c].at = "write"
    /\ wire' = IF conn \in closed THEN wire ELSE [wire EXCEPT ![conn] = @ \o Line(request[c].id)]
    /\ written' = Append(written, request[c].id)
    /\ request' = [request EXCEPT ![c].at = "read"]
    /\ UNCHANGED <<conn, backlog, replies, dropped, answer, asked, eaVars>>

Read(c) ==
    /\ request[c].at = "read" /\ replies[conn] # <<>>
    /\ replies' = [replies EXCEPT ![conn] = Tail(@)]
    /\ Finish(c, Head(replies[conn]))
    /\ UNCHANGED <<conn, backlog, wire, dropped, written, asked, eaVars>>

\* Mutant: a request that fails leaves the connection to the next one.
FailKeepsConn(c) ==
    /\ \/ request[c].at = "write" /\ conn \in closed
       \/ request[c].at = "read" /\ replies[conn] = <<>>
    /\ Finish(c, Failed)
    /\ UNCHANGED <<conn, dropped, backlog, wire, replies, written, asked, eaVars>>

\* Mutant: a request that fails is sent again over the next connection.
FailRetries(c) ==
    /\ \/ request[c].at = "write" /\ conn \in closed
       \/ request[c].at = "read" /\ replies[conn] = <<>>
    /\ request' = [request EXCEPT ![c].at = "lock"]
    /\ conn' = 0 /\ dropped' = dropped \cup {conn}
    /\ UNCHANGED <<answer, backlog, wire, replies, written, asked, eaVars>>

\* The write is refused, the reader times out or finds the end: the socket is dropped.
Fail(c) ==
    /\ \/ request[c].at = "write" /\ conn \in closed
       \/ request[c].at = "read" /\ replies[conn] = <<>>
    /\ Finish(c, Failed)
    /\ conn' = 0 /\ dropped' = dropped \cup {conn}
    /\ UNCHANGED <<backlog, wire, replies, written, asked, eaVars>>

-----------------------------------------------------------------------------
\* The advisor

Lines == {i \in DOMAIN buf : buf[i].end}

\* A socket found dead is closed with what was read of a line, and a new one connected, to
\* a listener that is bound by the first request.
EnsureConnected ==
    /\ linked < Links /\ asked > 0 /\ Lines = {}
    /\ sock = 0 \/ sock \in dropped
    /\ linked' = linked + 1 /\ sock' = linked + 1
    /\ closed' = IF sock = 0 THEN closed ELSE closed \cup {sock}
    /\ buf' = <<>>
    /\ backlog' = Append(backlog, linked + 1)
    /\ UNCHANGED <<request, conn, wire, replies, dropped, written, executed, answer, asked>>

\* What has arrived so far, which may end within a line; bytes of a socket the bridge has
\* dropped may still be read.
DrainSocket ==
    /\ sock # 0 /\ Lines = {}
    /\ \E n \in 1 .. Len(wire[sock]) :
         /\ buf' = buf \o SubSeq(wire[sock], 1, n)
         /\ wire' = [wire EXCEPT ![sock] = SubSeq(@, n + 1, Len(@))]
    /\ UNCHANGED <<request, conn, backlog, replies, dropped, closed, sock, written, executed,
                   answer, asked, linked>>

\* The line up to the first newline is carried out, whoever still waits for it, and the
\* first id found in it is answered.
HandleRequest ==
    /\ Lines # {}
    /\ LET end == CHOOSE i \in Lines : \A j \in Lines : i <= j
           id == buf[1].id
       IN  /\ executed' = Append(executed, id)
           /\ buf' = SubSeq(buf, end + 1, Len(buf))
           /\ replies' = IF sock \in dropped THEN replies ELSE [replies EXCEPT ![sock] = Append(@, id)]
    /\ UNCHANGED <<request, conn, backlog, wire, dropped, closed, sock, written, answer, asked, linked>>

\* OnDeinit or the terminal is killed, and OnInit at once or later.
Deinit ==
    /\ sock # 0
    /\ closed' = closed \cup {sock} /\ sock' = 0 /\ buf' = <<>>
    /\ UNCHANGED <<request, conn, backlog, wire, replies, dropped, written, executed, answer,
                   asked, linked>>

Next ==
    \/ \E c \in Callers :
         \/ Call(c) \/ Lock(c) \/ Accept(c) \/ AcceptTimeout(c) \/ Write(c) \/ Read(c) \/ Fail(c)
    \/ EnsureConnected \/ DrainSocket \/ HandleRequest \/ Deinit

Spec == Init /\ [][Next]_bridgeVars

-----------------------------------------------------------------------------

TypeOK ==
    /\ \A c \in Callers : request[c].at \in {"idle", "lock", "accept", "write", "read"}
    /\ {conn, sock} \subseteq 0 .. Links
    /\ dropped \cup closed \subseteq 1 .. Links
    /\ answer \in [Ids -> Ids \cup {0, Failed}]

Service == INSTANCE RequestService WITH sent <- written

\* Whatever is cut off, late, dropped or restarted, the callers see a service that sends a
\* request once, carries out what was sent once and in order, and answers a request only
\* after it has been carried out, with its own answer.
ServesRequests == Service!Spec

\* A reply is the reply to the request it is handed to, whatever timed out before it.
AnswerIsOwn == \A i \in Ids : answer[i] \in {0, Failed, i}

\* Orders are carried out in the order they were sent and none of them twice, though some
\* after their request has failed.
ExecutedInOrder ==
    \A i, j \in DOMAIN executed : i < j => executed[i] # executed[j] /\
      \E m, n \in DOMAIN written : m < n /\ written[m] = executed[i] /\ written[n] = executed[j]

=============================================================================
