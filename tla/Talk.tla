-------------------------------- MODULE Talk --------------------------------
(***************************************************************************)
(* One conversation over a TCP connection: client.c, or another client, on *)
(* one side; on the other what request.c makes of the bytes, through the   *)
(* Rio functions and wrappers of cs537.c that both sides use.  The streams *)
(* hand over as many bytes at a time as they like.  How the server's       *)
(* threads pass the connection on is the matter of Server.                 *)
(*                                                                         *)
(* A byte is a string; CR and LF end lines, and the first byte of a        *)
(* request stands for its method and uri.                                  *)
(*                                                                         *)
(* Definitions named "..._bug" are deviations a careless edit could make;  *)
(* each stands before the definition it would replace and is used nowhere. *)
(***************************************************************************)
EXTENDS Integers, FiniteSets, SequencesExt

CONSTANTS
  Requests,     \* [bytes : Seq, polite : BOOLEAN, answer : the outcome]; a polite
                \* client reads to the end of file; outcomes are below
  MAXLINE,      \* room for a line and its NUL, in the server and the client
  RIO_BUFSIZE,  \* what a rio_t buffers
  SendBuffer    \* what the kernel holds of a stream

\* The outcome of stat in requestPreProcess for a GET request.
Answers == {"static", "dynamic", "missing"}
GET == "g"
CR == "\r"
LF == "\n"
BLANK == <<CR, LF>>
Reader == {"client", "server"}
Writer == Reader \cup {"cgi"}
Other(s) == IF s = "client" THEN "server" ELSE "client"

ASSUME TalkAssumption ==
  /\ \A r \in Requests : /\ r.bytes \in Seq(STRING) /\ r.bytes # <<>>
                         /\ r.polite \in BOOLEAN /\ r.answer \in Answers
  /\ MAXLINE \in Nat \ {0, 1, 2} /\ RIO_BUFSIZE \in Nat \ {0} /\ SendBuffer \in Nat \ {0}

VARIABLES
  asks,      \* the request
  listener,  \* the listening socket: "none", "bound", "listening"
  client,    \* where the client is, "done", or "failed" if a wrapper ended it
  server,    \* where the server is with this connection; "killed" or "exit" if
             \* the process ended
  net,       \* net[s]: bytes in the kernel on their way to s
  holds,     \* the processes with the connection open
  reset,     \* the connection was reset: data was lost
  todo,      \* todo[w]: what rio_writen of w has left to write
  rio,       \* rio[s]: the unread bytes of the rio_t of s
  usrbuf,    \* usrbuf[s]: the line rio_readlineb of s is filling
  said,      \* history: all that was to be written to s
  lines      \* history: the lines rio_readlineb delivered to s

talk == <<net, holds, reset, todo, said>>
read == <<rio, usrbuf, lines>>
vars == <<asks, listener, client, server, talk, read>>

Up(w) == CASE w = "client" -> client \in {"header", "body"}
           [] w = "server" -> server \notin {"down", "killed", "exit"}
           [] OTHER        -> TRUE
Peer(w) == IF w = "client" THEN {"server", "cgi"} ELSE {"client"}
PeerGone(s) == holds \cap Peer(s) = {}

-----------------------------------------------------------------------------
(* rio_writen and rio_read; a read or write that returns EINTR is tried     *)
(* again and is not a step.                                                *)

\* Begin to write message to the other side.
Say(w, message) ==
  /\ todo' = [todo EXCEPT ![w] = message]
  /\ said' = [said EXCEPT ![Other(w)] = @ \o message]

Advance_bug(left, k) == left     \* after a short write, the same bytes again
Advance(left, k) == SubSeq(left, k + 1, Len(left))

\* write takes some of the bytes.  A peer that has gone answers with a reset.
WriteSome(w) ==
  /\ Up(w) /\ todo[w] # <<>> /\ ~reset
  /\ \E k \in 1..Len(todo[w]) :
       /\ PeerGone(w) \/ Len(net[Other(w)]) + k <= SendBuffer
       /\ todo' = [todo EXCEPT ![w] = Advance(@, k)]
       /\ net' = IF PeerGone(w) THEN net
                 ELSE [net EXCEPT ![Other(w)] = @ \o SubSeq(todo[w], 1, k)]
  /\ reset' = PeerGone(w)
  /\ UNCHANGED <<asks, listener, client, server, holds, said, read>>

\* Nobody ignores SIGPIPE: to write to a reset connection kills the process.
WriteKills(w) ==
  /\ Up(w) /\ todo[w] # <<>> /\ reset
  /\ todo' = [todo EXCEPT ![w] = <<>>]
  /\ holds' = holds \ {w}
  /\ client' = IF w = "client" THEN "failed" ELSE client
  /\ server' = IF w = "server" THEN "killed" ELSE server
  /\ UNCHANGED <<asks, listener, net, reset, said, read>>

Quiet(w) == todo[w] = <<>>     \* rio_writen has returned

InLine(s) == IF s = "client" THEN client \in {"header", "body"} /\ Quiet("client")
             ELSE server \in {"line", "headers"}

Reads_bug(n) == 1..n      \* as if rio_buf had room for all that is there
Reads(n) == {k \in 1..n : k <= RIO_BUFSIZE}

\* rio_read asks for a full rio_buf and gets what there is, or less.
Refill(s) ==
  /\ InLine(s) /\ rio[s] = <<>> /\ net[s] # <<>>
  /\ \E k \in Reads(Len(net[s])) :
       /\ rio' = [rio EXCEPT ![s] = SubSeq(net[s], 1, k)]
       /\ net' = [net EXCEPT ![s] = SubSeq(@, k + 1, Len(@))]
  /\ UNCHANGED <<asks, listener, client, server, holds, reset, todo, said, usrbuf, lines>>

\* A wrapper of a failed read ends its process, the server's too.
ReadFails(s) ==
  /\ InLine(s) /\ rio[s] = <<>> /\ net[s] = <<>> /\ reset
  /\ holds' = holds \ {s}
  /\ client' = IF s = "client" THEN "failed" ELSE client
  /\ server' = IF s = "server" THEN "exit" ELSE server
  /\ UNCHANGED <<asks, listener, net, reset, todo, said, read>>

AtEOF(s) == rio[s] = <<>> /\ net[s] = <<>> /\ PeerGone(s) /\ ~reset

\* The last process to close with bytes unread resets the connection, and the
\* peer may lose bytes that are under way.
Hangup(w, s) ==
  /\ holds' = holds \ {w}
  /\ IF holds \cap Peer(Other(s)) = {w} /\ net[s] # <<>>
     THEN reset' = TRUE /\ \E k \in 0..Len(net[Other(s)]) :
            net' = [net EXCEPT ![s] = <<>>, ![Other(s)] = SubSeq(@, 1, k)]
     ELSE UNCHANGED <<reset, net>>

-----------------------------------------------------------------------------
(* rio_readlineb: byte for byte up to a newline or MAXLINE - 1 of them.     *)

LineFull_bug(line) == Last(line) = LF \/ Len(line) = RIO_BUFSIZE
LineFull(line) == Last(line) = LF \/ Len(line) = MAXLINE - 1

TakeByte(s) ==
  LET line == Append(usrbuf[s], Head(rio[s]))
  IN  /\ InLine(s) /\ rio[s] # <<>> /\ ~LineFull(line)
      /\ usrbuf' = [usrbuf EXCEPT ![s] = line]
      /\ rio' = [rio EXCEPT ![s] = Tail(@)]
      /\ UNCHANGED <<asks, listener, client, server, talk, lines>>

\* It returns line to s: a whole one, or what there was at end of file.
Returns(s, line) ==
  /\ InLine(s)
  /\ \/ /\ rio[s] # <<>>
        /\ line = Append(usrbuf[s], Head(rio[s])) /\ LineFull(line)
        /\ rio' = [rio EXCEPT ![s] = Tail(@)]
     \/ /\ AtEOF(s) /\ line = usrbuf[s]
        /\ UNCHANGED rio
  /\ usrbuf' = [usrbuf EXCEPT ![s] = <<>>]
  /\ lines' = IF line = <<>> THEN lines ELSE [lines EXCEPT ![s] = Append(@, line)]

Line(s) == IF rio[s] = <<>> THEN usrbuf[s] ELSE Append(usrbuf[s], Head(rio[s]))

-----------------------------------------------------------------------------
(* The server: open_listenfd and accept, requestPreProcess, the request is *)
(* queued and served, Close.                                               *)

\* socket, setsockopt and bind; then listen.  Open_listenfd exits if one fails.
Bind ==
  /\ listener = "none" /\ server = "down"
  /\ \/ listener' = "bound" /\ UNCHANGED server
     \/ server' = "exit" /\ UNCHANGED listener
  /\ UNCHANGED <<asks, client, talk, read>>

Listen ==
  /\ listener = "bound"
  /\ listener' = "listening" /\ server' = "accept"
  /\ UNCHANGED <<asks, client, talk, read>>

\* The kernel has completed the connection before accept returns it.
Accept ==
  /\ server = "accept" /\ "server" \in holds
  /\ \/ server' = "line" /\ UNCHANGED <<net, holds, reset>>
     \/ server' = "exit" /\ Hangup("server", "server")      \* accept fails
  /\ UNCHANGED <<asks, listener, client, todo, said, read>>

Error == <<"e", LF, CR, LF, "e">>
Header == <<"k", LF, "c", LF, CR, LF>>
Body == <<"b", LF, "b">>
CgiHeader == <<"k", LF>>      \* the program writes the rest
CgiBody == <<"c", LF, CR, LF, "b">>
Log == <<"p">>                \* what the server prints

\* The first line.  Without a word in it sscanf leaves in method what was on the
\* stack, which may be the method of an earlier request.
IsGet(line) == line # <<>> /\ line[1] = GET
NoMethod(line) == Range(line) \subseteq {CR, LF}
RequestLine ==
  LET line == Line("server")
  IN  /\ server = "line" /\ Returns("server", line)
      /\ \E get \in IF NoMethod(line) THEN BOOLEAN ELSE {IsGet(line)} :
           IF get THEN server' = "headers" /\ UNCHANGED <<todo, said>>
           ELSE server' = "refused" /\ Say("server", Error)
      /\ UNCHANGED <<asks, listener, client, net, holds, reset>>

EndOfHeaders_bug(line) ==    \* any line that ends in "\r\n"
  Len(line) > 1 /\ SubSeq(line, Len(line) - 1, Len(line)) = BLANK
EndOfHeaders(line) == line = BLANK

\* No header line was read: rio_readlineb found the end of file at once, and the
\* buffer of requestReadhdrs is what was on the stack, the end of the headers of
\* an earlier request perhaps.
NoHeader == Len(lines["server"]) <= 1

\* requestReadhdrs goes on until its buffer is "\r\n"; at end of file the buffer
\* is left as it is, and the loop goes on too.
RequestHeader ==
  LET line == Line("server")
  IN  /\ server = "headers" /\ Returns("server", line)
      /\ \E end \in IF line = <<>> /\ NoHeader THEN BOOLEAN ELSE {EndOfHeaders(line)} :
           IF ~end THEN UNCHANGED <<server, todo, said>>
           ELSE IF asks.answer = "missing"
           THEN server' = "refused" /\ Say("server", Error)
           ELSE server' = "queued" /\ UNCHANGED <<todo, said>>
      /\ UNCHANGED <<asks, listener, client, net, holds, reset>>

\* A request that was refused is queued and served like the others, as whatever
\* the node holds: its program cannot be executed, or the file not be opened.
ServeRefused ==
  /\ server = "refused" /\ Quiet("server")
  /\ \/ server' = "refork" /\ Say("server", CgiHeader) /\ UNCHANGED <<net, holds, reset>>
     \/ server' = "exit" /\ Hangup("server", "server") /\ UNCHANGED <<todo, said>>
  /\ UNCHANGED <<asks, listener, client, read>>

\* Its child exits in the wrapper Execve, which flushes the child's copy of the
\* server's stdout into the connection; and Wait(NULL) as in ForkCgi.
ForkRefused ==
  /\ server = "refork" /\ Quiet("server")
  /\ server' = "close" /\ holds' = holds \cup {"cgi"}
  /\ \E log \in {<<>>, Log} : Say("cgi", log)
  /\ UNCHANGED <<asks, listener, client, net, reset, read>>

ServeStatic ==
  /\ server = "queued" /\ asks.answer = "static"
  /\ server' = "close" /\ Say("server", Header \o Body)
  /\ UNCHANGED <<asks, listener, client, net, holds, reset, read>>

ServeDynamic ==
  /\ server = "queued" /\ asks.answer = "dynamic"
  /\ server' = "fork" /\ Say("server", CgiHeader)
  /\ UNCHANGED <<asks, listener, client, net, holds, reset, read>>

ForkCgi_bug ==      \* its output does not go to the connection
  /\ server = "fork" /\ Quiet("server") /\ server' = "close"
  /\ UNCHANGED <<asks, listener, client, talk, read>>

\* The child writes to the same connection.  Wait(NULL) may return for the child
\* of another worker, so the server can close before this child is done.
ForkCgi ==
  /\ server = "fork" /\ Quiet("server")
  /\ server' = "close" /\ holds' = holds \cup {"cgi"}
  /\ Say("cgi", CgiBody)
  /\ UNCHANGED <<asks, listener, client, net, reset, read>>

\* Open, Mmap or Fork fails, and its wrapper ends the server.
ServeFails ==
  /\ \/ server = "queued" /\ asks.answer = "static"
     \/ server \in {"fork", "refork"} /\ Quiet("server")
  /\ server' = "exit" /\ Hangup("server", "server")
  /\ UNCHANGED <<asks, listener, client, todo, said, read>>

CgiExits ==
  /\ "cgi" \in holds /\ Quiet("cgi")
  /\ Hangup("cgi", "server")
  /\ UNCHANGED <<asks, listener, client, server, todo, said, read>>

CloseConn_bug ==      \* the descriptor stays open
  /\ server = "close" /\ Quiet("server")
  /\ server' = "accept"
  /\ UNCHANGED <<asks, listener, client, net, holds, reset, todo, said, read>>

CloseConn ==
  /\ server = "close" /\ Quiet("server")
  /\ server' = "accept" /\ Hangup("server", "server")
  /\ UNCHANGED <<asks, listener, client, todo, said, read>>

-----------------------------------------------------------------------------
(* The client: Open_clientfd, clientSend, clientPrint, Close.              *)

Connect ==
  /\ client = "connect"
  /\ \/ /\ listener = "listening" /\ server # "exit"
        /\ client' = "header" /\ Say("client", asks.bytes)
        /\ holds' = {"client", "server"}
     \/ client' = "failed" /\ UNCHANGED <<holds, todo, said>>
  /\ UNCHANGED <<asks, listener, server, net, reset, read>>

PrintHeader ==
  LET line == Line("client")
  IN  /\ client = "header" /\ Returns("client", line)
      /\ client' = IF line \in {<<>>, BLANK} THEN "body" ELSE "header"
      /\ UNCHANGED <<asks, listener, server, talk>>

PrintBody ==
  LET line == Line("client")
  IN  /\ client = "body" /\ Returns("client", line)
      /\ client' = IF line = <<>> THEN "close" ELSE "body"
      /\ UNCHANGED <<asks, listener, server, talk>>

CloseClient ==
  /\ client = "close" \/ (~asks.polite /\ client \in {"header", "body"})
  /\ client' = "done"
  /\ todo' = [todo EXCEPT !["client"] = <<>>]
  /\ Hangup("client", "client")
  /\ UNCHANGED <<asks, listener, server, said, read>>

-----------------------------------------------------------------------------
Init ==
  /\ asks \in Requests
  /\ listener = "none" /\ client = "connect" /\ server = "down"
  /\ net = [s \in Reader |-> <<>>] /\ holds = {} /\ reset = FALSE
  /\ todo = [w \in Writer |-> <<>>] /\ said = [s \in Reader |-> <<>>]
  /\ rio = [s \in Reader |-> <<>>] /\ usrbuf = [s \in Reader |-> <<>>]
  /\ lines = [s \in Reader |-> <<>>]

Rio(s) == WriteSome(s) \/ WriteKills(s) \/ Refill(s) \/ ReadFails(s) \/ TakeByte(s)
PreProcess == RequestLine \/ RequestHeader
Serve == \/ ServeRefused \/ ServeStatic \/ ServeDynamic \/ ForkRefused \/ ForkCgi
         \/ ServeFails \/ CloseConn
ServerStep == Bind \/ Listen \/ Accept \/ PreProcess \/ Serve \/ Rio("server")
CgiStep == WriteSome("cgi") \/ WriteKills("cgi") \/ CgiExits
ClientStep == Connect \/ PrintHeader \/ PrintBody \/ CloseClient \/ Rio("client")

Next == ServerStep \/ CgiStep \/ ClientStep
Spec == Init /\ [][Next]_vars

\* Nobody is in the way of anybody: the two sides and the CGI program run on.
FairSpec == Spec /\ WF_vars(ServerStep) /\ WF_vars(CgiStep) /\ WF_vars(ClientStep)

-----------------------------------------------------------------------------
TypeOK ==
  /\ asks \in Requests /\ listener \in {"none", "bound", "listening"}
  /\ client \in {"connect", "header", "body", "close", "done", "failed"}
  /\ server \in {"down", "accept", "line", "headers", "refused", "refork", "queued",
                 "fork", "close", "killed", "exit"}
  /\ \A s \in Reader : /\ Len(net[s]) <= SendBuffer /\ Len(rio[s]) <= RIO_BUFSIZE
                       /\ Len(usrbuf[s]) < MAXLINE - 1
  /\ holds \subseteq Writer /\ reset \in BOOLEAN

Delivered(s) == FlattenSeq(lines[s])
Heard(s) == Delivered(s) \o usrbuf[s] \o rio[s] \o net[s]
Pending(s) == IF s = "server" THEN todo["client"] ELSE todo["server"] \o todo["cgi"]

\* However the kernel cuts the streams, nothing is lost, doubled or reordered
\* between what one side has to write and what the other read, up to a reset,
\* two processes writing included; a side that gives up leaves a prefix.
StreamExact ==
  \A s \in Reader :
    /\ IsPrefix(Heard(s), said[s])
    /\ ~reset /\ "client" \in holds => Heard(s) \o Pending(s) = said[s]

\* Where lines end does not depend on how the bytes arrived: a line ends at its
\* first newline, when it is as long as the buffer, or with the stream.
LinesWhole ==
  \A s \in Reader : \A k \in DOMAIN lines[s] :
    LET line == lines[s][k]
        full == Last(line) = LF \/ Len(line) = MAXLINE - 1
    IN  /\ \A b \in 1..(Len(line) - 1) : line[b] # LF
        /\ full \/ (k = Len(lines[s]) /\ PeerGone(s))

\* The request up to its first empty line, and whether its lines fit in buf.
EndsAt(b, k) == k > 2 /\ SubSeq(b, k - 2, k) = <<LF>> \o BLANK
HeaderPart(b) ==
  SubSeq(b, 1, CHOOSE k \in DOMAIN b : EndsAt(b, k) /\ \A m \in 1..(k - 1) : ~EndsAt(b, m))
Fits(b) == \A k \in 1..(Len(b) - MAXLINE + 2) : LF \in Range(SubSeq(b, k, k + MAXLINE - 2))
Proper(b) == b[1] = GET /\ Fits(b) /\ \E k \in DOMAIN b : EndsAt(b, k)
Exact(b) == Proper(b) /\ HeaderPart(b) = b      \* nothing follows the empty line

\* requestReadhdrs stops behind the first empty line, not before and not after,
\* if no line of the request is longer than buf and the client did not leave
\* before a single header was read.
HeadersEndAtBlankLine ==
  server \in {"queued", "fork"} /\ Proper(asks.bytes) =>
    \/ Delivered("server") = HeaderPart(asks.bytes)
    \/ PeerGone("server") /\ NoHeader

\* A client that sends a proper request and nothing behind it (bytes nobody reads
\* reset the connection at Close) and reads to the end gets the whole answer, also
\* the part a CGI program writes after the server has closed, unless a call of the
\* server fails; the client itself fails only in connect.
Answer == IF asks.answer = "static" THEN Header \o Body ELSE CgiHeader \o CgiBody
WholeAnswer ==
  asks.polite /\ Exact(asks.bytes) /\ server # "exit" =>
    /\ client = "done" => Delivered("client") =
         IF asks.answer = "missing" THEN said["client"] ELSE Answer
    /\ client = "failed" => said["server"] = <<>>

\* Such a conversation ends on both sides: neither waits for bytes the other
\* will not send, or for an end of file that does not come.
ConversationEnds ==
  asks.polite /\ Exact(asks.bytes) =>
    <>(client \in {"done", "failed"} /\ server \in {"accept", "exit"})
=============================================================================
