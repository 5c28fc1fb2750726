---------------------------- MODULE HttpResponse ----------------------------
(***************************************************************************)
(* How the answers of the server are read from a connection that is kept   *)
(* for the next request: HttpHelper's readLine, readStatusLine, readHeader *)
(* and readChunkedData (FB_Utils.h), FirebaseData's waitResponse,          *)
(* readResponse and readPayload (session/FB_Session.cpp), and the loops    *)
(* around them: FB_RTDB's handleRequest and handleResponse, FB_CM's        *)
(* handleResponse and fcm_send, and FirebaseCore's handleTokenResponse.    *)
(*                                                                         *)
(* What is sent is a sequence of pieces: lines, parts of a line where it   *)
(* may be cut, and bytes of a body.  TCP delivers the pieces in order and  *)
(* at any time, and readLine takes what has arrived of a line.  Time is    *)
(* abstract: a timeout may expire while its reader has nothing to read.    *)
(* FirebaseCore has a TCP client of its own, but closes it after every     *)
(* answer: one connection, of the latest reader, stands for both.          *)
(***************************************************************************)
EXTENDS Naturals, Integers, SequencesExt, FiniteSetsExt

CONSTANTS
    Readers,     \* the loops that run: "rtdb", "fcm", "token"
    Shapes,      \* the answers: subset of AllShapes
    Cuts,        \* the lines that may be cut: "status", "header", "blank", "size"
    Loose,       \* the readers whose answers may arrive in pieces anywhere
    MaxRequests, \* bound on the requests
    MaxFaults,   \* bound on the connections the server closes
    MaxRedirect  \* MAX_REDIRECT

AllShapes == {"length", "chunked", "error", "empty", "moved"}

ASSUME HttpAssumption ==
    /\ Readers \subseteq {"rtdb", "fcm", "token"} /\ Loose \subseteq Readers
    /\ Shapes \subseteq AllShapes
    /\ Cuts \subseteq {"status", "header", "blank", "size"}
    /\ MaxRequests \in Nat /\ MaxFaults \in Nat /\ MaxRedirect \in Nat

VARIABLES
    wire, inbox, \* the pieces sent, and those that have arrived
    open, mode,  \* the connection, and the reader it was opened for (con_mode)
    async,       \* session.rtdb.async: the last answer was not waited for
    redirects,   \* session.rtdb.redirect_count
    request,     \* the number of the request
    shape,       \* of its answer
    split,       \* its answer arrives in pieces elsewhere than in a body with a length
    pc,          \* "idle", "wait" (waitResponse), "read" (the loop), "body" (readPayload)
    handler,     \* tcpHandler and response
    code,        \* session.response.code
    payload,     \* the payload read so far
    ok,          \* the request has returned TRUE
    faults

connVars == <<wire, inbox, open, mode, async>>
requestVars == <<redirects, request, shape>>
readVars == <<pc, handler, code, payload, ok>>
vars == <<connVars, requestVars, split, readVars, faults>>

Lines == {"ok", "bad", "no-content", "moved", "ok+", "other", "length", "chunked", "crlf",
          "lf", "size", "size+", "last"}
Bytes == {"body", "error", "data"}
Kinds == Lines \cup Bytes \cup {"ok-", "half", "cr"}

Pieces == [req : 1..MaxRequests, kind : Kinds]

Codes == {0, 200, 204, 307, 400, -1}

Handlers ==
    [started : BOOLEAN, inHeader : BOOLEAN, head : SUBSET Lines, length : Nat,
     chunked : BOOLEAN, read : Nat, inChunk : BOOLEAN, got : Nat]

TypeOK ==
    /\ wire \in Seq(Pieces) /\ inbox \in Seq(Pieces) /\ payload \in Seq(Pieces)
    /\ open \in BOOLEAN /\ async \in BOOLEAN /\ split \in BOOLEAN
    /\ mode \in Readers \cup {"none"} /\ shape \in AllShapes \cup {"none"}
    /\ redirects \in 0..MaxRedirect /\ request \in 0..MaxRequests
    /\ pc \in {"idle", "wait", "read", "body"}
    /\ handler \in Handlers /\ code \in Codes /\ ok \in BOOLEAN
    /\ faults \in 0..MaxFaults

\* intTCPHandler and the initial values of response.
NewHandler ==
    [started |-> FALSE,  \* chunkIdx > 0: the first line has been read
     inHeader |-> FALSE, \* isHeader
     head |-> {},        \* header, without the lines that are not looked at
     length |-> 0, chunked |-> FALSE, \* contentLen (payloadLen), isChunkedEnc
     read |-> 0,         \* payloadRead
     inChunk |-> FALSE, got |-> 0] \* chunkState: state, dataLen; a chunk has one byte

Init ==
    /\ wire = <<>> /\ inbox = <<>> /\ open = FALSE /\ mode = "none" /\ async = FALSE
    /\ redirects = 0 /\ request = 0 /\ shape = "none" /\ split = FALSE
    /\ pc = "idle" /\ handler = NewHandler /\ code = 0 /\ payload = <<>>
    /\ ok = FALSE /\ faults = 0

-----------------------------------------------------------------------------
(* What the server sends *)

\* The ways in which a line is sent: whole, or in two parts.
Whole(kind) == {<<kind>>}

Cut(where, kind, parts) == Whole(kind) \cup IF where \in Cuts THEN {parts} ELSE {}

StatusLine(s) ==
    CASE s = "error" -> Whole("bad")
      [] s = "empty" -> Whole("no-content")
      [] s = "moved" -> Whole("moved")
      [] OTHER -> Cut("status", "ok", <<"ok-", "ok+">>)

OtherHeader == Cut("header", "other", <<"half", "crlf">>)

BlankLine == Cut("blank", "crlf", <<"cr", "lf">>)

SizeLine == Cut("size", "size", <<"half", "size+">>)

Header(s) ==
    CASE s = "chunked" -> <<"chunked">>
      [] s \in {"length", "error"} -> <<"length">>
      [] OTHER -> <<>>

Chunk(size) == size \o <<"data", "crlf">>

LastChunk == <<"last", "crlf">>

Chunks == {Chunk(x) \o Chunk(y) \o LastChunk : x \in SizeLine, y \in SizeLine}

\* A body is two bytes; the chunks have one each.
Body(s) ==
    CASE s = "length" -> {<<"body", "body">>}
      [] s = "error" -> {<<"error", "error">>}
      [] s = "chunked" -> Chunks
      [] OTHER -> {<<>>}

\* The whole payload of an answer.
Content(s) ==
    CASE s = "length" -> <<"body", "body">>
      [] s = "error" -> <<"error", "error">>
      [] s = "chunked" -> <<"data", "data">>
      [] OTHER -> <<>>

Answer(r, s) ==
    {[n \in 1..Len(a) |-> [req |-> r, kind |-> a[n]]] :
        a \in {f \o o \o Header(s) \o b \o d :
                 f \in StatusLine(s), o \in OtherHeader, b \in BlankLine, d \in Body(s)}}

InBody(p) == p.kind \in {"body", "error"}

\* Pieces arrive; unless its reader is loose, an answer is cut in its body only.
Deliver(n) ==
    /\ n \in 1..Len(wire) /\ open
    /\ LET cut == n < Len(wire) /\ wire[n + 1].req = wire[n].req /\ ~InBody(wire[n + 1]) IN
       /\ cut => mode \in Loose
       /\ split' = (split \/ cut)
    /\ inbox' = inbox \o SubSeq(wire, 1, n) /\ wire' = SubSeq(wire, n + 1, Len(wire))
    /\ UNCHANGED <<open, mode, async, requestVars, readVars, faults>>

\* The connection is lost, with what was not read.
Disconnect ==
    /\ open /\ faults < MaxFaults /\ faults' = faults + 1
    /\ open' = FALSE /\ wire' = <<>> /\ inbox' = <<>>
    /\ split' = (split \/ \E n \in DOMAIN (inbox \o wire) : ~InBody((inbox \o wire)[n]))
    /\ UNCHANGED <<mode, async, requestVars, readVars>>

-----------------------------------------------------------------------------
(* A request *)

\* Mutant: a request that follows an asynchronous one keeps the connection.
ClosesNone(reader, old) == old \/ mode # reader

\* handleRequest and rescon: the connection is closed when answers were not waited for,
\* when another kind of request used it and when it is old.
Closes(reader, old) == old \/ mode # reader \/ async

\* The connection for the next request, which keeps what is left on it.
Connect(keep, answer) ==
    /\ open' = TRUE
    /\ wire' = (IF keep THEN wire ELSE <<>>) \o answer
    /\ inbox' = IF keep THEN inbox ELSE <<>>

Start(reader, s) ==
    /\ pc = "idle" /\ request < MaxRequests /\ request' = request + 1
    /\ mode' = reader /\ shape' = s /\ split' = FALSE
    /\ payload' = <<>> /\ handler' = NewHandler /\ code' = 0 /\ ok' = FALSE

\* A request is sent; its answer is waited for.
Send(reader, s) ==
    /\ Start(reader, s) /\ (s = "moved" => reader = "rtdb")
    /\ \E old \in BOOLEAN, a \in Answer(request + 1, s) :
         Connect(open /\ ~Closes(reader, old), a)
    /\ async' = FALSE /\ pc' = "wait"
    /\ UNCHANGED <<redirects, faults>>

\* handleResponse returns before it reads; an answer that is not waited for.
SendAsync(s) ==
    /\ "rtdb" \in Readers /\ Start("rtdb", s)
    /\ \E old \in BOOLEAN, a \in Answer(request + 1, s) :
         Connect(open /\ ~(old \/ mode # "rtdb"), a)
    /\ async' = TRUE
    /\ UNCHANGED <<redirects, pc, faults>>

Close == open' = FALSE /\ wire' = <<>> /\ inbox' = <<>>

\* The request returns FALSE, and its connection is closed.
Fail ==
    /\ pc' = "idle" /\ Close
    /\ UNCHANGED <<mode, async, ok>>

\* The request returns TRUE; what is left stays for the next one.
Succeed(left) ==
    /\ pc' = "idle" /\ ok' = TRUE
    /\ IF mode = "token" THEN Close ELSE inbox' = left /\ UNCHANGED <<open, wire>>
    /\ UNCHANGED <<mode, async>>

\* FB_CM's getError: an answer without a code counts as success unless it is the
\* JSON of an error.
MessageSent(c, content) ==
    \/ c \in {200, 204}
    \/ content # <<>> /\ content[1].kind # "error" /\ (content[1].kind \in Bytes \/ c = 0)

\* Whether a reader takes what it has read for a success.
IsSuccess(c, content) ==
    CASE mode = "rtdb" -> c \in {200, 204}
      [] mode = "fcm" -> MessageSent(c, content)
      [] mode = "token" -> content # <<>>

\* The end of each of the three loops; a chunked answer is flushed.
Finish(h, c, left, content) ==
    /\ handler' = h /\ code' = c /\ payload' = content
    /\ IF IsSuccess(c, content) THEN Succeed(IF h.chunked THEN <<>> ELSE left) ELSE Fail

\* The loop goes on.
Continue(h, c, left, content) ==
    /\ handler' = h /\ code' = c /\ payload' = content /\ inbox' = left
    /\ UNCHANGED <<pc, wire, open, mode, async, ok>>

-----------------------------------------------------------------------------
(* waitResponse *)

Arrived == inbox # <<>>

\* Something has arrived, or the connection is closed.
WaitEnds ==
    /\ pc = "wait" /\ (Arrived \/ ~open) /\ pc' = "read"
    /\ UNCHANGED <<connVars, requestVars, split, handler, code, payload, ok, faults>>

\* Nothing has arrived until the timeout: reconnect closes the connection.
WaitTimeout ==
    /\ pc = "wait" /\ ~Arrived /\ open /\ Fail /\ code' = -1
    /\ UNCHANGED <<requestVars, split, handler, payload, faults>>

-----------------------------------------------------------------------------
(* The lines *)

\* readLine: up to the end of the line, or what has arrived of it.
LineLength(q) ==
    LET ends == {n \in DOMAIN q : q[n].kind \in Lines} IN
    IF ends = {} THEN Len(q) ELSE Min(ends)

Line == SubSeq(inbox, 1, LineLength(inbox))

Rest == SubSeq(inbox, LineLength(inbox) + 1, Len(inbox))

KindsOf(q) == {q[n].kind : n \in DOMAIN q}

\* getStatusCode: anywhere in the line; 0 if there is none.
StatusOf(line) ==
    LET kinds == KindsOf(line) IN
    CASE "ok" \in kinds \/ {"ok-", "ok+"} \subseteq kinds -> 200
      [] "no-content" \in kinds -> 204
      [] "moved" \in kinds -> 307
      [] "bad" \in kinds -> 400
      [] OTHER -> 0

\* The line is \r\n, or \r that arrived before its \n.
IsBlank(line) ==
    \/ Len(line) = 1 /\ line[1].kind \in {"crlf", "cr"}
    \/ Len(line) = 2 /\ line[1].kind = "cr" /\ line[2].kind = "lf"

\* readStatusLine, the first time: what is not a status line is the first payload of
\* FB_RTDB, and is dropped by the others.
ReadStatus ==
    LET status == StatusOf(Line)
        h == [handler EXCEPT !.started = TRUE, !.inHeader = status > 0] IN
    /\ pc = "read" /\ ~handler.started /\ Arrived
    /\ Continue(h, status, Rest,
                IF mode = "rtdb" /\ status = 0 THEN payload \o Line ELSE payload)
    /\ UNCHANGED <<requestVars, split, faults>>

InHeader == pc = "read" /\ handler.started /\ handler.inHeader /\ Arrived

\* readHeader: one more line of the header.
ReadHeaderLine ==
    /\ InHeader /\ ~IsBlank(Line)
    /\ Continue([handler EXCEPT !.head = @ \cup (KindsOf(Line) \cap Lines)], code, Rest,
                payload)
    /\ UNCHANGED <<requestVars, split, faults>>

\* The end of the header, and parseRespHeader.
Parsed ==
    [handler EXCEPT !.inHeader = FALSE, !.head = {},
                    !.length = IF "length" \in handler.head THEN 2 ELSE 0,
                    !.chunked = "chunked" \in handler.head]

ReadBlankLine ==
    /\ InHeader /\ IsBlank(Line) /\ code # 307
    /\ IF mode = "token" /\ Parsed.length = 0 /\ ~Parsed.chunked
       THEN Finish(Parsed, code, Rest, payload)
       ELSE Continue(Parsed, code, Rest, payload)
    /\ UNCHANGED <<requestVars, split, faults>>

\* Mutant: one redirect too many.
RedirectOnceMore ==
    /\ InHeader /\ IsBlank(Line) /\ code = 307 /\ redirects <= MaxRedirect
    /\ redirects' = redirects + 1
    /\ \E a \in Answer(request, "length") : Connect(FALSE, a)
    /\ handler' = Parsed /\ code' = 200 /\ pc' = "wait" /\ split' = FALSE
    /\ shape' = "length"
    /\ UNCHANGED <<mode, async, request, payload, ok, faults>>

\* handleRedirect: the request is sent to the new location, and its answer is read with
\* the same handler.
Redirect ==
    /\ InHeader /\ IsBlank(Line) /\ code = 307 /\ redirects < MaxRedirect
    /\ redirects' = redirects + 1
    /\ \E a \in Answer(request, "length") : Connect(FALSE, a)
    /\ handler' = Parsed /\ code' = 200 /\ pc' = "wait" /\ split' = FALSE
    /\ shape' = "length"
    /\ UNCHANGED <<mode, async, request, payload, ok, faults>>

RedirectTooOften ==
    /\ InHeader /\ IsBlank(Line) /\ code = 307 /\ redirects = MaxRedirect
    /\ redirects' = 0 /\ Finish(Parsed, -1, Rest, payload)
    /\ UNCHANGED <<request, shape, split, faults>>

-----------------------------------------------------------------------------
(* The payload *)

\* Whether the loop finds something to do: FB_RTDB's and FB_CM's end when nothing has
\* arrived and the length is reached, handleTokenResponse's does not.
InPayload ==
    /\ pc = "read" /\ handler.started /\ ~handler.inHeader
    /\ code # 204

\* readPayload of an answer without a length: a line.
ReadLinePayload ==
    LET h == [handler EXCEPT !.read = @ + Len(Line)] IN
    /\ InPayload /\ Arrived /\ ~handler.chunked
    /\ handler.length = 0 \/ mode = "token"
    /\ IF mode # "fcm" /\ h.read >= h.length
       THEN Finish(h, code, Rest, payload \o Line)
       ELSE Continue(h, code, Rest, payload \o Line)
    /\ UNCHANGED <<requestVars, split, faults>>

\* readPayload of an answer with a length reads byte by byte, and waits for them.
BeginBody ==
    /\ InPayload /\ Arrived /\ ~handler.chunked /\ handler.length > 0 /\ mode # "token"
    /\ pc' = "body"
    /\ UNCHANGED <<connVars, requestVars, split, handler, code, payload, ok, faults>>

ReadByte ==
    LET h == [handler EXCEPT !.read = @ + 1]
        content == Append(payload, Head(inbox)) IN
    /\ pc = "body" /\ Arrived
    /\ IF h.read = h.length THEN Finish(h, code, Tail(inbox), content)
                            ELSE Continue(h, code, Tail(inbox), content)
    /\ UNCHANGED <<requestVars, split, faults>>

Incomplete == handler.read < handler.length

\* Mutant: FB_CM's readResponse does not look at the time.
PayloadTimeoutInBody ==
    /\ pc = "body" /\ ~Arrived /\ Close /\ pc' = "idle"
    /\ ok' = (mode = "fcm" /\ IsSuccess(code, payload))
    /\ UNCHANGED <<mode, async, requestVars, split, handler, code, payload, faults>>

\* The timeout of readPayload, and of FB_CM's readResponse: reconnect closes the
\* connection, which ends FB_RTDB's loop with an error and FB_CM's with what has been read.
PayloadTimeout ==
    /\ pc = "body" \/ (pc = "read" /\ mode = "fcm" /\ Incomplete)
    /\ ~Arrived /\ Close /\ pc' = "idle"
    /\ ok' = (mode = "fcm" /\ IsSuccess(code, payload))
    /\ UNCHANGED <<mode, async, requestVars, split, handler, code, payload, faults>>

InChunks == InPayload /\ handler.chunked /\ (Arrived \/ mode = "token")

\* readChunkedData, a size: a line that is no size ends the answer, as does the size 0.
ReadSize ==
    LET kinds == KindsOf(Line) IN
    /\ InChunks /\ ~handler.inChunk /\ Arrived
    /\ IF kinds \cap {"size", "size+"} # {}
       THEN Continue([handler EXCEPT !.inChunk = TRUE, !.got = 0], code, Rest, payload)
       ELSE Finish(handler, code, <<>>, payload)
    /\ UNCHANGED <<requestVars, split, faults>>

\* readChunkedData, a chunk of one byte: without its line end it is added and more is
\* awaited; with it, what is missing is added.
ReadChunk ==
    LET ended == Last(Line).kind = "crlf"
        bytes == IF ended THEN Front(Line) ELSE Line IN
    /\ InChunks /\ handler.inChunk /\ Arrived
    /\ Continue([handler EXCEPT !.inChunk = ~ended, !.got = @ + Len(bytes),
                                !.read = @ + Len(Line)],
                code, Rest, payload \o bytes)
    /\ UNCHANGED <<requestVars, split, faults>>

\* readChunkedData with nothing to read: the end, if the chunk is complete.
ChunkMissing ==
    /\ InChunks /\ handler.inChunk /\ ~Arrived /\ handler.got = 1
    /\ Finish(handler, code, <<>>, payload)
    /\ UNCHANGED <<requestVars, split, faults>>

-----------------------------------------------------------------------------
(* The ends of the loops *)

\* Mutant: the loop ends when nothing has arrived, whatever the length says.
NothingMoreNow ==
    /\ pc = "read" /\ mode # "token" /\ ~Arrived
    /\ Finish(handler, code, <<>>, payload)
    /\ UNCHANGED <<requestVars, split, faults>>

\* Nothing more has arrived, and no length says that more will.
NothingMore ==
    /\ pc = "read" /\ mode # "token" /\ ~Arrived /\ ~Incomplete
    /\ Finish(handler, code, <<>>, payload)
    /\ UNCHANGED <<requestVars, split, faults>>

\* isConnected fails while more is expected; until then FB_RTDB's loop goes on, and takes
\* the time anew in every round.
LoopFails ==
    /\ pc = "read" /\ mode = "rtdb" /\ ~Arrived /\ Incomplete /\ ~open
    /\ Fail /\ code' = -1
    /\ UNCHANGED <<requestVars, split, handler, payload, faults>>

\* isResponseTimeout: 5 s after the start, whatever has been read.
TokenTimeout ==
    /\ pc = "read" /\ mode = "token"
    /\ Finish(handler, code, <<>>, payload)
    /\ UNCHANGED <<requestVars, split, faults>>

Read ==
    \/ WaitEnds \/ ReadStatus \/ ReadHeaderLine \/ ReadBlankLine
    \/ Redirect \/ RedirectTooOften
    \/ ReadLinePayload \/ BeginBody \/ ReadByte
    \/ ReadSize \/ ReadChunk \/ ChunkMissing \/ NothingMore \/ LoopFails

Timeout == WaitTimeout \/ PayloadTimeout \/ TokenTimeout

Next ==
    \/ \E r \in Readers, s \in Shapes : Send(r, s)
    \/ \E s \in Shapes : SendAsync(s)
    \/ Read \/ Timeout
    \/ \E n \in 1..Len(wire) : Deliver(n)
    \/ Disconnect

Spec == Init /\ [][Next]_vars

\* The loops run and their timeouts expire.
LiveSpec == Spec /\ WF_vars(Read) /\ WF_vars(Timeout)

\* The server, too, sends the whole of its answers.
ServedSpec == LiveSpec /\ WF_vars(\E n \in 1..Len(wire) : Deliver(n))

-----------------------------------------------------------------------------
(* Properties *)

\* A request that returns TRUE was given the answer to itself, never what was left on
\* the connection by an earlier one (handleRequest and rescon close it, and a first line
\* without a status makes the request fail).
OwnAnswer == ok => \A n \in DOMAIN payload : payload[n].req = request

\* A call of FB_RTDB that returns TRUE has read the whole payload of its answer.
WholeAnswer ==
    ok /\ mode = "rtdb" => [n \in DOMAIN payload |-> payload[n].kind] = Content(shape)

\* So it is as long as the answer arrives at once up to its body, whatever happens to the
\* connection then (handleResponse and readPayload wait for the length).
WholeBody == split \/ WholeAnswer

\* Every request returns, with an answer or an error (the timeouts of waitResponse,
\* readPayload and isResponseTimeout).
Returns == (pc # "idle") ~> (pc = "idle")

=============================================================================
