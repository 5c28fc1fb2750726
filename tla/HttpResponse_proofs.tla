------------------------ MODULE HttpResponse_proofs ------------------------
(***************************************************************************)
(* Theorems of HttpResponse, for every set of readers, answers and cuts    *)
(* and any number of requests.                                             *)
(*                                                                         *)
(* First the operators: the line that is read, and the answers a server    *)
(* sends.  Then the types; OwnInv, which says to which requests the pieces *)
(* on the connection belong, and with it that answers are own; and         *)
(* PartsLeft, which says which parts of its answer a request of FB_RTDB    *)
(* has still to read, and with it that payloads are whole.                 *)
(***************************************************************************)
EXTENDS HttpResponse, SequenceTheorems, WellFoundedInduction, TLAPS

-----------------------------------------------------------------------------
(* The line that is read *)

\* All but the last piece.
LEMMA FrontFacts ==
  ASSUME NEW q \in Seq(Pieces), Len(q) \in Nat \ {0}
  PROVE  /\ Front(q) \in Seq(Pieces) /\ Len(Front(q)) = Len(q) - 1
         /\ \A n \in 1..(Len(q) - 1) : Front(q)[n] = q[n]
<1>1. \A n \in 1..(Len(q) - 1) : q[n] \in Pieces
  BY ElementOfSeq
<1>2. /\ SubSeq(q, 1, Len(q) - 1) \in Seq(Pieces)
      /\ Len(SubSeq(q, 1, Len(q) - 1)) = Len(q) - 1
      /\ \A n \in 1..(Len(q) - 1) : SubSeq(q, 1, Len(q) - 1)[n] = q[n]
  <2>1. 1 \in Int /\ Len(q) - 1 \in Int
    OBVIOUS
  <2>2. /\ SubSeq(q, 1, Len(q) - 1) \in Seq(Pieces)
        /\ Len(SubSeq(q, 1, Len(q) - 1))
             = IF 1 <= Len(q) - 1 THEN (Len(q) - 1) - 1 + 1 ELSE 0
        /\ \A n \in 1..((Len(q) - 1) - 1 + 1) : SubSeq(q, 1, Len(q) - 1)[n] = q[1 + n - 1]
    BY <1>1, <2>1, SubSeqProperties
  <2>3. (Len(q) - 1) - 1 + 1 = Len(q) - 1 /\ \A n \in 1..(Len(q) - 1) : 1 + n - 1 = n
    OBVIOUS
  <2>4. \A m \in Nat \ {0} : (IF 1 <= m - 1 THEN (m - 1) - 1 + 1 ELSE 0) = m - 1
    OBVIOUS
  <2> QED
    BY <2>2, <2>3, <2>4, Zenon
<1> QED
  BY <1>2 DEF Front

\* The smallest of a set of natural numbers.
LEMMA MinIsLeast ==
  ASSUME NEW T, T \subseteq Nat, T # {}
  PROVE  Min(T) \in T /\ \A y \in T : Min(T) <= y
<1>1. PICK x \in T : \A y \in T : <<y, x>> \notin OpToRel(<, Nat)
  BY NatLessThanWellFounded, WFMin
<1>2. ASSUME NEW y \in T PROVE x <= y
  <2>1. <<y, x>> \in Nat \X Nat /\ <<y, x>>[1] = y /\ <<y, x>>[2] = x
    OBVIOUS
  <2>2. y < x => <<y, x>> \in OpToRel(<, Nat)
    BY <2>1, Zenon DEF OpToRel
  <2>3. ~(y < x)
    BY <1>1, <2>2, Zenon
  <2> QED
    BY <2>3
<1> QED
  BY <1>2 DEF Min

\* A line is one piece at least, and no more than has arrived.
LEMMA LineBounds ==
  ASSUME NEW q \in Seq(Pieces), q # <<>>
  PROVE  LineLength(q) \in 1..Len(q)
<1> DEFINE ends == {n \in DOMAIN q : q[n].kind \in Lines}
<1>1. Len(q) \in Nat \ {0} /\ DOMAIN q = 1..Len(q)
  BY EmptySeq, LenProperties
<1>2. CASE ends = {}
  BY <1>1, <1>2 DEF LineLength
<1>3. CASE ends # {}
  <2>1. Min(ends) \in ends
    BY <1>1, <1>3, MinIsLeast
  <2> QED
    BY <1>1, <1>3, <2>1 DEF LineLength
<1> QED
  BY <1>2, <1>3

\* The line and what follows it are the two parts of what has arrived.
LEMMA LineAndRest ==
  ASSUME inbox \in Seq(Pieces), Arrived
  PROVE  /\ Line \in Seq(Pieces) /\ Rest \in Seq(Pieces)
         /\ LineLength(inbox) \in 1..Len(inbox) /\ Len(inbox) \in Nat
         /\ Len(Line) = LineLength(inbox) /\ Len(Rest) = Len(inbox) - LineLength(inbox)
         /\ \A n \in 1..Len(Line) : Line[n] = inbox[n]
         /\ \A n \in 1..Len(Rest) : Rest[n] = inbox[LineLength(inbox) + n]
<1> DEFINE k == LineLength(inbox)
<1>1. k \in 1..Len(inbox) /\ Len(inbox) \in Nat
  BY LineBounds, LenProperties DEF Arrived
<1>2. \A n \in 1..Len(inbox) : inbox[n] \in Pieces
  BY ElementOfSeq
<1> HIDE DEF k
<1>3. /\ SubSeq(inbox, 1, k) \in Seq(Pieces) /\ Len(SubSeq(inbox, 1, k)) = k
      /\ \A n \in 1..k : SubSeq(inbox, 1, k)[n] = inbox[n]
  BY <1>1, <1>2, SubSeqProperties
<1>4. /\ SubSeq(inbox, k + 1, Len(inbox)) \in Seq(Pieces)
      /\ Len(SubSeq(inbox, k + 1, Len(inbox))) = Len(inbox) - k
      /\ \A n \in 1..(Len(inbox) - k) : SubSeq(inbox, k + 1, Len(inbox))[n] = inbox[k + n]
  <2>1. k + 1 \in Int /\ Len(inbox) \in Int /\ \A n \in (k + 1)..Len(inbox) : inbox[n] \in Pieces
    BY <1>1, <1>2
  <2>2. /\ SubSeq(inbox, k + 1, Len(inbox)) \in Seq(Pieces)
        /\ Len(SubSeq(inbox, k + 1, Len(inbox)))
             = IF k + 1 <= Len(inbox) THEN Len(inbox) - (k + 1) + 1 ELSE 0
        /\ \A n \in 1..(Len(inbox) - (k + 1) + 1) :
              SubSeq(inbox, k + 1, Len(inbox))[n] = inbox[(k + 1) + n - 1]
    BY <2>1, SubSeqProperties
  <2> QED
    BY <1>1, <2>2
<1> QED
  BY <1>1, <1>3, <1>4 DEF Line, Rest, k

\* A line that has arrived holds kinds.
LEMMA KindsOfLine ==
  ASSUME inbox \in Seq(Pieces), Arrived
  PROVE  KindsOf(Line) \subseteq Kinds
<1>1. \A n \in DOMAIN Line : Line[n] \in Pieces
  BY LineAndRest, LenProperties
<1> QED
  BY <1>1 DEF KindsOf, Pieces

-----------------------------------------------------------------------------
(* What the server sends *)

\* The pieces that getStatusCode takes for a status, at least together with others.
Marks == {"ok", "no-content", "moved", "bad", "ok-"}

Plain == Kinds \ Marks

\* A status, if any, comes first.
MarkFirst(k) ==
    k \in Seq(Kinds) /\ Len(k) \in Nat \ {0} /\ \A n \in 2..Len(k) : k[n] \in Plain

\* The status lines.
LEMMA StatusLineMarks == \A s : \A f \in StatusLine(s) : MarkFirst(f)
<1>1. ASSUME NEW c \in Kinds PROVE MarkFirst(<<c>>)
  <2>1. <<c>> \in Seq(Kinds) /\ Len(<<c>>) = 1
    OBVIOUS
  <2>2. \A n \in 2..1 : FALSE
    OBVIOUS
  <2> QED
    BY <2>1, <2>2, SMT DEF MarkFirst
<1>0. {"bad", "no-content", "moved", "ok"} \subseteq Kinds
  BY DEF Kinds, Lines
<1>2. MarkFirst(<<"ok-", "ok+">>)
  <2>1. "ok-" \in Kinds /\ "ok+" \in Kinds /\ "ok+" \in Plain
    BY DEF Kinds, Lines, Plain, Marks
  <2>2. <<"ok-", "ok+">> \in Seq(Kinds) /\ Len(<<"ok-", "ok+">>) = 2
        /\ <<"ok-", "ok+">>[2] = "ok+"
    BY <2>1
  <2>3. \A n \in 2..2 : n = 2
    OBVIOUS
  <2> QED
    BY <2>1, <2>2, <2>3 DEF MarkFirst
<1> QED
  BY <1>0, <1>1, <1>2 DEF StatusLine, Whole, Cut

\* No other part of an answer looks like a status.
LEMMA PlainParts ==
  /\ OtherHeader \subseteq Seq(Plain) /\ BlankLine \subseteq Seq(Plain)
  /\ \A s : Header(s) \in Seq(Plain) /\ Body(s) \subseteq Seq(Plain)
<1> USE DEF Whole, Cut
<1>0. /\ {"other", "half", "crlf", "cr", "lf", "size", "size+", "last", "length", "chunked",
          "body", "error", "data"} \subseteq Plain
  BY DEF Plain, Kinds, Lines, Bytes, Marks
<1> HIDE DEF Plain
<1>1. OtherHeader \subseteq Seq(Plain) /\ BlankLine \subseteq Seq(Plain)
  <2>1. /\ <<"other">> \in Seq(Plain) /\ <<"half", "crlf">> \in Seq(Plain)
        /\ <<"crlf">> \in Seq(Plain) /\ <<"cr", "lf">> \in Seq(Plain)
    BY <1>0
  <2> QED
    BY <2>1, Zenon DEF OtherHeader, BlankLine
<1>2. SizeLine \subseteq Seq(Plain)
  <2>1. <<"size">> \in Seq(Plain) /\ <<"half", "size+">> \in Seq(Plain)
    BY <1>0
  <2> QED
    BY <2>1, Zenon DEF SizeLine
<1>3. \A s : Header(s) \in Seq(Plain)
  BY <1>0 DEF Header
<1>4. /\ <<"data", "crlf">> \in Seq(Plain)
      /\ <<"last", "crlf">> \in Seq(Plain)
      /\ <<"body", "body">> \in Seq(Plain) /\ <<"error", "error">> \in Seq(Plain)
      /\ <<>> \in Seq(Plain)
  BY <1>0
<1>5. Chunks \subseteq Seq(Plain)
  <2>1. LastChunk \in Seq(Plain) /\ \A x \in SizeLine : Chunk(x) \in Seq(Plain)
    BY <1>2, <1>4, ConcatProperties DEF LastChunk, Chunk
  <2>2. ASSUME NEW c \in Chunks PROVE c \in Seq(Plain)
    <3>1. PICK x \in SizeLine, y \in SizeLine : c = Chunk(x) \o Chunk(y) \o LastChunk
      BY DEF Chunks
    <3> QED
      BY <2>1, <3>1, ConcatProperties
  <2> QED
    BY <2>2
<1>6. \A s : Body(s) \subseteq Seq(Plain)
  BY <1>4, <1>5 DEF Body
<1> QED
  BY <1>1, <1>3, <1>6

\* What follows a status line leaves the status first.
LEMMA MarkFirstConcat ==
  ASSUME NEW f, MarkFirst(f), NEW g \in Seq(Plain)
  PROVE  MarkFirst(f \o g)
<1>1. g \in Seq(Kinds) /\ Len(g) \in Nat
  BY SeqMonotonic, LenProperties DEF Plain
<1>2. /\ f \o g \in Seq(Kinds) /\ Len(f \o g) = Len(f) + Len(g)
      /\ \A i \in 1..(Len(f) + Len(g)) : (f \o g)[i] = IF i <= Len(f) THEN f[i] ELSE g[i - Len(f)]
  BY <1>1, ConcatProperties DEF MarkFirst
<1>3. \A n \in 1..Len(g) : g[n] \in Plain
  BY ElementOfSeq
<1> QED
  BY <1>1, <1>2, <1>3 DEF MarkFirst

\* An answer is one of the sequences of its parts, numbered.
LEMMA AnswerIsSent ==
  ASSUME NEW r \in 1..MaxRequests, NEW s, NEW a \in Answer(r, s)
  PROVE  \E f \in StatusLine(s), o \in OtherHeader, b \in BlankLine, d \in Body(s) :
            LET k == f \o o \o Header(s) \o b \o d
            IN  a = [n \in 1..Len(k) |-> [req |-> r, kind |-> k[n]]]
<1> DEFINE Numbered(k) == [n \in 1..Len(k) |-> [req |-> r, kind |-> k[n]]]
           All == {f \o o \o Header(s) \o b \o d :
                     f \in StatusLine(s), o \in OtherHeader, b \in BlankLine, d \in Body(s)}
<1>1. a \in {Numbered(k) : k \in All}
  BY SMTT(30) DEF Answer
<1>2. PICK k \in All : a = Numbered(k)
  <2> HIDE DEF Numbered, All
  <2> QED
    BY <1>1
<1>3. PICK f \in StatusLine(s), o \in OtherHeader, b \in BlankLine, d \in Body(s) :
         k = f \o o \o Header(s) \o b \o d
  <2> HIDE DEF Numbered
  <2> QED
    BY <1>2
<1>4. a = Numbered(f \o o \o Header(s) \o b \o d)
  BY <1>2, <1>3
<1> HIDE DEF All
<1> QED
  BY <1>4, Zenon

\* An answer belongs to its request, and only its first piece is a status.
LEMMA AnswerFacts ==
  ASSUME NEW r \in 1..MaxRequests, NEW s, NEW a \in Answer(r, s)
  PROVE  /\ a \in Seq(Pieces) /\ Len(a) \in Nat \ {0}
         /\ \A n \in 1..Len(a) : a[n].req = r
         /\ \A n \in 2..Len(a) : a[n].kind \notin Marks
<1>1. PICK f \in StatusLine(s), o \in OtherHeader, b \in BlankLine, d \in Body(s) :
         LET k == f \o o \o Header(s) \o b \o d
         IN  a = [n \in 1..Len(k) |-> [req |-> r, kind |-> k[n]]]
  BY AnswerIsSent, SMTT(30)
<1> DEFINE k == f \o o \o Header(s) \o b \o d
<1>2. MarkFirst(k)
  <2>1. MarkFirst(f)
    BY StatusLineMarks
  <2>2. MarkFirst(f \o o)
    BY <2>1, PlainParts, MarkFirstConcat
  <2>3. MarkFirst((f \o o) \o Header(s))
    BY <2>2, PlainParts, MarkFirstConcat
  <2>4. MarkFirst(((f \o o) \o Header(s)) \o b)
    BY <2>3, PlainParts, MarkFirstConcat
  <2>5. MarkFirst((((f \o o) \o Header(s)) \o b) \o d)
    BY <2>4, PlainParts, MarkFirstConcat
  <2> QED
    BY <2>5
<1>3. a = [n \in 1..Len(k) |-> [req |-> r, kind |-> k[n]]]
  BY <1>1
<1> HIDE DEF k
<1>4. Len(k) \in Nat \ {0} /\ \A n \in 1..Len(k) : k[n] \in Kinds
  BY <1>2, ElementOfSeq DEF MarkFirst
<1>5. \A n \in 1..Len(k) : [req |-> r, kind |-> k[n]] \in Pieces
  BY <1>4 DEF Pieces
<1>6. a \in [1..Len(k) -> Pieces]
  BY <1>3, <1>5
<1>7. a \in Seq(Pieces) /\ Len(a) = Len(k)
  BY <1>4, <1>6, SeqDef, LenProperties
<1> QED
  BY <1>2, <1>3, <1>4, <1>7 DEF MarkFirst, Plain

-----------------------------------------------------------------------------
(* Types *)

\* What a connection is left with, and what is delivered, are pieces.
LEMMA ConnectType ==
  ASSUME TypeOK, NEW r \in 1..MaxRequests, NEW s, NEW a \in Answer(r, s),
         NEW keep \in BOOLEAN, Connect(keep, a)
  PROVE  wire' \in Seq(Pieces) /\ inbox' \in Seq(Pieces) /\ open' \in BOOLEAN
<1>1. a \in Seq(Pieces) /\ <<>> \in Seq(Pieces)
  BY AnswerFacts
<1> QED
  BY <1>1, ConcatProperties DEF TypeOK, Connect

LEMMA StatusType == ASSUME NEW line PROVE StatusOf(line) \in Codes
BY DEF StatusOf, Codes

LEMMA ContinueType ==
  ASSUME TypeOK, NEW h \in Handlers, NEW c \in Codes, NEW left \in Seq(Pieces),
         NEW content \in Seq(Pieces), Continue(h, c, left, content),
         UNCHANGED <<requestVars, split, faults>>
  PROVE  TypeOK'
BY DEF TypeOK, Continue, requestVars

LEMMA CloseType ==
  Close => wire' \in Seq(Pieces) /\ inbox' \in Seq(Pieces) /\ open' \in BOOLEAN
<1>1. <<>> \in Seq(Pieces)
  OBVIOUS
<1> QED
  BY <1>1, Zenon DEF Close

\* The end of a loop keeps the types of what it assigns.
LEMMA FinishType ==
  ASSUME TypeOK, NEW h \in Handlers, NEW c \in Codes, NEW left \in Seq(Pieces),
         NEW content \in Seq(Pieces), Finish(h, c, left, content)
  PROVE  /\ wire' \in Seq(Pieces) /\ inbox' \in Seq(Pieces) /\ payload' \in Seq(Pieces)
         /\ open' \in BOOLEAN /\ async' \in BOOLEAN /\ mode' \in Readers \cup {"none"}
         /\ pc' \in {"idle", "wait", "read", "body"}
         /\ handler' \in Handlers /\ code' \in Codes /\ ok' \in BOOLEAN
<1>1. <<>> \in Seq(Pieces)
  OBVIOUS
<1>2. CASE Fail
  BY <1>1, <1>2, CloseType DEF TypeOK, Finish, Fail
<1>3. CASE Succeed(IF h.chunked THEN <<>> ELSE left)
  BY <1>1, <1>3, CloseType DEF TypeOK, Finish, Succeed
<1> QED
  BY <1>2, <1>3 DEF Finish

LEMMA FinishKeepsTypes ==
  ASSUME TypeOK, NEW h \in Handlers, NEW c \in Codes, NEW left \in Seq(Pieces),
         NEW content \in Seq(Pieces), Finish(h, c, left, content),
         UNCHANGED <<requestVars, split, faults>>
  PROVE  TypeOK'
<1>1. /\ redirects' = redirects /\ request' = request /\ shape' = shape
      /\ split' = split /\ faults' = faults
  BY DEF requestVars
<1> QED
  BY <1>1, FinishType DEF TypeOK

LEMMA ParsedType == ASSUME handler \in Handlers PROVE Parsed \in Handlers
<1>1. ("chunked" \in handler.head) \in BOOLEAN
  OBVIOUS
<1>2. (IF "length" \in handler.head THEN 2 ELSE 0) \in Nat
  OBVIOUS
<1> HIDE DEF Handlers
<1>3. \A b \in BOOLEAN, n \in Nat :
         [handler EXCEPT !.inHeader = FALSE, !.head = {}, !.length = n, !.chunked = b]
           \in Handlers
  BY DEF Handlers
<1> QED
  BY <1>1, <1>2, <1>3, Zenon DEF Parsed

\* While a request runs, there is one.
Requested == pc # "idle" => request # 0

LEMMA RequestedNext == TypeOK /\ Requested /\ [Next]_vars => Requested'
<1> SUFFICES ASSUME TypeOK, Requested, [Next]_vars PROVE Requested'
  OBVIOUS
<1>1. ASSUME NEW r \in Readers, NEW s \in Shapes, Send(r, s) PROVE Requested'
  BY <1>1 DEF Send, Start, Requested, TypeOK
<1>2. ASSUME NEW s \in Shapes, SendAsync(s) PROVE Requested'
  BY <1>2 DEF SendAsync, Start, Requested, TypeOK
<1>3. CASE UNCHANGED <<pc, request>>
  BY <1>3 DEF Requested
<1>4. CASE pc # "idle" /\ UNCHANGED request
  BY <1>4 DEF Requested
<1>5. CASE Read \/ Timeout
  <2>1. pc # "idle"
    BY <1>5 DEF Read, WaitEnds, ReadStatus, ReadHeaderLine, ReadBlankLine, Redirect,
       RedirectTooOften, ReadLinePayload, BeginBody, ReadByte, ReadSize, ReadChunk,
       ChunkMissing, NothingMore, LoopFails, InHeader, InPayload, InChunks, Timeout,
       WaitTimeout, PayloadTimeout, TokenTimeout
  <2>2. UNCHANGED request
    BY <1>5 DEF Read, WaitEnds, ReadStatus, ReadHeaderLine, ReadBlankLine, Redirect,
       RedirectTooOften, ReadLinePayload, BeginBody, ReadByte, ReadSize, ReadChunk,
       ChunkMissing, NothingMore, LoopFails, Timeout, WaitTimeout, PayloadTimeout,
       TokenTimeout, requestVars
  <2> QED
    BY <1>4, <2>1, <2>2
<1>6. CASE (\E n \in 1..Len(wire) : Deliver(n)) \/ Disconnect \/ UNCHANGED vars
  BY <1>3, <1>6 DEF Deliver, Disconnect, vars, requestVars, readVars
<1> QED
  BY <1>1, <1>2, <1>5, <1>6 DEF Next

\* Whatever is sent, received, read or timed out, the variables keep their types.
LEMMA TypeNext == TypeOK /\ Requested /\ [Next]_vars => TypeOK'
<1> SUFFICES ASSUME TypeOK, Requested, [Next]_vars PROVE TypeOK'
  OBVIOUS
<1> USE HttpAssumption
<1>0. /\ inbox \in Seq(Pieces) /\ payload \in Seq(Pieces) /\ handler \in Handlers
      /\ code \in Codes /\ <<>> \in Seq(Pieces) /\ {-1, 200} \subseteq Codes
  BY DEF TypeOK, Codes
<1>24. handler \in Handlers
  BY DEF TypeOK
<1>1. ASSUME Arrived
      PROVE  /\ Line \in Seq(Pieces) /\ Rest \in Seq(Pieces) /\ Len(Line) \in Nat \ {0}
             /\ payload \o Line \in Seq(Pieces)
  <2>1. Line \in Seq(Pieces) /\ Rest \in Seq(Pieces) /\ Len(Line) \in Nat \ {0}
    BY <1>0, <1>1, LineAndRest
  <2> QED
    BY <1>0, <2>1, ConcatProperties
<1>2. ASSUME NEW r \in Readers, NEW s \in Shapes, Send(r, s) PROVE TypeOK'
  <2>1. request + 1 \in 1..MaxRequests
    BY <1>2 DEF Send, Start, TypeOK
  <2>2. wire' \in Seq(Pieces) /\ inbox' \in Seq(Pieces) /\ open' \in BOOLEAN
    BY <1>2, <2>1, ConnectType DEF Send, TypeOK, Closes
  <2>3. NewHandler \in Handlers
    BY DEF NewHandler, Handlers
  <2>4. /\ payload' \in Seq(Pieces) /\ handler' \in Handlers /\ code' \in Codes
        /\ redirects' \in 0..MaxRedirect /\ request' \in 0..MaxRequests /\ faults' \in 0..MaxFaults
        /\ mode' \in Readers \cup {"none"} /\ shape' \in AllShapes \cup {"none"}
        /\ pc' \in {"idle", "wait", "read", "body"}
    BY <1>0, <1>2, <2>1, <2>3 DEF Send, Start, TypeOK, Codes
  <2>5. async' \in BOOLEAN /\ split' \in BOOLEAN /\ ok' \in BOOLEAN
    BY <1>2, Zenon DEF Send, Start
  <2> QED
    BY <2>2, <2>4, <2>5, Zenon DEF TypeOK
<1>3. ASSUME NEW s \in Shapes, SendAsync(s) PROVE TypeOK'
  <2>1. request + 1 \in 1..MaxRequests
    BY <1>3 DEF SendAsync, Start, TypeOK
  <2>2. wire' \in Seq(Pieces) /\ inbox' \in Seq(Pieces) /\ open' \in BOOLEAN
    BY <1>3, <2>1, ConnectType DEF SendAsync, TypeOK
  <2>3. NewHandler \in Handlers
    BY DEF NewHandler, Handlers
  <2>4. /\ payload' \in Seq(Pieces) /\ handler' \in Handlers /\ code' \in Codes
        /\ redirects' \in 0..MaxRedirect /\ request' \in 0..MaxRequests /\ faults' \in 0..MaxFaults
        /\ mode' \in Readers \cup {"none"} /\ shape' \in AllShapes \cup {"none"}
        /\ pc' \in {"idle", "wait", "read", "body"}
    BY <1>0, <1>3, <2>1, <2>3 DEF SendAsync, Start, TypeOK, Codes
  <2>5. async' \in BOOLEAN /\ split' \in BOOLEAN /\ ok' \in BOOLEAN
    BY <1>3, Zenon DEF SendAsync, Start
  <2> QED
    BY <2>2, <2>4, <2>5, Zenon DEF TypeOK
<1>4. ASSUME WaitEnds PROVE TypeOK'
  BY <1>4 DEF WaitEnds, TypeOK, connVars, requestVars
<1>5. ASSUME ReadStatus PROVE TypeOK'
  <2> DEFINE h == [handler EXCEPT !.started = TRUE, !.inHeader = StatusOf(Line) > 0]
  <2>1. h \in Handlers
    <3>1. (StatusOf(Line) > 0) \in BOOLEAN
      OBVIOUS
    <3>2. \A b \in BOOLEAN : [handler EXCEPT !.started = TRUE, !.inHeader = b] \in Handlers
      BY <1>24 DEF Handlers
    <3> QED
      BY <3>1, <3>2, Zenon
  <2>2. Arrived
    BY <1>5 DEF ReadStatus
  <2>3. CASE mode = "rtdb" /\ StatusOf(Line) = 0
    <3>1. Continue(h, StatusOf(Line), Rest, payload \o Line)
          /\ UNCHANGED <<requestVars, split, faults>>
      BY <1>5, <2>3 DEF ReadStatus
    <3> QED
      BY <1>1, <2>1, <2>2, <3>1, StatusType, ContinueType
  <2>4. CASE ~(mode = "rtdb" /\ StatusOf(Line) = 0)
    <3>1. Continue(h, StatusOf(Line), Rest, payload)
          /\ UNCHANGED <<requestVars, split, faults>>
      BY <1>5, <2>4 DEF ReadStatus
    <3> QED
      BY <1>0, <1>1, <2>1, <2>2, <3>1, StatusType, ContinueType
  <2> QED
    BY <2>3, <2>4
<1>6. ASSUME ReadHeaderLine PROVE TypeOK'
  <2> DEFINE h == [handler EXCEPT !.head = @ \cup (KindsOf(Line) \cap Lines)]
  <2>1. h \in Handlers
    BY <1>0 DEF Handlers
  <2>2. Arrived /\ Continue(h, code, Rest, payload) /\ UNCHANGED <<requestVars, split, faults>>
    BY <1>6 DEF ReadHeaderLine, InHeader
  <2> QED
    BY <1>0, <1>1, <2>1, <2>2, ContinueType
<1>7. ASSUME ReadBlankLine PROVE TypeOK'
  <2>1. Arrived /\ UNCHANGED <<requestVars, split, faults>>
        /\ (Finish(Parsed, code, Rest, payload) \/ Continue(Parsed, code, Rest, payload))
    BY <1>7 DEF ReadBlankLine, InHeader
  <2> QED
    BY <1>0, <1>1, <2>1, <1>24, ParsedType, ContinueType, FinishKeepsTypes
<1>8. ASSUME Redirect PROVE TypeOK'
  <2>1. request \in 1..MaxRequests
    BY <1>8 DEF Redirect, InHeader, Requested, TypeOK
  <2>2. wire' \in Seq(Pieces) /\ inbox' \in Seq(Pieces) /\ open' \in BOOLEAN
    BY <1>8, <2>1, ConnectType DEF Redirect
  <2> QED
    <3>1. redirects' \in 0..MaxRedirect /\ handler' \in Handlers /\ code' \in Codes
      BY <1>0, <1>8, <1>24, ParsedType DEF Redirect, TypeOK
    <3>2. shape' \in AllShapes \cup {"none"} /\ split' \in BOOLEAN
          /\ pc' \in {"idle", "wait", "read", "body"}
      BY <1>8 DEF Redirect, AllShapes
    <3> QED
      BY <1>8, <2>2, <3>1, <3>2, Zenon DEF Redirect, TypeOK
<1>9. ASSUME RedirectTooOften PROVE TypeOK'
  <2>1. Arrived /\ Finish(Parsed, -1, Rest, payload)
    BY <1>9 DEF RedirectTooOften, InHeader
  <2> QED
    BY <1>0, <1>1, <1>9, <2>1, <1>24, ParsedType, FinishType DEF RedirectTooOften, TypeOK
<1>10. ASSUME ReadLinePayload PROVE TypeOK'
  <2> DEFINE h == [handler EXCEPT !.read = @ + Len(Line)]
  <2>1. Arrived /\ UNCHANGED <<requestVars, split, faults>>
        /\ (Finish(h, code, Rest, payload \o Line) \/ Continue(h, code, Rest, payload \o Line))
    BY <1>10 DEF ReadLinePayload
  <2>2. h \in Handlers
    <3>1. Len(Line) \in Nat
      BY <1>1, <2>1
    <3> QED
      BY <1>24, <3>1 DEF Handlers
  <2> QED
    BY <1>0, <1>1, <2>1, <2>2, ContinueType, FinishKeepsTypes
<1>11. ASSUME BeginBody PROVE TypeOK'
  BY <1>11 DEF BeginBody, TypeOK, connVars, requestVars
<1>12. ASSUME ReadByte PROVE TypeOK'
  <2> DEFINE h == [handler EXCEPT !.read = @ + 1]
             content == Append(payload, Head(inbox))
  <2>1. Arrived /\ UNCHANGED <<requestVars, split, faults>>
        /\ (Finish(h, code, Tail(inbox), content) \/ Continue(h, code, Tail(inbox), content))
    BY <1>12 DEF ReadByte
  <2>2. h \in Handlers
    BY <1>24 DEF Handlers
  <2>3. Tail(inbox) \in Seq(Pieces) /\ content \in Seq(Pieces)
    BY <1>0, <2>1, HeadTailProperties, AppendProperties DEF Arrived
  <2> QED
    BY <1>0, <2>1, <2>2, <2>3, ContinueType, FinishKeepsTypes
<1>13. ASSUME ReadSize PROVE TypeOK'
  <2> DEFINE h == [handler EXCEPT !.inChunk = TRUE, !.got = 0]
  <2>1. Arrived /\ UNCHANGED <<requestVars, split, faults>>
        /\ (Continue(h, code, Rest, payload) \/ Finish(handler, code, <<>>, payload))
    BY <1>13 DEF ReadSize
  <2>2. h \in Handlers
    BY <1>24 DEF Handlers
  <2> QED
    BY <1>0, <1>1, <2>1, <2>2, ContinueType, FinishKeepsTypes
<1>14. ASSUME ReadChunk PROVE TypeOK'
  <2> DEFINE ended == Last(Line).kind = "crlf"
             bytes == IF ended THEN Front(Line) ELSE Line
             h == [handler EXCEPT !.inChunk = ~ended, !.got = @ + Len(bytes),
                                  !.read = @ + Len(Line)]
  <2>1. Arrived /\ UNCHANGED <<requestVars, split, faults>>
        /\ Continue(h, code, Rest, payload \o bytes)
    BY <1>14 DEF ReadChunk
  <2>2. bytes \in Seq(Pieces) /\ Len(bytes) \in Nat
    BY <1>1, <2>1, FrontFacts
  <2>3. h \in Handlers
    <3>1. \A b \in BOOLEAN, m \in Nat, n \in Nat :
            [handler EXCEPT !.inChunk = b, !.got = m, !.read = n] \in Handlers
      BY <1>24 DEF Handlers
    <3>2. /\ (~ended) \in BOOLEAN
          /\ handler.got + Len(bytes) \in Nat /\ handler.read + Len(Line) \in Nat
      <4>1. handler.got \in Nat /\ handler.read \in Nat
        BY <1>24 DEF Handlers
      <4> QED
        BY <1>1, <2>1, <2>2, <4>1, SMTT(30)
    <3> QED
      BY <3>1, <3>2, Zenon
  <2>4. payload \o bytes \in Seq(Pieces)
    BY <1>0, <2>2, ConcatProperties
  <2> QED
    BY <1>0, <1>1, <2>1, <2>3, <2>4, ContinueType
<1>15. ASSUME ChunkMissing PROVE TypeOK'
  BY <1>0, <1>15, FinishKeepsTypes DEF ChunkMissing
<1>16. ASSUME NothingMore PROVE TypeOK'
  BY <1>0, <1>16, FinishKeepsTypes DEF NothingMore
<1>17. ASSUME LoopFails PROVE TypeOK'
  BY <1>0, <1>17, CloseType DEF LoopFails, Fail, TypeOK, requestVars
<1>18. ASSUME WaitTimeout PROVE TypeOK'
  BY <1>0, <1>18, CloseType DEF WaitTimeout, Fail, TypeOK, requestVars
<1>19. ASSUME PayloadTimeout PROVE TypeOK'
  <2>1. ok' \in BOOLEAN
    BY <1>19 DEF PayloadTimeout
  <2> QED
    BY <1>19, <2>1, CloseType DEF PayloadTimeout, TypeOK, requestVars
<1>20. ASSUME TokenTimeout PROVE TypeOK'
  BY <1>0, <1>20, FinishKeepsTypes DEF TokenTimeout
<1>21. ASSUME NEW n \in 1..Len(wire), Deliver(n) PROVE TypeOK'
  <2>1. /\ inbox' = inbox \o SubSeq(wire, 1, n) /\ wire' = SubSeq(wire, n + 1, Len(wire))
        /\ split' \in BOOLEAN
    BY <1>21 DEF Deliver, TypeOK
  <2>2. wire \in Seq(Pieces) /\ Len(wire) \in Nat
    BY LenProperties DEF TypeOK
  <2>3. SubSeq(wire, 1, n) \in Seq(Pieces) /\ SubSeq(wire, n + 1, Len(wire)) \in Seq(Pieces)
    BY <2>2, ElementOfSeq, SubSeqProperties
  <2>4. wire' \in Seq(Pieces) /\ inbox' \in Seq(Pieces)
    BY <1>0, <2>1, <2>3, ConcatProperties
  <2> QED
    BY <1>21, <2>1, <2>4 DEF Deliver, TypeOK, requestVars, readVars
<1>22. ASSUME Disconnect PROVE TypeOK'
  <2>1. wire' \in Seq(Pieces) /\ inbox' \in Seq(Pieces) /\ faults' \in 0..MaxFaults
    BY <1>0, <1>22 DEF Disconnect, TypeOK
  <2>2. split' \in BOOLEAN /\ open' \in BOOLEAN
    BY <1>22, Zenon DEF Disconnect
  <2> QED
    BY <1>22, <2>1, <2>2, Zenon DEF Disconnect, TypeOK, requestVars, readVars
<1>23. CASE UNCHANGED vars
  BY <1>23 DEF TypeOK, vars, connVars, requestVars, readVars
<1> QED
  BY <1>2, <1>3, <1>4, <1>5, <1>6, <1>7, <1>8, <1>9, <1>10, <1>11, <1>12, <1>13, <1>14,
     <1>15, <1>16, <1>17, <1>18, <1>19, <1>20, <1>21, <1>22, <1>23 DEF Next, Read, Timeout

LEMMA InitType == Init => TypeOK /\ Requested
<1> SUFFICES ASSUME Init PROVE TypeOK /\ Requested
  OBVIOUS
<1>1. <<>> \in Seq(Pieces) /\ NewHandler \in Handlers
  BY DEF NewHandler, Handlers
<1>2. wire \in Seq(Pieces) /\ inbox \in Seq(Pieces) /\ payload \in Seq(Pieces)
      /\ handler \in Handlers
  BY <1>1, Zenon DEF Init
<1>3. open \in BOOLEAN /\ async \in BOOLEAN /\ split \in BOOLEAN /\ ok \in BOOLEAN
  BY Zenon DEF Init
<1> QED
  BY <1>2, <1>3, HttpAssumption DEF Init, TypeOK, Requested, Codes

\* What is sent, received and read keeps its types.
THEOREM HttpTypeCorrect == Spec => []TypeOK
BY InitType, TypeNext, RequestedNext, PTL DEF Spec

-----------------------------------------------------------------------------
(* Own answers *)

\* What was sent and has not been read.
Unread == inbox \o wire

\* The pieces of the request that runs, or of the latest.
Fresh(q) == \A n \in 1..Len(q) : q[n].req = request

\* From m on there is no status.
NoMark(q, m) == \A n \in m..Len(q) : q[n].kind \notin Marks

\* There is one status at most, of the answer to the request that runs, and what follows it
\* belongs to that answer.
MarkOnce(q) ==
    \A m \in 1..Len(q) : q[m].kind \in Marks =>
        NoMark(q, m + 1) /\ \A n \in m..Len(q) : q[n].req = request

\* What a connection that is kept still carries was not waited for, or has no status: the
\* next reader does not take it for its answer.
LeftBehind ==
    pc = "idle" /\ open => mode # "token" /\ (mode = "rtdb" => async \/ NoMark(Unread, 1))

Closed == ~open => inbox = <<>> /\ wire = <<>>

Running == pc # "idle" => ~ok /\ mode \in Readers

\* FirebaseCore's client carries one answer.
TokenOwn == pc # "idle" /\ mode = "token" => Fresh(Unread) /\ Fresh(payload)

\* Before its first line, FB_RTDB has nothing, and only its own answer has a status.
StatusAwaited ==
    pc # "idle" /\ mode = "rtdb" /\ ~handler.started =>
        pc \in {"wait", "read"} /\ MarkOnce(Unread) /\ payload = <<>> /\ code = 0

\* With a status, what has been and will be read is the answer; after a redirection, the
\* status of the new one is the first of the payload.
StatusRead ==
    pc # "idle" /\ mode = "rtdb" /\ code # 0 =>
        /\ Fresh(Unread) /\ Fresh(payload)
        /\ \/ NoMark(Unread, 1)
           \/ ~handler.inHeader /\ (pc = "wait" \/ Arrived) /\ NoMark(Unread, 2)

\* FB_CM alone reads what an earlier request left behind as an answer without a code,
\* which getError takes for a success.
OwnUnlessMessage == mode # "fcm" => OwnAnswer

OwnInv ==
    /\ LeftBehind /\ Closed /\ Running /\ TokenOwn /\ StatusAwaited /\ StatusRead
    /\ OwnUnlessMessage

\* k pieces are read, from the first.
Took(k) ==
    /\ k \in 0..Len(inbox) /\ Len(Unread) \in Nat
    /\ Len(Unread') = Len(Unread) - k
    /\ \A n \in 1..Len(Unread') : Unread'[n] = Unread[n + k]

LEMMA UnreadFacts ==
  ASSUME TypeOK
  PROVE  /\ Unread \in Seq(Pieces) /\ Len(inbox) \in Nat /\ Len(wire) \in Nat
         /\ Len(Unread) = Len(inbox) + Len(wire)
         /\ \A n \in 1..Len(inbox) : Unread[n] = inbox[n]
         /\ \A n \in 1..Len(wire) : Unread[Len(inbox) + n] = wire[n]
         /\ \A n \in 1..Len(Unread) :
               Unread[n] = IF n <= Len(inbox) THEN inbox[n] ELSE wire[n - Len(inbox)]
<1>1. inbox \in Seq(Pieces) /\ wire \in Seq(Pieces) /\ Len(inbox) \in Nat /\ Len(wire) \in Nat
  BY LenProperties DEF TypeOK
<1>2. /\ inbox \o wire \in Seq(Pieces) /\ Len(inbox \o wire) = Len(inbox) + Len(wire)
      /\ \A n \in 1..(Len(inbox) + Len(wire)) :
            (inbox \o wire)[n] = IF n <= Len(inbox) THEN inbox[n] ELSE wire[n - Len(inbox)]
  BY <1>1, ConcatProperties
<1> QED
  BY <1>1, <1>2 DEF Unread

LEMMA Regroup == \A p, q, r \in Seq(Pieces) : p \o (q \o r) = (p \o q) \o r
BY ConcatAssociative, SMTT(30)

\* Reading from the front of what has arrived.
LEMMA TookFront ==
  ASSUME TypeOK, TypeOK', NEW k \in 0..Len(inbox), wire' = wire,
         Len(inbox') = Len(inbox) - k, \A n \in 1..Len(inbox') : inbox'[n] = inbox[n + k]
  PROVE  Took(k)
<1>1. /\ Len(inbox) \in Nat /\ Len(wire) \in Nat /\ Len(Unread) = Len(inbox) + Len(wire)
      /\ \A n \in 1..Len(Unread) :
            Unread[n] = IF n <= Len(inbox) THEN inbox[n] ELSE wire[n - Len(inbox)]
  BY UnreadFacts
<1>2. /\ Len(inbox') \in Nat /\ Len(Unread') = Len(inbox') + Len(wire)
      /\ \A n \in 1..Len(Unread') :
            Unread'[n] = IF n <= Len(inbox') THEN inbox'[n] ELSE wire[n - Len(inbox')]
  <2>1. /\ Len(inbox') \in Nat /\ Len(Unread') = Len(inbox') + Len(wire')
        /\ \A n \in 1..Len(Unread') :
              Unread'[n] = IF n <= Len(inbox') THEN inbox'[n] ELSE wire'[n - Len(inbox')]
    <3>1. inbox' \in Seq(Pieces) /\ wire' \in Seq(Pieces) /\ Unread' = inbox' \o wire'
      BY DEF TypeOK, Unread
    <3>2. Len(inbox') \in Nat /\ Len(wire') \in Nat
      BY <3>1, LenProperties
    <3>3. /\ Len(inbox' \o wire') = Len(inbox') + Len(wire')
          /\ \A n \in 1..(Len(inbox') + Len(wire')) :
                (inbox' \o wire')[n]
                  = IF n <= Len(inbox') THEN inbox'[n] ELSE wire'[n - Len(inbox')]
      BY <3>1, ConcatProperties, Zenon
    <3> QED
      BY <3>1, <3>2, <3>3, Zenon
  <2> QED
    BY <2>1, Zenon
<1>3. Len(Unread') = Len(Unread) - k
  BY <1>1, <1>2
<1>4. ASSUME NEW n \in 1..Len(Unread') PROVE Unread'[n] = Unread[n + k]
  <2>1. n + k \in 1..Len(Unread) /\ n \in Int /\ k \in Int
    BY <1>1, <1>2, <1>3, <1>4
  <2>2. CASE n <= Len(inbox')
    BY <1>1, <1>2, <2>1, <2>2
  <2>3. CASE ~(n <= Len(inbox'))
    <3>1. n - Len(inbox') = (n + k) - Len(inbox) /\ ~(n + k <= Len(inbox))
      BY <1>1, <1>2, <2>1, <2>3
    <3> QED
      BY <1>1, <1>2, <2>1, <2>3, <3>1, Zenon
  <2> QED
    BY <2>2, <2>3
<1> QED
  BY <1>1, <1>3, <1>4 DEF Took

LEMMA TookRest ==
  ASSUME TypeOK, TypeOK', Arrived, inbox' = Rest, wire' = wire
  PROVE  Took(LineLength(inbox)) /\ LineLength(inbox) \in 1..Len(inbox)
<1> DEFINE k == LineLength(inbox)
<1>1. /\ k \in 1..Len(inbox) /\ Len(inbox) \in Nat /\ Len(Rest) = Len(inbox) - k
      /\ \A n \in 1..Len(Rest) : Rest[n] = inbox[k + n]
  BY LineAndRest DEF TypeOK
<1> HIDE DEF k
<1>2. k \in 0..Len(inbox) /\ \A n \in 1..Len(inbox') : inbox'[n] = inbox[n + k]
  <2>1. k \in 0..Len(inbox) /\ \A n \in 1..Len(Rest) : k + n = n + k
    BY <1>1
  <2> QED
    BY <1>1, <2>1, Zenon
<1>3. Took(k)
  BY <1>1, <1>2, TookFront
<1> QED
  BY <1>1, <1>3 DEF k

LEMMA TookTail ==
  ASSUME TypeOK, TypeOK', Arrived, inbox' = Tail(inbox), wire' = wire
  PROVE  Took(1) /\ 1 \in 1..Len(inbox)
<1>1. /\ Len(inbox) \in Nat \ {0} /\ Len(Tail(inbox)) = Len(inbox) - 1
      /\ \A n \in 1..Len(Tail(inbox)) : Tail(inbox)[n] = inbox[n + 1]
  BY EmptySeq, LenProperties, HeadTailProperties DEF TypeOK, Arrived
<1>2. 1 \in 0..Len(inbox) /\ 1 \in 1..Len(inbox)
  BY <1>1
<1> QED
  BY <1>1, <1>2, TookFront

LEMMA TookAll ==
  ASSUME TypeOK, TypeOK', inbox' = <<>>, wire' = wire
  PROVE  Took(Len(inbox)) /\ (Arrived => Len(inbox) >= 1)
<1>1. Len(inbox) \in Nat /\ (Arrived => Len(inbox) >= 1)
  BY EmptySeq, LenProperties DEF TypeOK, Arrived
<1>2. /\ Len(inbox) \in 0..Len(inbox) /\ Len(<<>>) = Len(inbox) - Len(inbox)
      /\ \A n \in 1..Len(<<>>) : FALSE
  BY <1>1
<1> QED
  BY <1>1, <1>2, TookFront

\* What is left unread keeps what was true of it.
LEMMA TookKeeps ==
  ASSUME NEW k, Took(k)
  PROVE  /\ Fresh(Unread) /\ request' = request => Fresh(Unread)'
         /\ NoMark(Unread, 1) => NoMark(Unread, 1)'
         /\ k >= 1 /\ NoMark(Unread, 2) => NoMark(Unread, 1)'
<1>1. \A n \in 1..Len(Unread') : n + k \in 1..Len(Unread) /\ Unread'[n] = Unread[n + k]
  BY DEF Took
<1>2. k >= 1 => \A n \in 1..Len(Unread') : n + k \in 2..Len(Unread)
  BY DEF Took
<1> QED
  BY <1>1, <1>2 DEF Fresh, NoMark

LEMMA FreshConcat ==
  ASSUME NEW p \in Seq(Pieces), NEW q \in Seq(Pieces), Fresh(p), Fresh(q)
  PROVE  Fresh(p \o q)
<1>1. Len(p) \in Nat /\ Len(q) \in Nat /\ Len(p \o q) = Len(p) + Len(q)
      /\ \A n \in 1..(Len(p) + Len(q)) : (p \o q)[n] = IF n <= Len(p) THEN p[n] ELSE q[n - Len(p)]
  BY LenProperties, ConcatProperties
<1> QED
  BY <1>1 DEF Fresh

LEMMA FreshLine ==
  ASSUME TypeOK, Arrived, Fresh(Unread)
  PROVE  Fresh(Line) /\ Fresh(Front(Line)) /\ Head(inbox).req = request
<1>1. /\ Line \in Seq(Pieces) /\ Len(Line) \in 1..Len(inbox) /\ Len(inbox) \in Nat
      /\ \A n \in 1..Len(Line) : Line[n] = inbox[n]
  BY LineAndRest DEF TypeOK
<1>2. \A n \in 1..Len(inbox) : inbox[n].req = request
  BY <1>1, UnreadFacts DEF Fresh
<1>3. Fresh(Line)
  BY <1>1, <1>2 DEF Fresh
<1>4. Len(Front(Line)) = Len(Line) - 1 /\ \A n \in 1..(Len(Line) - 1) : Front(Line)[n] = Line[n]
  <2>1. Len(Line) \in Nat \ {0}
    BY <1>1
  <2> QED
    BY <1>1, <2>1, FrontFacts
<1>5. Fresh(Front(Line))
  BY <1>1, <1>3, <1>4 DEF Fresh
<1>6. Head(inbox) = inbox[1]
  BY HeadTailProperties DEF TypeOK, Arrived
<1> QED
  BY <1>1, <1>2, <1>3, <1>5, <1>6

\* A line from which getStatusCode takes a code has one of the pieces it looks for.
LEMMA StatusHasMark ==
  ASSUME NEW line, StatusOf(line) # 0
  PROVE  \E m \in DOMAIN line : line[m].kind \in Marks
<1>1. \E c \in KindsOf(line) : c \in Marks
  BY DEF StatusOf, Marks
<1> QED
  BY <1>1 DEF KindsOf

\* A round of a loop: something is read, and what is added to the payload was there.
LEMMA ContinueKeeps ==
  ASSUME TypeOK, TypeOK', OwnInv, pc \in {"read", "body"}, Arrived,
         NEW h, NEW content, NEW left \in {Rest, Tail(inbox)},
         Continue(h, code, left, content), mode = "rtdb" => h.started, request' = request,
         Fresh(Unread) /\ Fresh(payload) => Fresh(content)
  PROVE  OwnInv'
<1>1. /\ handler' = h /\ code' = code /\ payload' = content /\ inbox' = left
      /\ pc' = pc /\ wire' = wire /\ open' = open /\ mode' = mode /\ async' = async /\ ok' = ok
  BY DEF Continue
<1>2. pc # "idle"
  OBVIOUS
<1>3. PICK k : Took(k) /\ k \in 1..Len(inbox)
  BY <1>1, TookRest, TookTail
<1>4. /\ Fresh(Unread) => Fresh(Unread)'
      /\ NoMark(Unread, 1) \/ NoMark(Unread, 2) => NoMark(Unread, 1)'
  <2>1. k >= 1
    BY <1>3
  <2> QED
    BY <1>3, <2>1, TookKeeps
<1>5. LeftBehind' /\ Running' /\ StatusAwaited' /\ OwnUnlessMessage'
  BY <1>1, <1>2 DEF OwnInv, LeftBehind, Running, StatusAwaited, OwnUnlessMessage, OwnAnswer
<1>6. Closed'
  BY <1>1 DEF OwnInv, Closed, Arrived
<1>7. Fresh(content) => Fresh(payload)'
  BY <1>1 DEF Fresh
<1>8. TokenOwn'
  BY <1>1, <1>2, <1>4, <1>7 DEF OwnInv, TokenOwn
<1>9. StatusRead'
  BY <1>1, <1>2, <1>4, <1>7 DEF OwnInv, StatusRead
<1> QED
  BY <1>5, <1>6, <1>8, <1>9 DEF OwnInv

\* A closed connection carries nothing, and what has been decided stays.
LEMMA CloseKeeps ==
  ASSUME TypeOK', Running, pc # "idle", Close, pc' = "idle", mode' = mode,
         mode # "fcm" => ~ok'
  PROVE  OwnInv'
<1>1. Closed' /\ LeftBehind'
  BY DEF Close, Closed, LeftBehind
<1>2. Running' /\ TokenOwn' /\ StatusAwaited' /\ StatusRead' /\ OwnUnlessMessage'
  BY DEF Running, TokenOwn, StatusAwaited, StatusRead, OwnUnlessMessage, OwnAnswer
<1> QED
  BY <1>1, <1>2 DEF OwnInv

\* The end of a loop: what FB_RTDB leaves on the connection has no status.
LEMMA FinishKeeps ==
  ASSUME TypeOK, TypeOK', OwnInv, pc \in {"read", "body"},
         NEW h, NEW c \in {code, -1}, NEW content, NEW left,
         \/ left = <<>> /\ (pc = "read" \/ Arrived)
         \/ Arrived /\ left \in {Rest, Tail(inbox)},
         Finish(h, c, left, content), request' = request,
         Fresh(Unread) /\ Fresh(payload) => Fresh(content)
  PROVE  OwnInv'
<1> DEFINE rest == IF h.chunked THEN <<>> ELSE left
<1>0. /\ pc # "idle" /\ ~ok /\ mode \in {"rtdb", "fcm", "token"} /\ Running
      /\ LeftBehind /\ Closed /\ TokenOwn /\ StatusAwaited /\ StatusRead
  BY HttpAssumption DEF OwnInv, Running, TypeOK
<1>1. payload' = content
  BY DEF Finish
<1>2. CASE Fail
  BY <1>0, <1>2, CloseKeeps DEF Fail
<1>3. CASE Succeed(rest) /\ IsSuccess(c, content) /\ mode = "token"
  <2>1. pc' = "idle" /\ Close /\ mode' = mode
    BY <1>3 DEF Succeed
  <2>2. Fresh(content)
    BY <1>0, <1>3 DEF TokenOwn
  <2>3. OwnUnlessMessage'
    BY <1>1, <2>2, LenProperties DEF OwnUnlessMessage, OwnAnswer, Fresh, TypeOK
  <2>4. Closed' /\ LeftBehind'
    BY <2>1 DEF Close, Closed, LeftBehind
  <2>5. Running' /\ TokenOwn' /\ StatusAwaited' /\ StatusRead'
    BY <2>1 DEF Running, TokenOwn, StatusAwaited, StatusRead
  <2> QED
    BY <2>3, <2>4, <2>5 DEF OwnInv
<1>4. CASE Succeed(rest) /\ IsSuccess(c, content) /\ mode = "rtdb"
  <2>1. /\ pc' = "idle" /\ inbox' = rest /\ wire' = wire /\ open' = open /\ mode' = mode
        /\ async' = async
    BY <1>4 DEF Succeed
  <2>2. code # 0
    <3>1. c \in {200, 204}
      BY <1>4 DEF IsSuccess
    <3> QED
      BY <3>1
  <2>3. /\ Fresh(Unread) /\ Fresh(content)
        /\ NoMark(Unread, 1) \/ (Arrived /\ NoMark(Unread, 2))
    <3>1. /\ Fresh(Unread) /\ Fresh(payload)
          /\ \/ NoMark(Unread, 1)
             \/ ~handler.inHeader /\ (pc = "wait" \/ Arrived) /\ NoMark(Unread, 2)
      BY <1>0, <1>4, <2>2, Zenon DEF StatusRead
    <3>2. pc # "wait"
      OBVIOUS
    <3> QED
      BY <3>1, <3>2, Zenon
  <2>4. OwnUnlessMessage'
    BY <1>1, <2>3, LenProperties DEF OwnUnlessMessage, OwnAnswer, Fresh, TypeOK
  <2>5. PICK k : Took(k) /\ (Arrived => k >= 1)
    <3>1. CASE rest = <<>>
      BY <2>1, <3>1, TookAll
    <3>2. CASE Arrived /\ rest \in {Rest, Tail(inbox)}
      BY <2>1, <3>2, TookRest, TookTail
    <3> QED
      BY <3>1, <3>2
  <2>6. NoMark(Unread, 1)'
    BY <2>3, <2>5, TookKeeps
  <2>7. LeftBehind'
    BY <1>4, <2>1, <2>6 DEF LeftBehind
  <2>8. Closed'
    <3>1. CASE open
      BY <2>1, <3>1 DEF Closed
    <3>2. CASE ~open
      BY <1>0, <2>1, <3>2 DEF Closed, Arrived
    <3> QED
      BY <3>1, <3>2
  <2>9. Running' /\ TokenOwn' /\ StatusAwaited' /\ StatusRead'
    BY <2>1 DEF Running, TokenOwn, StatusAwaited, StatusRead
  <2> QED
    BY <2>4, <2>7, <2>8, <2>9 DEF OwnInv
<1>5. CASE Succeed(rest) /\ IsSuccess(c, content) /\ mode = "fcm"
  <2>1. /\ pc' = "idle" /\ inbox' = rest /\ wire' = wire /\ open' = open /\ mode' = mode
    BY <1>5 DEF Succeed
  <2>2. Closed'
    <3>1. CASE open
      BY <2>1, <3>1 DEF Closed
    <3>2. CASE ~open
      BY <1>0, <2>1, <3>2 DEF Closed, Arrived
    <3> QED
      BY <3>1, <3>2
  <2>3. /\ LeftBehind' /\ Running' /\ TokenOwn' /\ StatusAwaited' /\ StatusRead'
        /\ OwnUnlessMessage'
    BY <1>5, <2>1 DEF LeftBehind, Running, TokenOwn, StatusAwaited, StatusRead,
       OwnUnlessMessage
  <2> QED
    BY <2>2, <2>3 DEF OwnInv
<1> QED
  BY <1>0, <1>2, <1>3, <1>4, <1>5 DEF Finish

\* The answer sent, behind what the connection still carries: at most its own status.
LEMMA SentKeeps ==
  ASSUME TypeOK, OwnInv, NEW r \in 1..MaxRequests, NEW s, NEW a \in Answer(r, s),
         NEW keep \in BOOLEAN, Connect(keep, a), request' = r,
         keep => NoMark(Unread, 1)
  PROVE  /\ MarkOnce(Unread)'
         /\ ~keep => Fresh(Unread)' /\ NoMark(Unread, 2)'
<1>1. /\ a \in Seq(Pieces) /\ Len(a) \in Nat \ {0} /\ \A n \in 1..Len(a) : a[n].req = r
      /\ \A n \in 2..Len(a) : a[n].kind \notin Marks
  BY AnswerFacts
<1> HIDE DEF Marks
<1>2. CASE ~keep
  <2>1. Unread' = a
    <3>1. inbox' = <<>> /\ wire' = <<>> \o a
      BY <1>2 DEF Connect
    <3>2. <<>> \o a = a
      BY <1>1, EmptySeq, ConcatEmptySeq
    <3> QED
      BY <3>1, <3>2, Zenon DEF Unread
  <2>2. Fresh(Unread)' /\ NoMark(Unread, 2)'
    BY <1>1, <2>1 DEF Fresh, NoMark
  <2>3. MarkOnce(Unread)'
    BY <1>1, <2>1 DEF MarkOnce, NoMark
  <2> QED
    BY <2>2, <2>3
<1>3. CASE keep
  <2>1. Unread' = Unread \o a
    <3>1. inbox' = inbox /\ wire' = wire \o a
      BY <1>3 DEF Connect
    <3>2. inbox \o (wire \o a) = (inbox \o wire) \o a
      <4>1. inbox \in Seq(Pieces) /\ wire \in Seq(Pieces)
        BY DEF TypeOK
      <4> QED
        BY <1>1, <4>1, Regroup, Zenon
    <3> QED
      BY <3>1, <3>2, Zenon DEF Unread
  <2>2. Unread \in Seq(Pieces) /\ Len(Unread) \in Nat /\ Len(a) \in Nat
    BY <1>1, UnreadFacts, LenProperties
  <2>3. /\ Len(Unread') = Len(Unread) + Len(a)
        /\ \A n \in 1..(Len(Unread) + Len(a)) :
              Unread'[n] = IF n <= Len(Unread) THEN Unread[n] ELSE a[n - Len(Unread)]
    BY <1>1, <2>1, <2>2, ConcatProperties
  <2>4. ASSUME NEW m \in 1..Len(Unread'), Unread'[m].kind \in Marks
        PROVE  m = Len(Unread) + 1
    <3>1. CASE m <= Len(Unread)
      BY <1>3, <2>2, <2>3, <2>4, <3>1 DEF NoMark
    <3>2. CASE m > Len(Unread) + 1
      <4>1. m - Len(Unread) \in 2..Len(a) /\ Unread'[m] = a[m - Len(Unread)]
        BY <2>2, <2>3, <2>4, <3>2
      <4> QED
        BY <1>1, <2>4, <4>1
    <3> QED
      BY <2>2, <2>3, <3>1, <3>2, SMTT(30)
  <2>5. ASSUME NEW n \in (Len(Unread) + 1)..Len(Unread')
        PROVE  Unread'[n].req = r
    <3>1. n - Len(Unread) \in 1..Len(a) /\ Unread'[n] = a[n - Len(Unread)]
      BY <2>2, <2>3, <2>5
    <3> QED
      BY <1>1, <3>1
  <2>6. ASSUME NEW m \in 1..Len(Unread'), Unread'[m].kind \in Marks,
               NEW n \in (m + 1)..Len(Unread'), Unread'[n].kind \in Marks
        PROVE  FALSE
    <3>1. Len(Unread') \in Nat
      BY <2>2, <2>3
    <3>2. n \in 1..Len(Unread') /\ n # m
      BY <2>6, <3>1
    <3> QED
      BY <2>4, <2>6, <3>2, Zenon
  <2>7. ASSUME NEW m \in 1..Len(Unread'), Unread'[m].kind \in Marks,
               NEW n \in m..Len(Unread')
        PROVE  Unread'[n].req = r
    BY <2>4, <2>5, <2>7
  <2> QED
    BY <1>3, <2>6, <2>7, Zenon DEF MarkOnce, NoMark
<1> QED
  BY <1>2, <1>3

\* The status that FB_RTDB reads is of its own answer, and so is the rest.
LEMMA StatusKeeps ==
  ASSUME TypeOK, NEW k \in 1..Len(inbox), Took(k), MarkOnce(Unread), Len(Line) = k, Arrived,
         StatusOf(Line) # 0, request' = request
  PROVE  Fresh(Unread)' /\ NoMark(Unread, 1)'
<1>1. PICK m \in DOMAIN Line : Line[m].kind \in Marks
  BY StatusHasMark
<1>2. /\ Line \in Seq(Pieces) /\ Len(inbox) \in Nat
      /\ \A n \in 1..Len(Line) : Line[n] = inbox[n]
  BY LineAndRest DEF TypeOK
<1>3. m \in 1..k
  BY <1>1, <1>2, LenProperties
<1>4. m \in 1..Len(Unread) /\ Unread[m] = Line[m]
  BY <1>2, <1>3, UnreadFacts
<1>5. /\ \A n \in (m + 1)..Len(Unread) : Unread[n].kind \notin Marks
      /\ \A n \in m..Len(Unread) : Unread[n].req = request
  BY <1>1, <1>4 DEF MarkOnce, NoMark
<1>6. ASSUME NEW n \in 1..Len(Unread')
      PROVE  n + k \in (m + 1)..Len(Unread) /\ Unread'[n] = Unread[n + k]
  BY <1>2, <1>3, <1>6 DEF Took
<1>7. ASSUME NEW n \in 1..Len(Unread')
      PROVE  Unread'[n].req = request /\ Unread'[n].kind \notin Marks
  <2>1. n + k \in (m + 1)..Len(Unread) /\ n + k \in m..Len(Unread)
    BY <1>3, <1>6
  <2> QED
    BY <1>5, <1>6, <2>1, Zenon
<1> QED
  BY <1>7, Zenon DEF Fresh, NoMark

\* Delivering moves pieces from one end of what is unread to the other.
LEMMA DeliverKeeps ==
  ASSUME TypeOK, NEW n \in 1..Len(wire), inbox' = inbox \o SubSeq(wire, 1, n),
         wire' = SubSeq(wire, n + 1, Len(wire))
  PROVE  Unread' = Unread /\ Arrived'
<1>1. inbox \in Seq(Pieces) /\ wire \in Seq(Pieces) /\ Len(wire) \in Nat
  BY LenProperties DEF TypeOK
<1>2. \A i \in 1..Len(wire) : wire[i] \in Pieces
  BY <1>1, ElementOfSeq
<1>3. /\ SubSeq(wire, 1, n) \in Seq(Pieces) /\ SubSeq(wire, n + 1, Len(wire)) \in Seq(Pieces)
      /\ Len(SubSeq(wire, 1, n)) = n
  BY <1>1, <1>2, SubSeqProperties, SMTT(30)
<1>4. SubSeq(wire, 1, n) \o SubSeq(wire, n + 1, Len(wire)) = wire
  <2>1. /\ 1 \in 1..(Len(wire) + 1) /\ n \in (1 - 1)..Len(wire)
        /\ Len(wire) \in n..Len(wire) /\ SubSeq(wire, 1, Len(wire)) = wire
    BY <1>1, SubSeqFull
  <2> QED
    BY <1>1, <2>1, ConcatAdjacentSubSeq
<1>5. Unread' = Unread
  <2>1. (inbox \o SubSeq(wire, 1, n)) \o SubSeq(wire, n + 1, Len(wire))
          = inbox \o (SubSeq(wire, 1, n) \o SubSeq(wire, n + 1, Len(wire)))
    BY <1>1, <1>3, Regroup, Zenon
  <2> QED
    BY <1>4, <2>1, Zenon DEF Unread
<1>6. Len(inbox \o SubSeq(wire, 1, n)) # 0
  BY <1>1, <1>3, LenProperties, ConcatProperties
<1> QED
  BY <1>5, <1>6 DEF Arrived

\* OwnInv is kept by every step.
LEMMA OwnNext ==
  ASSUME TypeOK, TypeOK', Requested, OwnInv, [Next]_vars
  PROVE  OwnInv'
<1> USE HttpAssumption
<1>0. /\ LeftBehind /\ Closed /\ Running /\ TokenOwn /\ StatusAwaited /\ StatusRead
      /\ OwnUnlessMessage
  BY DEF OwnInv
<1>1. ASSUME NEW r \in Readers, NEW s \in Shapes, Send(r, s) PROVE OwnInv'
  <2>1. /\ pc = "idle" /\ pc' = "wait" /\ mode' = r /\ ~ok' /\ ~handler'.started /\ code' = 0
        /\ payload' = <<>> /\ open' /\ request' = request + 1 /\ request + 1 \in 1..MaxRequests
    BY <1>1 DEF Send, Start, NewHandler, Connect, TypeOK
  <2>2. PICK old \in BOOLEAN, a \in Answer(request + 1, s) :
           Connect(open /\ ~Closes(r, old), a)
    BY <1>1 DEF Send
  <2> DEFINE keep == open /\ ~Closes(r, old)
  <2>3. keep \in BOOLEAN /\ Connect(keep, a)
    BY <2>2
  <2>4. r # "fcm" /\ keep => NoMark(Unread, 1) /\ r = "rtdb"
    BY <1>0, <1>1, <2>1 DEF LeftBehind, Closes
  <2>5. r # "fcm" => MarkOnce(Unread)' /\ (~keep => Fresh(Unread)')
    BY <2>1, <2>3, <2>4, SentKeeps
  <2>6. LeftBehind' /\ Closed' /\ OwnUnlessMessage' /\ StatusRead' /\ Running'
    BY <2>1 DEF LeftBehind, Closed, OwnUnlessMessage, OwnAnswer, StatusRead, Running
  <2>8. StatusAwaited'
    BY <2>1, <2>5 DEF StatusAwaited
  <2>9. Fresh(payload)'
    BY <2>1 DEF Fresh
  <2>10. TokenOwn'
    BY <2>1, <2>4, <2>5, <2>9 DEF TokenOwn
  <2> QED
    BY <2>6, <2>8, <2>10 DEF OwnInv
<1>2. ASSUME NEW s \in Shapes, SendAsync(s) PROVE OwnInv'
  <2>1. pc' = "idle" /\ mode' = "rtdb" /\ ~ok' /\ open' /\ async'
    BY <1>2 DEF SendAsync, Start, Connect
  <2> QED
    BY <2>1 DEF OwnInv, LeftBehind, Closed, Running, TokenOwn, StatusAwaited, StatusRead,
       OwnUnlessMessage, OwnAnswer
<1>3. ASSUME WaitEnds PROVE OwnInv'
  <2>1. /\ pc = "wait" /\ pc' = "read" /\ (Arrived \/ ~open)
        /\ UNCHANGED <<wire, inbox, open, mode, async, request, handler, code, payload, ok>>
    BY <1>3 DEF WaitEnds, connVars, requestVars
  <2>2. /\ Unread' = Unread /\ (Fresh(Unread) => Fresh(Unread)')
        /\ (Fresh(payload) => Fresh(payload)')
    BY <2>1 DEF Unread, Fresh
  <2>3. LeftBehind' /\ Closed' /\ Running' /\ OwnUnlessMessage'
    BY <1>0, <2>1 DEF LeftBehind, Closed, Running, OwnUnlessMessage, OwnAnswer
  <2>4. TokenOwn'
    BY <1>0, <2>1, <2>2 DEF TokenOwn
  <2>5. MarkOnce(Unread) => MarkOnce(Unread)'
    BY <2>1, <2>2 DEF MarkOnce, NoMark
  <2>6. StatusAwaited'
    BY <1>0, <2>1, <2>5 DEF StatusAwaited
  <2>9. StatusRead' => OwnInv'
    BY <2>3, <2>4, <2>6 DEF OwnInv
  <2>7. CASE Arrived
    <3>1. Arrived' /\ (NoMark(Unread, 1) => NoMark(Unread, 1)')
          /\ (NoMark(Unread, 2) => NoMark(Unread, 2)')
      BY <2>1, <2>2, <2>7 DEF NoMark, Arrived
    <3>2. StatusRead'
      BY <1>0, <2>1, <2>2, <3>1 DEF StatusRead
    <3> QED
      BY <2>9, <3>2
  <2>8. CASE ~open
    <3>1. Unread = <<>>
      BY <1>0, <2>8, ConcatEmptySeq DEF Closed, Unread
    <3>2. NoMark(Unread, 1)'
      BY <2>2, <3>1 DEF NoMark
    <3>3. StatusRead'
      BY <1>0, <2>1, <2>2, <3>2 DEF StatusRead
    <3> QED
      BY <2>9, <3>3
  <2> QED
    BY <2>1, <2>7, <2>8
<1>4. ASSUME ReadStatus PROVE OwnInv'
  <2> DEFINE status == StatusOf(Line)
             added == IF mode = "rtdb" /\ status = 0 THEN payload \o Line ELSE payload
  <2>1. /\ pc = "read" /\ ~handler.started /\ Arrived /\ handler'.started /\ code' = status
        /\ payload' = added /\ inbox' = Rest /\ request' = request
        /\ UNCHANGED <<pc, wire, open, mode, async, ok>>
    <3>1. /\ pc = "read" /\ ~handler.started /\ Arrived /\ request' = request
          /\ Continue([handler EXCEPT !.started = TRUE, !.inHeader = status > 0], status,
                      Rest, added)
      BY <1>4 DEF ReadStatus, requestVars
    <3>2. [handler EXCEPT !.started = TRUE, !.inHeader = status > 0].started
      BY DEF TypeOK, Handlers
    <3> QED
      BY <3>1, <3>2 DEF Continue
  <2>2. PICK k : k = LineLength(inbox) /\ Took(k) /\ k \in 1..Len(inbox) /\ Len(Line) = k
    BY <2>1, TookRest, LineAndRest DEF TypeOK
  <2>3. LeftBehind' /\ Closed' /\ Running' /\ StatusAwaited' /\ OwnUnlessMessage'
    BY <1>0, <2>1 DEF LeftBehind, Closed, Running, StatusAwaited, OwnUnlessMessage, OwnAnswer, Arrived
  <2>4. TokenOwn'
    <3>1. mode = "token" => added = payload
      OBVIOUS
    <3>2. mode = "token" => Fresh(Unread)' /\ Fresh(payload)'
      BY <1>0, <2>1, <2>2, <3>1, TookKeeps DEF TokenOwn, Fresh
    <3> QED
      BY <2>1, <3>2 DEF TokenOwn
  <2>5. StatusRead'
    <3> SUFFICES ASSUME mode = "rtdb", status # 0
                 PROVE  Fresh(Unread)' /\ Fresh(payload)' /\ NoMark(Unread, 1)'
      BY <2>1 DEF StatusRead
    <3>1. MarkOnce(Unread) /\ payload = <<>>
      BY <1>0, <2>1 DEF StatusAwaited
    <3>2. Fresh(Unread)' /\ NoMark(Unread, 1)'
      BY <2>1, <2>2, <3>1, StatusKeeps
    <3>3. Fresh(payload)'
      BY <2>1, <3>1 DEF Fresh
    <3> QED
      BY <3>2, <3>3
  <2> QED
    BY <2>3, <2>4, <2>5 DEF OwnInv
<1>5. ASSUME ReadHeaderLine PROVE OwnInv'
  <2> DEFINE h == [handler EXCEPT !.head = @ \cup (KindsOf(Line) \cap Lines)]
  <2>1. /\ pc = "read" /\ handler.started /\ Arrived /\ request' = request
        /\ Continue(h, code, Rest, payload)
    BY <1>5 DEF ReadHeaderLine, InHeader, requestVars
  <2>2. h.started
    BY <2>1 DEF TypeOK, Handlers
  <2> QED
    BY <2>1, <2>2, ContinueKeeps
<1>6. ASSUME ReadBlankLine PROVE OwnInv'
  <2>1. /\ pc = "read" /\ handler.started /\ Arrived /\ request' = request
        /\ Continue(Parsed, code, Rest, payload) \/ Finish(Parsed, code, Rest, payload)
    BY <1>6 DEF ReadBlankLine, InHeader, requestVars
  <2>2. Parsed.started
    BY <2>1 DEF TypeOK, Handlers, Parsed
  <2>3. CASE Continue(Parsed, code, Rest, payload)
    BY <2>1, <2>2, <2>3, ContinueKeeps
  <2>4. CASE Finish(Parsed, code, Rest, payload)
    BY <2>1, <2>4, FinishKeeps
  <2> QED
    BY <2>1, <2>3, <2>4
<1>7. ASSUME Redirect PROVE OwnInv'
  <2>1. /\ pc # "idle" /\ pc' = "wait" /\ open' /\ code = 307 /\ handler' = Parsed
        /\ UNCHANGED <<mode, request, payload, ok>> /\ handler.started
    BY <1>7 DEF Redirect, InHeader, Connect
  <2>2. Parsed.started /\ ~Parsed.inHeader
    BY <2>1 DEF TypeOK, Handlers, Parsed
  <2>3. PICK a \in Answer(request, "length") : Connect(FALSE, a)
    BY <1>7 DEF Redirect
  <2>4. request \in 1..MaxRequests
    BY <2>1 DEF Requested, TypeOK
  <2>5. Fresh(Unread)' /\ NoMark(Unread, 2)'
    BY <2>1, <2>3, <2>4, SentKeeps
  <2>6. Fresh(payload) => Fresh(payload)'
    BY <2>1 DEF Fresh
  <2>7. LeftBehind' /\ Closed' /\ Running' /\ StatusAwaited' /\ OwnUnlessMessage'
    BY <1>0, <2>1, <2>2 DEF LeftBehind, Closed, Running, StatusAwaited, OwnUnlessMessage, OwnAnswer
  <2>8. TokenOwn'
    BY <1>0, <2>1, <2>5, <2>6 DEF TokenOwn
  <2>9. StatusRead'
    BY <1>0, <2>1, <2>2, <2>5, <2>6 DEF StatusRead
  <2> QED
    BY <2>7, <2>8, <2>9 DEF OwnInv
<1>8. ASSUME RedirectTooOften PROVE OwnInv'
  <2>1. /\ pc = "read" /\ Arrived /\ request' = request /\ Finish(Parsed, -1, Rest, payload)
    BY <1>8 DEF RedirectTooOften, InHeader
  <2> QED
    BY <2>1, FinishKeeps
<1>9. ASSUME ReadLinePayload PROVE OwnInv'
  <2> DEFINE h == [handler EXCEPT !.read = @ + Len(Line)]
             content == payload \o Line
  <2>1. /\ pc = "read" /\ handler.started /\ Arrived /\ request' = request
        /\ Continue(h, code, Rest, content) \/ Finish(h, code, Rest, content)
    BY <1>9 DEF ReadLinePayload, InPayload, requestVars
  <2>2. h.started
    BY <2>1 DEF TypeOK, Handlers
  <2>3. Fresh(Unread) /\ Fresh(payload) => Fresh(content)
    BY <2>1, LineAndRest, FreshLine, FreshConcat DEF TypeOK
  <2> HIDE DEF h, content
  <2>4. CASE Continue(h, code, Rest, content)
    BY <2>1, <2>2, <2>3, <2>4, ContinueKeeps
  <2>5. CASE Finish(h, code, Rest, content)
    BY <2>1, <2>3, <2>5, FinishKeeps
  <2> QED
    BY <2>1, <2>4, <2>5
<1>10. ASSUME BeginBody PROVE OwnInv'
  <2>1. /\ pc = "read" /\ pc' = "body" /\ Arrived /\ handler.started
        /\ UNCHANGED <<wire, inbox, open, mode, async, request, handler, code, payload, ok>>
    BY <1>10 DEF BeginBody, InPayload, connVars, requestVars
  <2>2. LeftBehind' /\ Closed' /\ Running' /\ StatusAwaited' /\ OwnUnlessMessage'
    BY <1>0, <2>1 DEF LeftBehind, Closed, Running, StatusAwaited, OwnUnlessMessage, OwnAnswer
  <2>3. TokenOwn'
    BY <1>0, <2>1 DEF TokenOwn, Fresh, Unread
  <2>4. StatusRead'
    BY <1>0, <2>1 DEF StatusRead, Fresh, Unread, NoMark, Arrived
  <2> QED
    BY <2>2, <2>3, <2>4 DEF OwnInv
<1>11. ASSUME ReadByte PROVE OwnInv'
  <2> DEFINE h == [handler EXCEPT !.read = @ + 1]
             content == Append(payload, Head(inbox))
  <2>1. /\ pc = "body" /\ Arrived /\ request' = request
        /\ Continue(h, code, Tail(inbox), content) \/ Finish(h, code, Tail(inbox), content)
    BY <1>11 DEF ReadByte, requestVars
  <2>2. mode = "rtdb" => handler.started
    BY <1>0, <2>1 DEF StatusAwaited
  <2>3. h.started = handler.started
    BY DEF TypeOK, Handlers
  <2>4. Fresh(Unread) /\ Fresh(payload) => Fresh(content)
    <3>1. /\ payload \in Seq(Pieces) /\ Len(payload) \in Nat /\ Head(inbox) \in Pieces
          /\ Len(content) = Len(payload) + 1
          /\ \A n \in 1..Len(payload) : content[n] = payload[n]
          /\ content[Len(payload) + 1] = Head(inbox)
      BY <2>1, HeadTailProperties, AppendProperties, LenProperties DEF TypeOK, Arrived
    <3>2. Fresh(Unread) => Head(inbox).req = request
      BY <2>1, FreshLine
    <3> HIDE DEF content
    <3> QED
      BY <3>1, <3>2 DEF Fresh
  <2> HIDE DEF h, content
  <2>5. CASE Continue(h, code, Tail(inbox), content)
    BY <2>1, <2>2, <2>3, <2>4, <2>5, ContinueKeeps
  <2>6. CASE Finish(h, code, Tail(inbox), content)
    BY <2>1, <2>4, <2>6, FinishKeeps
  <2> QED
    BY <2>1, <2>5, <2>6
<1>12. ASSUME ReadSize PROVE OwnInv'
  <2> DEFINE h == [handler EXCEPT !.inChunk = TRUE, !.got = 0]
  <2>1. /\ pc = "read" /\ handler.started /\ Arrived /\ request' = request
        /\ Continue(h, code, Rest, payload) \/ Finish(handler, code, <<>>, payload)
    BY <1>12 DEF ReadSize, InChunks, InPayload, requestVars
  <2>2. h.started
    BY <2>1 DEF TypeOK, Handlers
  <2>3. CASE Continue(h, code, Rest, payload)
    BY <2>1, <2>2, <2>3, ContinueKeeps
  <2>4. CASE Finish(handler, code, <<>>, payload)
    BY <2>1, <2>4, FinishKeeps
  <2> QED
    BY <2>1, <2>3, <2>4
<1>13. ASSUME ReadChunk PROVE OwnInv'
  <2> DEFINE ended == Last(Line).kind = "crlf"
             bytes == IF ended THEN Front(Line) ELSE Line
             h == [handler EXCEPT !.inChunk = ~ended, !.got = @ + Len(bytes),
                                  !.read = @ + Len(Line)]
             content == payload \o bytes
  <2>1. /\ pc = "read" /\ handler.started /\ Arrived /\ request' = request
        /\ Continue(h, code, Rest, content)
    BY <1>13 DEF ReadChunk, InChunks, InPayload, requestVars
  <2>2. h.started
    BY <2>1 DEF TypeOK, Handlers
  <2>3. Line \in Seq(Pieces) /\ Len(Line) \in Nat \ {0} /\ Front(Line) \in Seq(Pieces)
    <3>1. Line \in Seq(Pieces) /\ Len(Line) \in Nat \ {0}
      BY <2>1, LineAndRest, SMTT(30) DEF TypeOK
    <3> QED
      BY <3>1, FrontFacts
  <2>4. Fresh(Unread) /\ Fresh(payload) => Fresh(content)
    <3>1. bytes \in Seq(Pieces) /\ (Fresh(Unread) => Fresh(bytes))
      BY <2>1, <2>3, FreshLine
    <3> QED
      BY <3>1, FreshConcat DEF TypeOK
  <2> HIDE DEF h, content
  <2> QED
    BY <2>1, <2>2, <2>4, ContinueKeeps
<1>14. ASSUME ChunkMissing \/ NothingMore \/ TokenTimeout PROVE OwnInv'
  <2>1. pc = "read" /\ request' = request /\ Finish(handler, code, <<>>, payload)
    BY <1>14 DEF ChunkMissing, NothingMore, TokenTimeout, InChunks, InPayload, requestVars
  <2> QED
    BY <2>1, FinishKeeps
<1>15. ASSUME LoopFails \/ WaitTimeout PROVE OwnInv'
  <2>1. pc # "idle" /\ Fail
    BY <1>15 DEF LoopFails, WaitTimeout
  <2> QED
    BY <1>0, <2>1, CloseKeeps DEF Fail, Running
<1>16. ASSUME PayloadTimeout PROVE OwnInv'
  <2>1. pc # "idle" /\ Close /\ pc' = "idle" /\ mode' = mode
    BY <1>16 DEF PayloadTimeout
  <2>2. mode # "fcm" => ~ok'
    BY <1>0, <1>16, <2>1 DEF PayloadTimeout, Running
  <2> QED
    BY <1>0, <2>1, <2>2, CloseKeeps
<1>17. ASSUME NEW n \in 1..Len(wire), Deliver(n) PROVE OwnInv'
  <2>1. /\ inbox' = inbox \o SubSeq(wire, 1, n) /\ wire' = SubSeq(wire, n + 1, Len(wire))
        /\ open /\ UNCHANGED <<open, mode, async, request, pc, handler, code, payload, ok>>
    BY <1>17 DEF Deliver, requestVars, readVars
  <2>2. Unread' = Unread /\ Arrived'
    BY <2>1, DeliverKeeps
  <2>3. Closed' /\ Running' /\ OwnUnlessMessage'
    BY <1>0, <2>1 DEF Closed, Running, OwnUnlessMessage, OwnAnswer
  <2>4. LeftBehind'
    BY <1>0, <2>1, <2>2 DEF LeftBehind, NoMark
  <2>5. TokenOwn'
    BY <1>0, <2>1, <2>2 DEF TokenOwn, Fresh
  <2>6. StatusAwaited'
    BY <1>0, <2>1, <2>2 DEF StatusAwaited, MarkOnce, NoMark
  <2>7. StatusRead'
    BY <1>0, <2>1, <2>2 DEF StatusRead, Fresh, NoMark
  <2> QED
    BY <2>3, <2>4, <2>5, <2>6, <2>7 DEF OwnInv
<1>18. ASSUME Disconnect PROVE OwnInv'
  <2>1. /\ inbox' = <<>> /\ wire' = <<>> /\ ~open'
        /\ UNCHANGED <<mode, async, request, pc, handler, code, payload, ok>>
    BY <1>18 DEF Disconnect, requestVars, readVars
  <2>2. Unread' = <<>>
    BY <2>1 DEF Unread
  <2>3. Fresh(Unread)' /\ NoMark(Unread, 1)' /\ MarkOnce(Unread)'
    BY <2>2 DEF Fresh, NoMark, MarkOnce
  <2>4. LeftBehind' /\ Closed' /\ Running' /\ OwnUnlessMessage'
    BY <1>0, <2>1 DEF LeftBehind, Closed, Running, OwnUnlessMessage, OwnAnswer
  <2>5. Fresh(payload) => Fresh(payload)'
    BY <2>1 DEF Fresh
  <2>6. TokenOwn' /\ StatusAwaited' /\ StatusRead'
    BY <1>0, <2>1, <2>3, <2>5 DEF TokenOwn, StatusAwaited, StatusRead
  <2> QED
    BY <2>4, <2>6 DEF OwnInv
<1>19. CASE UNCHANGED vars
  <2>1. UNCHANGED <<wire, inbox, open, mode, async, request, pc, handler, code, payload, ok>>
    BY <1>19 DEF vars, connVars, requestVars, readVars
  <2>2. LeftBehind' /\ Closed' /\ Running' /\ OwnUnlessMessage'
    BY <1>0, <2>1 DEF LeftBehind, Closed, Running, OwnUnlessMessage, OwnAnswer, NoMark, Unread
  <2>3. TokenOwn'
    BY <1>0, <2>1 DEF TokenOwn, Fresh, Unread
  <2>4. StatusAwaited'
    BY <1>0, <2>1 DEF StatusAwaited, MarkOnce, NoMark, Unread
  <2>5. StatusRead'
    BY <1>0, <2>1 DEF StatusRead, Fresh, NoMark, Unread, Arrived
  <2> QED
    BY <2>2, <2>3, <2>4, <2>5 DEF OwnInv
<1> QED
  BY <1>1, <1>2, <1>3, <1>4, <1>5, <1>6, <1>7, <1>8, <1>9, <1>10, <1>11, <1>12, <1>13,
     <1>14, <1>15, <1>16, <1>17, <1>18, <1>19 DEF Next, Read, Timeout

LEMMA OwnInvariant == Spec => []OwnInv
<1>1. Init => TypeOK /\ Requested /\ OwnInv
  <2>1. Init => OwnInv
    BY DEF Init, OwnInv, LeftBehind, Closed, Running, TokenOwn, StatusAwaited, StatusRead,
       OwnUnlessMessage, OwnAnswer
  <2> QED
    BY <2>1, InitType
<1>2. TypeOK /\ Requested /\ OwnInv /\ [Next]_vars => (TypeOK /\ Requested /\ OwnInv)'
  BY TypeNext, RequestedNext, OwnNext
<1> QED
  BY <1>1, <1>2, PTL DEF Spec

\* A request of FB_RTDB or FirebaseCore that returns TRUE was given the answer to itself,
\* and never what an earlier one left on the connection: whatever the server answers,
\* wherever its lines are cut, whenever they arrive, and however often the connection is
\* lost.
THEOREM AnswersAreOwn == Spec => [](mode # "fcm" => OwnAnswer)
<1>1. OwnInv => (mode # "fcm" => OwnAnswer)
  BY DEF OwnInv, OwnUnlessMessage
<1> QED
  BY <1>1, OwnInvariant, PTL

\* So does every request of a program that sends no messages.
THEOREM AnswersAreOwnWithoutMessages ==
  ASSUME "fcm" \notin Readers PROVE Spec => []OwnAnswer
<1>1. TypeOK => mode # "fcm"
  BY DEF TypeOK
<1> QED
  BY <1>1, HttpTypeCorrect, AnswersAreOwn, PTL

-----------------------------------------------------------------------------
(* Lines *)

\* The kinds of pieces, in order.
KindSeq(q) == [n \in 1..Len(q) |-> q[n].kind]

\* What is sent as a line: only its last piece ends it.
IsLine(l) ==
    /\ l \in Seq(Kinds) /\ Len(l) \in Nat \ {0}
    /\ l[Len(l)] \in Lines /\ \A n \in 1..(Len(l) - 1) : l[n] \notin Lines

\* Only bytes of a body, which an answer that is not split may be cut before.
BodyOnly(q) == \A n \in 1..Len(q) : InBody(q[n])

LEMMA KindSeqFacts ==
  ASSUME NEW q \in Seq(Pieces)
  PROVE  /\ KindSeq(q) \in Seq(Kinds) /\ Len(KindSeq(q)) = Len(q) /\ Len(q) \in Nat
         /\ \A n \in 1..Len(q) : KindSeq(q)[n] = q[n].kind
<1>1. Len(q) \in Nat /\ \A n \in 1..Len(q) : q[n] \in Pieces
  BY ElementOfSeq, LenProperties
<1>2. \A n \in 1..Len(q) : q[n].kind \in Kinds
  BY <1>1 DEF Pieces
<1>3. KindSeq(q) \in [1..Len(q) -> Kinds]
  BY <1>2 DEF KindSeq
<1>4. KindSeq(q) \in Seq(Kinds) /\ Len(KindSeq(q)) = Len(q)
  BY <1>1, <1>3, SeqDef, LenProperties
<1> QED
  BY <1>1, <1>4 DEF KindSeq

LEMMA KindSeqConcat ==
  ASSUME NEW p \in Seq(Pieces), NEW q \in Seq(Pieces)
  PROVE  KindSeq(p \o q) = KindSeq(p) \o KindSeq(q)
<1>1. /\ p \o q \in Seq(Pieces) /\ Len(p \o q) = Len(p) + Len(q)
      /\ \A n \in 1..(Len(p) + Len(q)) : (p \o q)[n] = IF n <= Len(p) THEN p[n] ELSE q[n - Len(p)]
  BY ConcatProperties
<1>2. /\ KindSeq(p) \in Seq(Kinds) /\ Len(KindSeq(p)) = Len(p) /\ Len(p) \in Nat
      /\ KindSeq(q) \in Seq(Kinds) /\ Len(KindSeq(q)) = Len(q) /\ Len(q) \in Nat
      /\ \A n \in 1..Len(p) : KindSeq(p)[n] = p[n].kind
      /\ \A n \in 1..Len(q) : KindSeq(q)[n] = q[n].kind
  BY KindSeqFacts
<1>3. /\ KindSeq(p \o q) \in Seq(Kinds) /\ Len(KindSeq(p \o q)) = Len(p) + Len(q)
      /\ \A n \in 1..(Len(p) + Len(q)) : KindSeq(p \o q)[n] = (p \o q)[n].kind
  BY <1>1, KindSeqFacts
<1>4. /\ KindSeq(p) \o KindSeq(q) \in Seq(Kinds)
      /\ Len(KindSeq(p) \o KindSeq(q)) = Len(p) + Len(q)
      /\ \A n \in 1..(Len(p) + Len(q)) :
            (KindSeq(p) \o KindSeq(q))[n]
              = IF n <= Len(p) THEN KindSeq(p)[n] ELSE KindSeq(q)[n - Len(p)]
  <2> DEFINE k == KindSeq(p)
             m == KindSeq(q)
  <2>1. k \in Seq(Kinds) /\ m \in Seq(Kinds) /\ Len(k) = Len(p) /\ Len(m) = Len(q)
    BY <1>2
  <2> HIDE DEF k, m
  <2>2. /\ k \o m \in Seq(Kinds) /\ Len(k \o m) = Len(k) + Len(m)
        /\ \A n \in 1..(Len(k) + Len(m)) :
              (k \o m)[n] = IF n <= Len(k) THEN k[n] ELSE m[n - Len(k)]
    BY <2>1, ConcatProperties
  <2> QED
    BY <2>1, <2>2, Zenon DEF k, m
<1>5. ASSUME NEW n \in 1..(Len(p) + Len(q))
      PROVE  KindSeq(p \o q)[n] = (KindSeq(p) \o KindSeq(q))[n]
  <2>1. n <= Len(p) => n \in 1..Len(p)
    BY <1>2
  <2>2. ~(n <= Len(p)) => n - Len(p) \in 1..Len(q)
    BY <1>2
  <2> QED
    BY <1>1, <1>2, <1>3, <1>4, <2>1, <2>2, Zenon
<1> QED
  BY <1>3, <1>4, <1>5, SeqEqual, Zenon

\* What is unread begins with a line: it is the line that is read, and what follows it is
\* what is left.
LEMMA LineTaken ==
  ASSUME TypeOK, NEW l, IsLine(l), NEW r \in Seq(Kinds), KindSeq(Unread) = l \o r,
         BodyOnly(wire)
  PROVE  /\ Arrived /\ LineLength(inbox) = Len(l) /\ Line \in Seq(Pieces) /\ Len(Line) = Len(l)
         /\ \A n \in 1..Len(l) : Line[n].kind = l[n]
         /\ KindsOf(Line) = {l[n] : n \in 1..Len(l)}
<1>1. /\ Len(inbox) \in Nat /\ Len(wire) \in Nat /\ Len(Unread) = Len(inbox) + Len(wire)
      /\ Unread \in Seq(Pieces)
      /\ \A n \in 1..Len(inbox) : Unread[n] = inbox[n]
      /\ \A n \in 1..Len(wire) : Unread[Len(inbox) + n] = wire[n]
  BY UnreadFacts
<1>2. /\ l \in Seq(Kinds) /\ Len(l) \in Nat \ {0} /\ l[Len(l)] \in Lines
      /\ \A n \in 1..(Len(l) - 1) : l[n] \notin Lines
  BY DEF IsLine
<1>3. /\ Len(r) \in Nat /\ Len(l \o r) = Len(l) + Len(r)
      /\ \A n \in 1..(Len(l) + Len(r)) : (l \o r)[n] = IF n <= Len(l) THEN l[n] ELSE r[n - Len(l)]
  BY <1>2, LenProperties, ConcatProperties
<1>4. Len(Unread) = Len(l) + Len(r) /\ \A n \in 1..Len(l) : Unread[n].kind = l[n]
  <2>1. Len(Unread) = Len(l) + Len(r)
    BY <1>1, <1>3, KindSeqFacts
  <2>2. ASSUME NEW n \in 1..Len(l) PROVE Unread[n].kind = l[n]
    <3>1. n \in 1..Len(Unread) /\ n \in 1..(Len(l) + Len(r)) /\ n <= Len(l)
      BY <1>2, <1>3, <2>1
    <3> QED
      BY <1>1, <1>3, <3>1, KindSeqFacts, Zenon
  <2> QED
    BY <2>1, <2>2
<1>5. Len(l) <= Len(inbox)
  <2> SUFFICES ASSUME Len(l) > Len(inbox) PROVE FALSE
    BY <1>1, <1>2
  <2>1. Len(l) - Len(inbox) \in 1..Len(wire) /\ Len(inbox) + (Len(l) - Len(inbox)) = Len(l)
    BY <1>1, <1>2, <1>3, <1>4
  <2>2. Unread[Len(l)].kind \in {"body", "error"}
    BY <1>1, <2>1 DEF BodyOnly, InBody
  <2>3. Unread[Len(l)].kind \in Lines
    BY <1>2, <1>4, SMTT(30)
  <2> QED
    BY <2>2, <2>3 DEF Lines
<1>6. Arrived
  BY <1>1, <1>2, <1>5 DEF Arrived
<1>7. inbox \in Seq(Pieces) /\ DOMAIN inbox = 1..Len(inbox)
  BY LenProperties DEF TypeOK
<1>8. LineLength(inbox) = Len(l)
  <2> DEFINE ends == {n \in DOMAIN inbox : inbox[n].kind \in Lines}
  <2>1. \A n \in 1..Len(l) : n \in DOMAIN inbox /\ inbox[n].kind = l[n]
    BY <1>1, <1>2, <1>4, <1>5, <1>7
  <2>2. Len(l) \in ends
    BY <1>2, <2>1
  <2>3. Min(ends) \in ends /\ Min(ends) <= Len(l)
    <3>1. ends \subseteq Nat /\ ends # {}
      <4>1. ends \subseteq DOMAIN inbox
        OBVIOUS
      <4>2. 1..Len(inbox) \subseteq Nat
        BY <1>1
      <4> HIDE DEF ends
      <4> QED
        BY <1>7, <2>2, <4>1, <4>2, Zenon
    <3> HIDE DEF ends
    <3> QED
      BY <2>2, <3>1, MinIsLeast
  <2>4. Min(ends) \in Nat /\ Min(ends) >= 1
    BY <1>1, <1>7, <2>3
  <2>5. ~(Min(ends) < Len(l))
    <3> SUFFICES ASSUME Min(ends) < Len(l) PROVE FALSE
      OBVIOUS
    <3>1. Min(ends) \in 1..(Len(l) - 1)
      BY <1>2, <2>4
    <3>2. Min(ends) \in 1..Len(l)
      BY <1>2, <2>4
    <3> QED
      BY <1>2, <2>1, <2>3, <3>1, <3>2
  <2> QED
    BY <1>2, <2>2, <2>3, <2>4, <2>5 DEF LineLength
<1>9. /\ Line \in Seq(Pieces) /\ Len(Line) = Len(l)
      /\ \A n \in 1..Len(l) : Line[n].kind = l[n]
  BY <1>1, <1>2, <1>4, <1>5, <1>6, <1>7, <1>8, LineAndRest
<1>10. KindsOf(Line) = {l[n] : n \in 1..Len(l)}
  BY <1>9, LenProperties DEF KindsOf
<1> QED
  BY <1>6, <1>8, <1>9, <1>10

LEMMA LineLeaves ==
  ASSUME TypeOK, TypeOK', NEW l, IsLine(l), NEW r \in Seq(Kinds), KindSeq(Unread) = l \o r,
         BodyOnly(wire), inbox' = Rest, wire' = wire
  PROVE  KindSeq(Unread)' = r /\ BodyOnly(wire)'
<1>1. Arrived /\ LineLength(inbox) = Len(l)
  BY LineTaken
<1>2. Took(Len(l)) /\ Len(l) \in Nat
  BY <1>1, TookRest DEF IsLine
<1>3. /\ Len(r) \in Nat /\ l \in Seq(Kinds) /\ Len(l \o r) = Len(l) + Len(r)
      /\ \A n \in 1..(Len(l) + Len(r)) : (l \o r)[n] = IF n <= Len(l) THEN l[n] ELSE r[n - Len(l)]
  BY LenProperties, ConcatProperties DEF IsLine
<1>4. Unread \in Seq(Pieces) /\ Unread' \in Seq(Pieces)
  BY UnreadFacts, ConcatProperties DEF Unread, TypeOK
<1>5. Len(Unread) = Len(l) + Len(r) /\ Len(Unread') = Len(r)
  <2>1. Len(Unread) = Len(l) + Len(r)
    BY <1>3, <1>4, KindSeqFacts
  <2> QED
    BY <1>2, <1>3, <2>1 DEF Took
<1>6. /\ KindSeq(Unread') \in Seq(Kinds) /\ Len(KindSeq(Unread')) = Len(r)
      /\ \A n \in 1..Len(r) : KindSeq(Unread')[n] = Unread'[n].kind
  BY <1>4, <1>5, KindSeqFacts
<1>7. ASSUME NEW n \in 1..Len(r) PROVE KindSeq(Unread')[n] = r[n]
  <2>1. n + Len(l) \in 1..(Len(l) + Len(r)) /\ ~(n + Len(l) <= Len(l)) /\ n + Len(l) - Len(l) = n
    BY <1>2, <1>3
  <2>2. Unread'[n] = Unread[n + Len(l)]
    BY <1>2, <1>5 DEF Took
  <2>3. Unread[n + Len(l)].kind = (l \o r)[n + Len(l)]
    BY <1>4, <1>5, <2>1, KindSeqFacts
  <2>4. (l \o r)[n + Len(l)] = r[n]
    BY <1>3, <2>1
  <2> QED
    BY <1>6, <2>2, <2>3, <2>4, Zenon
<1>8. KindSeq(Unread') = r
  BY <1>6, <1>7, SeqEqual, Zenon
<1>9. KindSeq(Unread)' = KindSeq(Unread')
  BY DEF KindSeq
<1> QED
  BY <1>8, <1>9 DEF BodyOnly

LEMMA OneLine == ASSUME NEW c \in Lines PROVE IsLine(<<c>>)
<1>1. c \in Kinds
  BY DEF Kinds
<1>2. <<c>> \in Seq(Kinds) /\ Len(<<c>>) = 1 /\ <<c>>[1] = c
  BY <1>1
<1>3. \A n \in 1..(1 - 1) : FALSE
  OBVIOUS
<1> QED
  BY <1>2, <1>3 DEF IsLine

LEMMA TwoLine == ASSUME NEW c \in Kinds \ Lines, NEW d \in Lines PROVE IsLine(<<c, d>>)
<1>1. d \in Kinds
  BY DEF Kinds
<1>2. <<c, d>> \in Seq(Kinds) /\ Len(<<c, d>>) = 2 /\ <<c, d>>[1] = c /\ <<c, d>>[2] = d
  BY <1>1
<1>3. \A n \in 1..(2 - 1) : n = 1
  OBVIOUS
<1> QED
  BY <1>2, <1>3 DEF IsLine

DataLine == <<"data", "crlf">>

\* Each part of an answer but its body is a line.
LEMMA PartsAreLines ==
  /\ \A o \in OtherHeader : IsLine(o)
  /\ \A b \in BlankLine : IsLine(b)
  /\ \A x \in SizeLine : IsLine(x)
  /\ IsLine(<<"length">>) /\ IsLine(<<"chunked">>) /\ IsLine(<<"last">>) /\ IsLine(<<"crlf">>)
  /\ IsLine(DataLine)
<1>1. /\ {"other", "crlf", "lf", "size", "size+", "length", "chunked", "last"} \subseteq Lines
      /\ {"half", "cr", "data"} \subseteq Kinds \ Lines
  BY DEF Lines, Kinds, Bytes
<1>2. /\ IsLine(<<"other">>) /\ IsLine(<<"crlf">>) /\ IsLine(<<"size">>)
      /\ IsLine(<<"length">>) /\ IsLine(<<"chunked">>) /\ IsLine(<<"last">>)
  BY <1>1, OneLine
<1>3. /\ IsLine(<<"half", "crlf">>) /\ IsLine(<<"cr", "lf">>) /\ IsLine(<<"half", "size+">>)
      /\ IsLine(<<"data", "crlf">>)
  BY <1>1, TwoLine
<1>4. \A o \in OtherHeader : o = <<"other">> \/ o = <<"half", "crlf">>
  BY DEF OtherHeader, Whole, Cut
<1>5. \A b \in BlankLine : b = <<"crlf">> \/ b = <<"cr", "lf">>
  BY DEF BlankLine, Whole, Cut
<1>6. \A x \in SizeLine : x = <<"size">> \/ x = <<"half", "size+">>
  BY DEF SizeLine, Whole, Cut
<1> QED
  BY <1>2, <1>3, <1>4, <1>5, <1>6, Zenon DEF DataLine

LEMMA RegroupKinds == \A p, q, r \in Seq(Kinds) : p \o (q \o r) = (p \o q) \o r
BY ConcatAssociative, SMTT(30)

LEMMA KindsConcat == \A p, q \in Seq(Kinds) : p \o q \in Seq(Kinds)
BY ConcatProperties

\* The parts of an answer are kinds.
LEMMA PartsAreKinds ==
  /\ \A s : \A f \in StatusLine(s) : f \in Seq(Kinds)
  /\ \A s : Header(s) \in Seq(Kinds) /\ \A d \in Body(s) : d \in Seq(Kinds)
  /\ \A o \in OtherHeader : o \in Seq(Kinds)
  /\ \A b \in BlankLine : b \in Seq(Kinds)
  /\ \A x \in SizeLine : x \in Seq(Kinds)
  /\ DataLine \in Seq(Kinds) /\ LastChunk \in Seq(Kinds)
  /\ <<"last">> \in Seq(Kinds) /\ <<"crlf">> \in Seq(Kinds)
<1>1. \A q \in Seq(Plain) : q \in Seq(Kinds)
  BY SeqMonotonic DEF Plain
<1>2. /\ \A x \in SizeLine : IsLine(x)
      /\ IsLine(DataLine) /\ IsLine(<<"last">>) /\ IsLine(<<"crlf">>)
  BY PartsAreLines
<1>3. "last" \in Kinds /\ "crlf" \in Kinds
  BY DEF Kinds, Lines
<1>4. LastChunk \in Seq(Kinds)
  BY <1>3 DEF LastChunk
<1>5. \A s : \A f \in StatusLine(s) : f \in Seq(Kinds)
  BY StatusLineMarks DEF MarkFirst
<1>6. /\ \A s : Header(s) \in Seq(Plain) /\ \A d \in Body(s) : d \in Seq(Plain)
      /\ \A o \in OtherHeader : o \in Seq(Plain)
      /\ \A b \in BlankLine : b \in Seq(Plain)
  BY PlainParts
<1> QED
  BY <1>1, <1>2, <1>4, <1>5, <1>6, Zenon DEF IsLine

\* An answer, part by part.
LEMMA AnswerParts ==
  ASSUME NEW r \in 1..MaxRequests, NEW s, NEW a \in Answer(r, s)
  PROVE  \E f \in StatusLine(s), o \in OtherHeader, b \in BlankLine, d \in Body(s) :
            KindSeq(a) = f \o (o \o (Header(s) \o (b \o d)))
<1>1. PICK f \in StatusLine(s), o \in OtherHeader, b \in BlankLine, d \in Body(s) :
         LET k == f \o o \o Header(s) \o b \o d
         IN  a = [n \in 1..Len(k) |-> [req |-> r, kind |-> k[n]]]
  BY AnswerIsSent
<1> DEFINE h == Header(s)
           k == f \o o \o h \o b \o d
<1>2. /\ f \in Seq(Kinds) /\ o \in Seq(Kinds) /\ h \in Seq(Kinds) /\ b \in Seq(Kinds)
      /\ d \in Seq(Kinds)
  BY PartsAreKinds
<1> HIDE DEF h
<1>3. k \in Seq(Kinds) /\ k = f \o (o \o (h \o (b \o d)))
  <2>1. f \o o \in Seq(Kinds)
    BY <1>2, KindsConcat
  <2>2. (f \o o) \o h \in Seq(Kinds)
    BY <1>2, <2>1, KindsConcat
  <2>3. ((f \o o) \o h) \o b \in Seq(Kinds) /\ b \o d \in Seq(Kinds)
    BY <1>2, <2>2, KindsConcat
  <2>4. k \in Seq(Kinds) /\ h \o (b \o d) \in Seq(Kinds)
    BY <1>2, <2>3, KindsConcat
  <2>5. k = ((f \o o) \o h) \o (b \o d)
    <3> DEFINE g == (f \o o) \o h
    <3>1. g \in Seq(Kinds)
      BY <2>2
    <3> HIDE DEF g
    <3>2. g \o (b \o d) = (g \o b) \o d
      BY <1>2, <3>1, RegroupKinds, SMTT(30)
    <3> QED
      BY <3>2 DEF g
  <2>6. ((f \o o) \o h) \o (b \o d) = (f \o o) \o (h \o (b \o d))
    <3> DEFINE g == f \o o
               e == b \o d
    <3>1. g \in Seq(Kinds) /\ e \in Seq(Kinds)
      BY <2>1, <2>3
    <3> HIDE DEF g, e
    <3>2. g \o (h \o e) = (g \o h) \o e
      BY <1>2, <3>1, RegroupKinds, SMTT(30)
    <3> QED
      BY <3>2 DEF g, e
  <2>7. (f \o o) \o (h \o (b \o d)) = f \o (o \o (h \o (b \o d)))
    <3> DEFINE e == h \o (b \o d)
    <3>1. e \in Seq(Kinds)
      BY <2>4
    <3> HIDE DEF e
    <3>2. f \o (o \o e) = (f \o o) \o e
      BY <1>2, <3>1, RegroupKinds, SMTT(30)
    <3> QED
      BY <3>2 DEF e
  <2> QED
    BY <2>4, <2>5, <2>6, <2>7, Zenon
<1>4. a = [n \in 1..Len(k) |-> [req |-> r, kind |-> k[n]]]
  BY <1>1 DEF h
<1> HIDE DEF k
<1>5. KindSeq(a) = k
  <2>1. a \in Seq(Pieces)
    BY AnswerFacts
  <2>2. Len(k) \in Nat /\ a \in [1..Len(k) -> Pieces]
    <3>1. Len(k) \in Nat /\ \A n \in 1..Len(k) : k[n] \in Kinds
      BY <1>3, ElementOfSeq, LenProperties
    <3> QED
      BY <1>4, <3>1 DEF Pieces
  <2>3. Len(a) = Len(k)
    BY <2>1, <2>2, LenProperties
  <2>4. \A n \in 1..Len(k) : a[n].kind = k[n]
    BY <1>4
  <2>5. /\ KindSeq(a) \in Seq(Kinds) /\ Len(KindSeq(a)) = Len(k)
        /\ \A n \in 1..Len(k) : KindSeq(a)[n] = k[n]
    BY <2>1, <2>3, <2>4, KindSeqFacts
  <2> QED
    BY <1>3, <2>5, SeqEqual, Zenon
<1>6. KindSeq(a) = f \o (o \o (h \o (b \o d)))
  BY <1>3, <1>5, Zenon
<1> QED
  BY <1>6, Zenon DEF h

-----------------------------------------------------------------------------
(* Redirections *)

\* What is no redirection.
Stay == {p \in Pieces : p.kind # "moved"}

\* Without an answer that redirects, no request is redirected.
NeverMoved == code # 307 /\ inbox \in Seq(Stay) /\ wire \in Seq(Stay)

LEMMA AnswerStays ==
  ASSUME NEW r \in 1..MaxRequests, NEW s \in AllShapes \ {"moved"}, NEW a \in Answer(r, s)
  PROVE  a \in Seq(Stay)
<1>1. PICK f \in StatusLine(s), o \in OtherHeader, b \in BlankLine, d \in Body(s) :
         KindSeq(a) = f \o (o \o (Header(s) \o (b \o d)))
  BY AnswerParts
<1> DEFINE Others == Kinds \ {"moved"}
<1>2. Plain \subseteq Others
  BY DEF Plain, Marks
<1>3. f \in Seq(Others)
  <2>1. /\ "bad" \in Others /\ "no-content" \in Others /\ "ok" \in Others
        /\ "ok-" \in Others /\ "ok+" \in Others
    BY DEF Kinds, Lines
  <2> HIDE DEF Others
  <2>2. /\ <<"bad">> \in Seq(Others) /\ <<"no-content">> \in Seq(Others)
        /\ <<"ok">> \in Seq(Others) /\ <<"ok-", "ok+">> \in Seq(Others)
    <3>1. \A c \in Others : <<c>> \in Seq(Others)
      OBVIOUS
    <3>2. \A c, e \in Others : <<c, e>> \in Seq(Others)
      OBVIOUS
    <3> QED
      BY <2>1, <3>1, <3>2, Zenon
  <2>3. f \in {<<"bad">>, <<"no-content">>, <<"ok">>, <<"ok-", "ok+">>}
    BY DEF StatusLine, Whole, Cut, AllShapes
  <2> QED
    BY <2>2, <2>3
<1> HIDE DEF Others
<1>4. /\ o \in Seq(Others) /\ Header(s) \in Seq(Others) /\ b \in Seq(Others)
      /\ d \in Seq(Others)
  BY <1>2, PlainParts, SeqMonotonic
<1>5. KindSeq(a) \in Seq(Others)
  BY <1>1, <1>3, <1>4, ConcatProperties
<1>6. a \in Seq(Pieces) /\ Len(a) \in Nat /\ Len(KindSeq(a)) = Len(a)
      /\ \A n \in 1..Len(a) : KindSeq(a)[n] = a[n].kind /\ a[n] \in Pieces
  BY AnswerFacts, KindSeqFacts, ElementOfSeq
<1>7. \A n \in 1..Len(a) : a[n] \in Stay
  <2>1. \A n \in 1..Len(a) : KindSeq(a)[n] \in Others
    BY <1>5, <1>6, ElementOfSeq
  <2> QED
    BY <1>6, <2>1 DEF Stay, Others
<1>8. a \in [1..Len(a) -> Stay]
  BY <1>6, <1>7, LenProperties
<1> QED
  BY <1>6, <1>8, SeqDef

LEMMA NeverMovedNext ==
  ASSUME "moved" \notin Shapes, TypeOK, NeverMoved, [Next]_vars
  PROVE  NeverMoved'
<1> USE HttpAssumption
<1>0. <<>> \in Seq(Stay)
  OBVIOUS
<1>1. ASSUME NEW s \in Shapes, NEW keep \in BOOLEAN, request + 1 \in 1..MaxRequests,
             NEW a \in Answer(request + 1, s), Connect(keep, a), code' = 0
      PROVE  NeverMoved'
  <2>1. a \in Seq(Stay)
    BY <1>1, AnswerStays
  <2>2. <<>> \o a \in Seq(Stay) /\ wire \o a \in Seq(Stay)
    BY <1>0, <2>1, ConcatProperties DEF NeverMoved
  <2> QED
    BY <1>0, <1>1, <2>2 DEF NeverMoved, Connect
<1>2. ASSUME NEW r \in Readers, NEW s \in Shapes, Send(r, s) PROVE NeverMoved'
  <2>1. request + 1 \in 1..MaxRequests /\ code' = 0
    BY <1>2 DEF Send, Start, TypeOK
  <2>2. PICK keep \in BOOLEAN, a \in Answer(request + 1, s) : Connect(keep, a)
    BY <1>2 DEF Send
  <2> QED
    BY <1>1, <2>1, <2>2
<1>3. ASSUME NEW s \in Shapes, SendAsync(s) PROVE NeverMoved'
  <2>1. request + 1 \in 1..MaxRequests /\ code' = 0
    BY <1>3 DEF SendAsync, Start, TypeOK
  <2>2. PICK keep \in BOOLEAN, a \in Answer(request + 1, s) : Connect(keep, a)
    BY <1>3 DEF SendAsync
  <2> QED
    BY <1>1, <2>1, <2>2
<1>4. ASSUME code' \in {code, -1, 0}, wire' \in {wire, <<>>}, inbox' \in {inbox, <<>>}
      PROVE  NeverMoved'
  <2>1. code' # 307
    BY <1>4 DEF NeverMoved
  <2>2. inbox' \in Seq(Stay) /\ wire' \in Seq(Stay)
    BY <1>0, <1>4, Zenon DEF NeverMoved
  <2> QED
    BY <2>1, <2>2 DEF NeverMoved
<1>5. ASSUME Arrived PROVE Rest \in Seq(Stay) /\ Tail(inbox) \in Seq(Stay)
  <2>1. inbox \in Seq(Stay) /\ \A n \in 1..Len(inbox) : inbox[n] \in Stay
    BY ElementOfSeq DEF NeverMoved
  <2>2. LineLength(inbox) \in 1..Len(inbox) /\ Len(inbox) \in Nat
    BY <1>5, LineAndRest DEF TypeOK
  <2>3. LineLength(inbox) + 1 \in Int /\ Len(inbox) \in Int
        /\ \A n \in (LineLength(inbox) + 1)..Len(inbox) : inbox[n] \in Stay
    BY <2>1, <2>2
  <2>4. SubSeq(inbox, LineLength(inbox) + 1, Len(inbox)) \in Seq(Stay)
    BY <2>3, SubSeqProperties
  <2> QED
    BY <1>5, <2>1, <2>4, HeadTailProperties DEF Rest, Arrived
<1>6. ASSUME Arrived, code' \in {code, -1}, wire' \in {wire, <<>>},
             inbox' \in {Rest, Tail(inbox), <<>>}
      PROVE  NeverMoved'
  <2>1. code' # 307
    BY <1>6 DEF NeverMoved
  <2>2. inbox' \in Seq(Stay) /\ wire' \in Seq(Stay)
    BY <1>0, <1>5, <1>6, Zenon DEF NeverMoved
  <2> QED
    BY <2>1, <2>2 DEF NeverMoved
<1>7. ASSUME ReadStatus PROVE NeverMoved'
  <2>1. Arrived /\ inbox' = Rest /\ wire' = wire /\ code' = StatusOf(Line)
    BY <1>7 DEF ReadStatus, Continue
  <2>2. StatusOf(Line) # 307
    <3>1. \A n \in DOMAIN Line : Line[n].kind # "moved"
      <4>1. /\ Line \in Seq(Pieces) /\ Len(Line) \in 1..Len(inbox) /\ Len(inbox) \in Nat
            /\ \A n \in 1..Len(Line) : Line[n] = inbox[n]
        BY <2>1, LineAndRest DEF TypeOK
      <4>2. \A n \in 1..Len(inbox) : inbox[n] \in Stay
        BY ElementOfSeq DEF NeverMoved
      <4> QED
        BY <4>1, <4>2, LenProperties DEF Stay
    <3>2. "moved" \notin KindsOf(Line)
      BY <3>1 DEF KindsOf
    <3> QED
      BY <3>2 DEF StatusOf
  <2> QED
    BY <1>5, <2>1, <2>2 DEF NeverMoved
<1>8. ASSUME ReadHeaderLine \/ ReadBlankLine \/ ReadLinePayload \/ ReadByte \/ ReadSize
             \/ ReadChunk
      PROVE  NeverMoved'
  <2>1. Arrived
    BY <1>8 DEF ReadHeaderLine, ReadBlankLine, ReadLinePayload, ReadByte, ReadSize,
       ReadChunk, InHeader
  <2>2. ASSUME NEW h, NEW q, NEW left \in {Rest, Tail(inbox), <<>>},
               Continue(h, code, left, q) \/ Finish(h, code, left, q)
        PROVE  NeverMoved'
    <3>1. code' = code /\ wire' \in {wire, <<>>} /\ inbox' \in {Rest, Tail(inbox), <<>>}
      BY <2>2 DEF Continue, Finish, Fail, Succeed, Close
    <3> QED
      BY <1>6, <2>1, <3>1
  <2>3. CASE ReadHeaderLine
    BY <2>2, <2>3 DEF ReadHeaderLine
  <2>4. CASE ReadBlankLine
    BY <2>2, <2>4 DEF ReadBlankLine
  <2>5. CASE ReadLinePayload
    BY <2>2, <2>5 DEF ReadLinePayload
  <2>6. CASE ReadByte
    BY <2>2, <2>6 DEF ReadByte
  <2>7. CASE ReadSize
    BY <2>2, <2>7 DEF ReadSize
  <2>8. CASE ReadChunk
    BY <2>2, <2>8 DEF ReadChunk
  <2> QED
    BY <1>8, <2>3, <2>4, <2>5, <2>6, <2>7, <2>8
<1>9. ASSUME Redirect \/ RedirectTooOften PROVE NeverMoved'
  BY <1>9 DEF Redirect, RedirectTooOften, NeverMoved
<1>10. ASSUME ChunkMissing \/ NothingMore \/ TokenTimeout PROVE NeverMoved'
  <2>1. Finish(handler, code, <<>>, payload)
    BY <1>10 DEF ChunkMissing, NothingMore, TokenTimeout
  <2> QED
    BY <1>4, <2>1 DEF Finish, Fail, Succeed, Close
<1>11. ASSUME WaitEnds \/ BeginBody \/ LoopFails \/ WaitTimeout \/ PayloadTimeout
              \/ Disconnect \/ UNCHANGED vars
       PROVE  NeverMoved'
  BY <1>4, <1>11 DEF WaitEnds, BeginBody, LoopFails, WaitTimeout, PayloadTimeout, Disconnect,
     Fail, Close, vars, connVars, readVars
<1>12. ASSUME NEW n \in 1..Len(wire), Deliver(n) PROVE NeverMoved'
  <2>1. /\ inbox' = inbox \o SubSeq(wire, 1, n) /\ wire' = SubSeq(wire, n + 1, Len(wire))
        /\ code' = code
    BY <1>12 DEF Deliver, readVars
  <2>2. wire \in Seq(Stay) /\ Len(wire) \in Nat /\ \A i \in 1..Len(wire) : wire[i] \in Stay
    BY ElementOfSeq, LenProperties DEF NeverMoved
  <2>3. SubSeq(wire, 1, n) \in Seq(Stay) /\ SubSeq(wire, n + 1, Len(wire)) \in Seq(Stay)
    BY <2>2, SubSeqProperties
  <2>4. inbox \o SubSeq(wire, 1, n) \in Seq(Stay)
    BY <2>3, ConcatProperties DEF NeverMoved
  <2> QED
    BY <2>1, <2>3, <2>4 DEF NeverMoved
<1> QED
  BY <1>2, <1>3, <1>7, <1>8, <1>9, <1>10, <1>11, <1>12 DEF Next, Read, Timeout

-----------------------------------------------------------------------------
(* Whole answers *)

\* What has not been read; the end of it may not have arrived, if it is of a body.
Left(r) == BodyOnly(wire) /\ KindSeq(Unread) = r

\* Before its first line, FB_RTDB's answer is unread, behind what was left on the
\* connection; and nothing of it has arrived, or all of it up to its body.
Behind(p, a) ==
    /\ p \in Seq(Kinds) /\ KindSeq(Unread) = p \o a
    /\ \A n \in 1..Len(p) : p[n] \notin Marks
    /\ \A n \in (Len(p) + 1)..Len(Unread) : Unread[n].req = request
    /\ Len(inbox) <= Len(p) \/ BodyOnly(wire)

AnswerLeft ==
    /\ shape \in AllShapes
    /\ pc \in {"wait", "read"} /\ payload = <<>> /\ handler = NewHandler /\ code = 0
    /\ \E p \in Seq(Kinds), f \in StatusLine(shape), o \in OtherHeader, b \in BlankLine,
          d \in Body(shape) :
            Behind(p, f \o (o \o (Header(shape) \o (b \o d))))

\* In the header, one or more of its lines are left, and the body.
HeaderLeft ==
    LET seen == handler.head \cap {"length", "chunked"} IN
    /\ pc = "read" /\ payload = <<>> /\ handler.read = 0 /\ ~handler.inChunk
    /\ shape \in {"length", "chunked"}
    /\ \E b \in BlankLine, d \in Body(shape) :
         \/ seen = {} /\ \E o \in OtherHeader : Left(o \o (Header(shape) \o (b \o d)))
         \/ seen = {} /\ Left(Header(shape) \o (b \o d))
         \/ seen = {shape} /\ Left(b \o d)

\* A body with a length: what has been read of it counts.
BytesLeft ==
    /\ shape = "length" /\ handler.length = 2 /\ ~handler.chunked
    /\ handler.read = Len(payload) /\ handler.read < 2
    /\ \A n \in 1..Len(Unread) : Unread[n].kind = "body"
    /\ \A n \in 1..Len(payload) : payload[n].kind = "body"

\* A chunked body: what has been read of it, and the lines that are left.
ChunkPhase(content, inChunk, r) ==
    KindSeq(payload) = content /\ handler.inChunk = inChunk /\ Left(r)

ChunksLeft ==
    /\ shape = "chunked" /\ pc = "read" /\ handler.chunked /\ handler.length = 0
    /\ handler.inChunk => handler.got = 0
    /\ \/ \E x, y \in SizeLine :
            ChunkPhase(<<>>, FALSE, x \o (DataLine \o (y \o (DataLine \o LastChunk))))
       \/ \E y \in SizeLine : ChunkPhase(<<>>, TRUE, DataLine \o (y \o (DataLine \o LastChunk)))
       \/ \E y \in SizeLine : ChunkPhase(<<"data">>, FALSE, y \o (DataLine \o LastChunk))
       \/ ChunkPhase(<<"data">>, TRUE, DataLine \o LastChunk)
       \/ ChunkPhase(<<"data", "data">>, FALSE, LastChunk)

\* What a request of FB_RTDB has still to read, while its answer is not split.
PartsLeft ==
    pc # "idle" /\ mode = "rtdb" /\ ~split =>
        /\ ~handler.started => AnswerLeft
        /\ handler.started /\ code = 204 => shape = "empty" /\ pc = "read" /\ payload = <<>>
        /\ handler.started /\ code = 200 =>
             IF handler.inHeader THEN HeaderLeft ELSE BytesLeft \/ ChunksLeft

LEMMA LineShows ==
  ASSUME TypeOK, NEW l, IsLine(l), NEW r \in Seq(Kinds), Left(l \o r)
  PROVE  /\ Arrived /\ LineLength(inbox) = Len(l) /\ Line \in Seq(Pieces)
         /\ Len(Line) = Len(l) /\ \A n \in 1..Len(l) : Line[n].kind = l[n]
         /\ KindsOf(Line) = {l[n] : n \in 1..Len(l)}
         /\ \E n \in DOMAIN Unread : ~InBody(Unread[n])
<1>1. KindSeq(Unread) = l \o r /\ BodyOnly(wire)
  BY DEF Left
<1>2. /\ Arrived /\ LineLength(inbox) = Len(l) /\ Line \in Seq(Pieces)
      /\ Len(Line) = Len(l) /\ \A n \in 1..Len(l) : Line[n].kind = l[n]
      /\ KindsOf(Line) = {l[n] : n \in 1..Len(l)}
  BY <1>1, LineTaken
<1>3. Len(l) \in 1..Len(l) /\ l[Len(l)] \in Lines
  BY DEF IsLine
<1>4. /\ \A n \in 1..Len(Line) : Line[n] = inbox[n]
      /\ Len(Line) \in 1..Len(inbox) /\ Len(inbox) \in Nat
  BY <1>2, LineAndRest DEF TypeOK
<1>5. Unread[Len(l)] = Line[Len(l)] /\ Len(l) \in 1..Len(Unread)
  BY <1>2, <1>3, <1>4, UnreadFacts
<1>6. Unread[Len(l)].kind \in Lines
  BY <1>2, <1>3, <1>5
<1>7. ~InBody(Unread[Len(l)])
  BY <1>6 DEF InBody, Lines
<1>8. DOMAIN Unread = 1..Len(Unread)
  BY UnreadFacts, LenProperties
<1> QED
  BY <1>2, <1>5, <1>7, <1>8

LEMMA LineRead ==
  ASSUME TypeOK, TypeOK', NEW l, IsLine(l), NEW r \in Seq(Kinds), Left(l \o r),
         inbox' = Rest, wire' = wire
  PROVE  Left(r)'
<1>1. KindSeq(Unread) = l \o r /\ BodyOnly(wire)
  BY DEF Left
<1>2. KindSeq(Unread)' = r /\ BodyOnly(wire)'
  BY <1>1, LineLeaves
<1> QED
  BY <1>2 DEF Left

\* The lines of an answer, up to the last of its chunks.
LEMMA RestsAreKinds ==
  ASSUME NEW s, NEW b \in BlankLine, NEW d \in Body(s), NEW x \in SizeLine, NEW y \in SizeLine
  PROVE  /\ b \o d \in Seq(Kinds) /\ Header(s) \o (b \o d) \in Seq(Kinds)
         /\ DataLine \o LastChunk \in Seq(Kinds)
         /\ y \o (DataLine \o LastChunk) \in Seq(Kinds)
         /\ DataLine \o (y \o (DataLine \o LastChunk)) \in Seq(Kinds)
         /\ x \o (DataLine \o (y \o (DataLine \o LastChunk))) \in Seq(Kinds)
         /\ LastChunk = <<"last">> \o <<"crlf">>
<1>1. b \o d \in Seq(Kinds)
  BY PartsAreKinds, KindsConcat
<1>2. Header(s) \o (b \o d) \in Seq(Kinds)
  BY <1>1, PartsAreKinds, KindsConcat
<1>3. DataLine \o LastChunk \in Seq(Kinds)
  BY PartsAreKinds, KindsConcat
<1>4. y \o (DataLine \o LastChunk) \in Seq(Kinds)
  BY <1>3, PartsAreKinds, KindsConcat
<1>5. DataLine \o (y \o (DataLine \o LastChunk)) \in Seq(Kinds)
  BY <1>4, PartsAreKinds, KindsConcat
<1>6. x \o (DataLine \o (y \o (DataLine \o LastChunk))) \in Seq(Kinds)
  BY <1>5, PartsAreKinds, KindsConcat
<1>7. LastChunk = <<"last">> \o <<"crlf">>
  BY DEF LastChunk
<1> QED
  BY <1>1, <1>2, <1>3, <1>4, <1>5, <1>6, <1>7

LEMMA HeaderIsLine ==
  ASSUME NEW s \in {"length", "chunked"}
  PROVE  Header(s) = <<s>> /\ IsLine(Header(s))
<1>1. Header(s) = <<s>>
  BY DEF Header
<1> QED
  BY <1>1, PartsAreLines

\* In the header, and among the chunks, there is a line to read.
LEMMA LineIsLeft ==
  ASSUME TypeOK, HeaderLeft \/ ChunksLeft
  PROVE  Arrived /\ \E n \in DOMAIN Unread : ~InBody(Unread[n])
<1> SUFFICES ASSUME NEW l, IsLine(l), NEW r \in Seq(Kinds), Left(l \o r)
             PROVE  Arrived /\ \E n \in DOMAIN Unread : ~InBody(Unread[n])
  <2>1. CASE HeaderLeft
    <3>1. PICK b \in BlankLine, d \in Body(shape) :
             \/ \E o \in OtherHeader : Left(o \o (Header(shape) \o (b \o d)))
             \/ Left(Header(shape) \o (b \o d))
             \/ Left(b \o d)
      BY <2>1, Zenon DEF HeaderLeft
    <3>2. IsLine(Header(shape)) /\ IsLine(b) /\ \A o \in OtherHeader : IsLine(o)
      BY <2>1, HeaderIsLine, PartsAreLines DEF HeaderLeft
    <3>3. <<"size">> \in SizeLine
      BY DEF SizeLine, Cut, Whole
    <3>4. b \o d \in Seq(Kinds) /\ Header(shape) \o (b \o d) \in Seq(Kinds) /\ d \in Seq(Kinds)
      BY <3>3, RestsAreKinds, PartsAreKinds
    <3> QED
      BY <3>1, <3>2, <3>4, Zenon
  <2>2. CASE ChunksLeft
    <3>1. \/ \E x, y \in SizeLine : Left(x \o (DataLine \o (y \o (DataLine \o LastChunk))))
          \/ \E y \in SizeLine : Left(DataLine \o (y \o (DataLine \o LastChunk)))
          \/ \E y \in SizeLine : Left(y \o (DataLine \o LastChunk))
          \/ Left(DataLine \o LastChunk) \/ Left(LastChunk)
      BY <2>2, Zenon DEF ChunksLeft, ChunkPhase
    <3>2. /\ \A y \in SizeLine : IsLine(y) /\ y \in Seq(Kinds)
          /\ IsLine(DataLine) /\ IsLine(<<"last">>)
          /\ DataLine \in Seq(Kinds) /\ LastChunk \in Seq(Kinds) /\ <<"crlf">> \in Seq(Kinds)
      BY PartsAreLines, PartsAreKinds
    <3>3. /\ DataLine \o LastChunk \in Seq(Kinds)
          /\ \A y \in SizeLine : y \o (DataLine \o LastChunk) \in Seq(Kinds)
          /\ \A y \in SizeLine : DataLine \o (y \o (DataLine \o LastChunk)) \in Seq(Kinds)
      BY <3>2, KindsConcat
    <3>4. LastChunk = <<"last">> \o <<"crlf">>
      BY DEF LastChunk
    <3> QED
      BY <3>1, <3>2, <3>3, <3>4, Zenon
  <2> QED
    BY <2>1, <2>2
<1> QED
  BY LineShows

\* What keeps a request of FB_RTDB whole.
WholeInv == PartsLeft /\ WholeBody

\* A status is found in one kind of status line only.
LEMMA StatusOfShape ==
  ASSUME NEW s \in AllShapes, NEW f \in StatusLine(s), NEW n \in 1..Len(f)
  PROVE  /\ f[n] \in {"ok", "ok-"} => s \in {"length", "chunked"}
         /\ f[n] = "no-content" => s = "empty"
<1>1. s = "error" => f = <<"bad">>
  BY DEF StatusLine, Whole
<1>2. s = "empty" => f = <<"no-content">>
  BY DEF StatusLine, Whole
<1>3. s = "moved" => f = <<"moved">>
  BY DEF StatusLine, Whole
<1>4. s \in {"length", "chunked"} => f = <<"ok">> \/ f = <<"ok-", "ok+">>
  BY DEF StatusLine, Whole, Cut
<1>5. ASSUME NEW c, f = <<c>> PROVE f[n] = c
  <2>1. n = 1 /\ f[1] = c
    BY <1>5
  <2> QED
    BY <2>1
<1>6. s = "error" => f[n] = "bad"
  BY <1>1, <1>5
<1>7. s = "empty" => f[n] = "no-content"
  BY <1>2, <1>5
<1>9. s = "moved" => f[n] = "moved"
  BY <1>3, <1>5
<1>8. s \in {"length", "chunked"} => f[n] \in {"ok", "ok-", "ok+"}
  BY <1>4
<1> QED
  BY <1>6, <1>7, <1>8, <1>9 DEF AllShapes

LEMMA StatusLineIsLine ==
  ASSUME NEW s \in AllShapes, NEW f \in StatusLine(s) PROVE IsLine(f)
<1>1. {"bad", "no-content", "moved", "ok", "ok+"} \subseteq Lines /\ "ok-" \in Kinds \ Lines
  BY DEF Lines, Kinds, Bytes
<1>2. /\ IsLine(<<"bad">>) /\ IsLine(<<"no-content">>) /\ IsLine(<<"moved">>)
      /\ IsLine(<<"ok">>) /\ IsLine(<<"ok-", "ok+">>)
  BY <1>1, OneLine, TwoLine
<1>3. f \in {<<"bad">>, <<"no-content">>, <<"moved">>, <<"ok">>, <<"ok-", "ok+">>}
  BY DEF StatusLine, Whole, Cut
<1> QED
  BY <1>2, <1>3

\* If a status is read at all, the line that is read ends with the status line of the
\* answer: what was left behind it has no line end.
LEMMA StatusEndsLine ==
  ASSUME TypeOK, Arrived, NEW p, NEW f \in StatusLine(shape), shape \in AllShapes,
         NEW r \in Seq(Kinds), Behind(p, f \o r), StatusOf(Line) # 0
  PROVE  IsLine(p \o f) /\ Left((p \o f) \o r)
<1>1. /\ p \in Seq(Kinds) /\ f \in Seq(Kinds) /\ Len(p) \in Nat /\ Len(f) \in Nat \ {0}
      /\ Len(r) \in Nat /\ KindSeq(Unread) = p \o (f \o r) /\ f \o r \in Seq(Kinds)
      /\ IsLine(f)
  BY StatusLineIsLine, LenProperties, KindsConcat DEF IsLine, Behind
<1>2. /\ p \o f \in Seq(Kinds) /\ Len(p \o f) = Len(p) + Len(f)
      /\ \A n \in 1..(Len(p) + Len(f)) : (p \o f)[n] = IF n <= Len(p) THEN p[n] ELSE f[n - Len(p)]
  BY <1>1, ConcatProperties
<1>3. KindSeq(Unread) = (p \o f) \o r
  BY <1>1, RegroupKinds
<1>4. \A n \in 1..Len(p) : n \in 1..Len(Unread) /\ Unread[n].kind = p[n]
  <2>1. /\ Len(p \o (f \o r)) = Len(p) + Len(f \o r) /\ Len(f \o r) \in Nat
        /\ \A n \in 1..(Len(p) + Len(f \o r)) :
              (p \o (f \o r))[n] = IF n <= Len(p) THEN p[n] ELSE (f \o r)[n - Len(p)]
    BY <1>1, LenProperties, ConcatProperties
  <2>2. Len(Unread) = Len(p) + Len(f \o r) /\ \A n \in 1..Len(Unread) : KindSeq(Unread)[n] = Unread[n].kind
    BY <1>1, <2>1, UnreadFacts, KindSeqFacts
  <2>3. ASSUME NEW n \in 1..Len(p) PROVE n \in 1..Len(Unread) /\ Unread[n].kind = p[n]
    <3>1. n \in 1..Len(Unread) /\ n \in 1..(Len(p) + Len(f \o r)) /\ n <= Len(p)
      BY <1>1, <2>1, <2>2
    <3>2. (p \o (f \o r))[n] = p[n]
      BY <2>1, <3>1
    <3> QED
      BY <1>1, <2>2, <3>1, <3>2, Zenon
  <2> QED
    BY <2>3
<1>5. /\ Line \in Seq(Pieces) /\ LineLength(inbox) \in 1..Len(inbox) /\ Len(inbox) \in Nat
      /\ Len(Line) = LineLength(inbox) /\ \A n \in 1..Len(Line) : Line[n] = inbox[n]
      /\ inbox \in Seq(Pieces) /\ DOMAIN inbox = 1..Len(inbox) /\ DOMAIN Line = 1..Len(Line)
      /\ \A n \in 1..Len(inbox) : Unread[n] = inbox[n]
  BY LineAndRest, LenProperties, UnreadFacts DEF TypeOK
<1>6. Len(p) < LineLength(inbox)
  <2>1. PICK m \in DOMAIN Line : Line[m].kind \in Marks
    BY StatusHasMark
  <2>2. m \in 1..LineLength(inbox) /\ m \in 1..Len(inbox) /\ Unread[m].kind \in Marks
    BY <1>5, <2>1
  <2>3. m \notin 1..Len(p)
    BY <1>4, <2>2 DEF Behind
  <2> QED
    BY <1>1, <1>5, <2>2, <2>3
<1>7. \A n \in 1..Len(p) : p[n] \notin Lines
  <2> SUFFICES ASSUME NEW n \in 1..Len(p), p[n] \in Lines PROVE FALSE
    OBVIOUS
  <2> DEFINE ends == {i \in DOMAIN inbox : inbox[i].kind \in Lines}
  <2>1. n \in 1..Len(inbox)
    BY <1>1, <1>5, <1>6
  <2>2. n \in ends
    BY <1>4, <1>5, <2>1
  <2>3. Min(ends) <= n
    <3>1. ends \subseteq Nat /\ ends # {}
      <4>1. ends \subseteq DOMAIN inbox
        OBVIOUS
      <4>2. 1..Len(inbox) \subseteq Nat
        BY <1>5
      <4> HIDE DEF ends
      <4> QED
        BY <1>5, <2>2, <4>1, <4>2, Zenon
    <3> HIDE DEF ends
    <3> QED
      BY <2>2, <3>1, MinIsLeast
  <2>4. LineLength(inbox) = Min(ends)
    BY <2>2 DEF LineLength
  <2> QED
    BY <1>1, <1>5, <1>6, <2>3, <2>4
<1>8. IsLine(p \o f)
  <2>1. Len(p) + Len(f) \in 1..(Len(p) + Len(f)) /\ ~(Len(p) + Len(f) <= Len(p))
        /\ Len(p) + Len(f) - Len(p) = Len(f)
    BY <1>1
  <2>2. (p \o f)[Len(p) + Len(f)] \in Lines
    BY <1>1, <1>2, <2>1 DEF IsLine
  <2>3. ASSUME NEW n \in 1..(Len(p) + Len(f) - 1) PROVE (p \o f)[n] \notin Lines
    <3>1. CASE n <= Len(p)
      <4>1. n \in 1..(Len(p) + Len(f)) /\ n \in 1..Len(p)
        BY <1>1, <3>1
      <4> QED
        BY <1>2, <1>7, <3>1, <4>1
    <3>2. CASE ~(n <= Len(p))
      <4>1. n \in 1..(Len(p) + Len(f)) /\ n - Len(p) \in 1..(Len(f) - 1)
        BY <1>1, <3>2
      <4>2. f[n - Len(p)] \notin Lines
        BY <1>1, <4>1 DEF IsLine
      <4> QED
        BY <1>2, <3>2, <4>1, <4>2
    <3> QED
      BY <3>1, <3>2
  <2>4. Len(p) + Len(f) \in Nat \ {0}
    BY <1>1
  <2> DEFINE l == p \o f
  <2>5. /\ l \in Seq(Kinds) /\ Len(l) = Len(p) + Len(f) /\ l[Len(p) + Len(f)] \in Lines
        /\ \A n \in 1..(Len(p) + Len(f) - 1) : l[n] \notin Lines
    BY <1>2, <2>2, <2>3, Zenon
  <2> HIDE DEF l
  <2>6. IsLine(l)
    BY <2>4, <2>5 DEF IsLine
  <2> QED
    BY <2>6 DEF l
<1>9. BodyOnly(wire)
  BY <1>1, <1>5, <1>6 DEF Behind
<1> QED
  BY <1>3, <1>8, <1>9 DEF Left

LEMMA StatusKinds ==
  ASSUME NEW line
  PROVE  /\ StatusOf(line) = 200 => "ok" \in KindsOf(line) \/ "ok-" \in KindsOf(line)
         /\ StatusOf(line) = 204 => "no-content" \in KindsOf(line)
BY DEF StatusOf

\* The first line of an answer.
LEMMA StatusWhole ==
  ASSUME TypeOK, TypeOK', NeverMoved, Running, PartsLeft, ReadStatus, mode = "rtdb", ~split
  PROVE  WholeInv'
<1> DEFINE status == StatusOf(Line)
           h == [handler EXCEPT !.started = TRUE, !.inHeader = status > 0]
           added == IF mode = "rtdb" /\ status = 0 THEN payload \o Line ELSE payload
<1>1. /\ pc = "read" /\ ~handler.started /\ Arrived /\ Continue(h, status, Rest, added)
      /\ UNCHANGED <<shape, split>>
  BY DEF ReadStatus, requestVars
<1>2. /\ handler' = h /\ code' = status /\ payload' = added /\ inbox' = Rest /\ wire' = wire
      /\ pc' = pc /\ mode' = mode /\ ok' = ok
  BY <1>1 DEF Continue
<1>3. h.started /\ h.inHeader = (status > 0)
  BY DEF TypeOK, Handlers
<1>4. WholeBody'
  BY <1>1, <1>2 DEF Running, WholeBody, WholeAnswer
<1>5. AnswerLeft
  BY <1>1 DEF PartsLeft
<1>6. CASE status \notin {200, 204}
  <2>1. PartsLeft'
    BY <1>2, <1>3, <1>6 DEF PartsLeft
  <2> QED
    BY <1>4, <2>1 DEF WholeInv
<1>7. CASE status \in {200, 204}
  <2>0. PICK s \in AllShapes : s = shape
    BY <1>5 DEF AnswerLeft
  <2>1. PICK p \in Seq(Kinds), f \in StatusLine(s), o \in OtherHeader, b \in BlankLine,
             d \in Body(s) :
                Behind(p, f \o (o \o (Header(s) \o (b \o d))))
    BY <1>5, <2>0 DEF AnswerLeft
  <2> DEFINE r == o \o (Header(s) \o (b \o d))
  <2>2. r \in Seq(Kinds)
    <3>1. b \o d \in Seq(Kinds)
      BY PartsAreKinds, KindsConcat
    <3>2. Header(s) \o (b \o d) \in Seq(Kinds)
      BY <3>1, PartsAreKinds, KindsConcat
    <3> QED
      BY <3>2, PartsAreKinds, KindsConcat
  <2>3. Behind(p, f \o r)
    BY <2>1
  <2> HIDE DEF r
  <2>4. f \in StatusLine(shape) /\ shape \in AllShapes /\ status # 0
    BY <1>7, <2>0
  <2>5. IsLine(p \o f) /\ Left((p \o f) \o r)
    BY <1>1, <2>2, <2>3, <2>4, StatusEndsLine
  <2>6. Left(r)'
    <3> DEFINE l == p \o f
    <3>1. IsLine(l) /\ Left(l \o r)
      BY <2>5
    <3> HIDE DEF l
    <3>2. inbox' = Rest /\ wire' = wire
      BY <1>2
    <3> QED
      BY <2>2, <3>1, <3>2, LineRead
  <2>7. \A c \in KindsOf(Line) \cap Marks : \E n \in 1..Len(f) : c = f[n]
    <3>1. KindsOf(Line) = {(p \o f)[n] : n \in 1..Len(p \o f)}
      BY <2>2, <2>5, LineShows
    <3>2. /\ Len(p \o f) = Len(p) + Len(f) /\ Len(p) \in Nat /\ Len(f) \in Nat
          /\ \A n \in 1..(Len(p) + Len(f)) :
                (p \o f)[n] = IF n <= Len(p) THEN p[n] ELSE f[n - Len(p)]
      BY PartsAreKinds, LenProperties, ConcatProperties
    <3>3. \A n \in 1..Len(p) : p[n] \notin Marks
      BY <2>3 DEF Behind
    <3> SUFFICES ASSUME NEW n \in 1..(Len(p) + Len(f)), (p \o f)[n] \in Marks
                 PROVE  \E i \in 1..Len(f) : (p \o f)[n] = f[i]
      BY <3>1, <3>2
    <3>4. ~(n <= Len(p))
      BY <3>2, <3>3
    <3>5. n - Len(p) \in 1..Len(f) /\ (p \o f)[n] = f[n - Len(p)]
      BY <3>2, <3>4
    <3> QED
      BY <3>5
  <2>8. CASE status = 200
    <3>1. \E c \in KindsOf(Line) \cap Marks : c \in {"ok", "ok-"}
      <4>1. "ok" \in KindsOf(Line) \/ "ok-" \in KindsOf(Line)
        BY <2>8, StatusKinds
      <4> QED
        BY <4>1 DEF Marks
    <3>2. shape \in {"length", "chunked"}
      BY <2>4, <2>7, <3>1, StatusOfShape
    <3>3. /\ handler' = [NewHandler EXCEPT !.started = TRUE, !.inHeader = TRUE] /\ code' = 200
          /\ payload' = <<>> /\ pc' = "read"
      <4>1. handler = NewHandler /\ payload = <<>>
        BY <1>5 DEF AnswerLeft
      <4>2. (status > 0) = TRUE /\ status # 0
        BY <2>8
      <4>3. h = [handler EXCEPT !.started = TRUE, !.inHeader = TRUE] /\ added = payload
        BY <4>2, Zenon
      <4> QED
        BY <1>1, <1>2, <2>8, <4>1, <4>3, Zenon
    <3>4. /\ handler'.started /\ handler'.inHeader /\ handler'.head = {} /\ handler'.read = 0
          /\ ~handler'.inChunk
      BY <3>3 DEF NewHandler
    <3>5. Left(o \o (Header(s) \o (b \o d)))' /\ shape' = s
      BY <1>1, <2>0, <2>6 DEF r
    <3>9. Left(o \o (Header(shape) \o (b \o d)))'
      BY <3>5 DEF Left
    <3>6. HeaderLeft'
      BY <2>0, <3>2, <3>3, <3>4, <3>5, <3>9 DEF HeaderLeft
    <3>7. PartsLeft'
      BY <3>3, <3>4, <3>6 DEF PartsLeft
    <3> QED
      BY <1>4, <3>7 DEF WholeInv
  <2>9. CASE status = 204
    <3>1. "no-content" \in KindsOf(Line) \cap Marks
      BY <2>9, StatusKinds DEF Marks
    <3>2. shape = "empty"
      BY <2>4, <2>7, <3>1, StatusOfShape
    <3>3. payload' = <<>>
      BY <1>2, <1>5, <2>4 DEF AnswerLeft
    <3>4. PartsLeft'
      BY <1>1, <1>2, <1>3, <2>9, <3>2, <3>3 DEF PartsLeft
    <3> QED
      BY <1>4, <3>4 DEF WholeInv
  <2> QED
    BY <1>7, <2>8, <2>9
<1> QED
  BY <1>6, <1>7

LEMMA NothingToKeep ==
  \/ pc' = "idle" \/ mode' # "rtdb" \/ split'
  \/ handler'.started /\ code' \notin {200, 204}
  => PartsLeft'
BY DEF PartsLeft

LEMMA NotDone == ~ok' => WholeBody'
BY DEF WholeBody, WholeAnswer

\* The end of a loop.
LEMMA FinishWhole ==
  ASSUME TypeOK', Running, pc # "idle", NEW h, NEW c, NEW left, NEW content,
         Finish(h, c, left, content), shape' = shape, split' = split,
         mode = "rtdb" /\ ~split /\ c \in {200, 204} => KindSeq(content) = Content(shape)
  PROVE  WholeInv'
<1>1. pc' = "idle" /\ mode' = mode /\ payload' = content
  BY DEF Finish, Succeed, Fail
<1>2. PartsLeft'
  BY <1>1, NothingToKeep
<1>3. CASE ~IsSuccess(c, content)
  <2>1. ~ok'
    BY <1>3 DEF Finish, Fail, Running
  <2> QED
    BY <1>2, <2>1, NotDone DEF WholeInv
<1>4. CASE IsSuccess(c, content) /\ mode = "rtdb" /\ ~split
  <2>1. c \in {200, 204}
    BY <1>4 DEF IsSuccess
  <2>2. KindSeq(content) = Content(shape)
    BY <1>4, <2>1
  <2>3. DOMAIN payload' = 1..Len(payload')
    BY LenProperties DEF TypeOK
  <2>4. [n \in DOMAIN payload' |-> payload'[n].kind] = Content(shape')
    BY <1>1, <2>2, <2>3 DEF KindSeq
  <2>5. WholeAnswer'
    BY <2>4 DEF WholeAnswer
  <2> QED
    BY <1>2, <2>5 DEF WholeInv, WholeBody
<1>5. CASE mode # "rtdb" \/ split
  BY <1>1, <1>2, <1>5 DEF WholeInv, WholeBody, WholeAnswer
<1> QED
  BY <1>3, <1>4, <1>5

\* Another round of a loop.
LEMMA ContinueWhole ==
  ASSUME Running, pc # "idle", NEW h, NEW c, NEW left, NEW content,
         Continue(h, c, left, content), PartsLeft'
  PROVE  WholeInv'
<1>1. ~ok'
  BY DEF Continue, Running
<1> QED
  BY <1>1, NotDone DEF WholeInv

\* The answer to a new request, behind what was left on the connection.
LEMMA SentWhole ==
  ASSUME NEW r \in 1..MaxRequests, NEW s \in AllShapes, NEW a \in Answer(r, s),
         NEW i \in Seq(Pieces), NEW w \in Seq(Pieces), NoMark(i \o w, 1),
         inbox' = i, wire' = w \o a, request' = r
  PROVE  \E p \in Seq(Kinds), f \in StatusLine(s), o \in OtherHeader, b \in BlankLine,
            d \in Body(s) : Behind(p, f \o (o \o (Header(s) \o (b \o d))))'
<1> DEFINE u == i \o w
           p == KindSeq(u)
<1>1. PICK f \in StatusLine(s), o \in OtherHeader, b \in BlankLine, d \in Body(s) :
         KindSeq(a) = f \o (o \o (Header(s) \o (b \o d)))
  BY AnswerParts
<1>2. a \in Seq(Pieces) /\ Len(a) \in Nat /\ \A n \in 1..Len(a) : a[n].req = r
  BY AnswerFacts
<1>3. u \in Seq(Pieces) /\ Len(u) \in Nat /\ Len(u) = Len(i) + Len(w)
      /\ Len(i) \in Nat /\ Len(w) \in Nat
  BY LenProperties, ConcatProperties
<1>4. Unread' = u \o a
  BY <1>2, Regroup, Zenon DEF Unread
<1>5. \A n \in 1..Len(u) : u[n].kind \notin Marks
  BY DEF NoMark
<1> HIDE DEF u
<1>6. /\ p \in Seq(Kinds) /\ Len(p) = Len(u) /\ \A n \in 1..Len(p) : p[n] \notin Marks
  BY <1>3, <1>5, KindSeqFacts
<1>7. KindSeq(Unread') = p \o KindSeq(a)
  BY <1>2, <1>3, <1>4, KindSeqConcat
<1>8. /\ Len(Unread') = Len(u) + Len(a)
      /\ \A n \in 1..(Len(u) + Len(a)) : Unread'[n] = IF n <= Len(u) THEN u[n] ELSE a[n - Len(u)]
  BY <1>2, <1>3, <1>4, ConcatProperties, SMTT(30)
<1>9. ASSUME NEW n \in (Len(p) + 1)..Len(Unread') PROVE Unread'[n].req = request'
  <2>1. n \in 1..(Len(u) + Len(a)) /\ ~(n <= Len(u)) /\ n - Len(u) \in 1..Len(a)
    BY <1>2, <1>3, <1>6, <1>8
  <2> QED
    BY <1>2, <1>8, <2>1
<1>10. Len(inbox') <= Len(p)
  BY <1>3, <1>6
<1>11. KindSeq(Unread)' = p \o (f \o (o \o (Header(s) \o (b \o d))))
  BY <1>1, <1>7 DEF KindSeq
<1> HIDE DEF p
<1>12. Behind(p, f \o (o \o (Header(s) \o (b \o d))))'
  BY <1>6, <1>9, <1>10, <1>11 DEF Behind
<1> QED
  BY <1>6, <1>12

\* A request is sent.
LEMMA SendWhole ==
  ASSUME TypeOK, LeftBehind, NEW r \in Readers, NEW s \in Shapes, Send(r, s)
  PROVE  WholeInv'
<1>1. /\ pc = "idle" /\ request + 1 \in 1..MaxRequests /\ request' = request + 1
      /\ mode' = r /\ shape' = s /\ payload' = <<>> /\ handler' = NewHandler /\ code' = 0
      /\ ~ok' /\ pc' = "wait" /\ s \in AllShapes
  BY HttpAssumption DEF Send, Start, TypeOK
<1>2. PICK old \in BOOLEAN, a \in Answer(request + 1, s) : Connect(open /\ ~Closes(r, old), a)
  BY DEF Send
<1>3. ASSUME r = "rtdb"
      PROVE  \E p \in Seq(Kinds), f \in StatusLine(s), o \in OtherHeader, b \in BlankLine,
                d \in Body(s) : Behind(p, f \o (o \o (Header(s) \o (b \o d))))'
  <2>1. CASE open /\ ~Closes(r, old)
    <3>1. inbox' = inbox /\ wire' = wire \o a
      BY <1>2, <2>1 DEF Connect
    <3>2. NoMark(inbox \o wire, 1)
      BY <1>1, <1>3, <2>1 DEF Closes, LeftBehind, Unread
    <3>3. inbox \in Seq(Pieces) /\ wire \in Seq(Pieces)
      BY DEF TypeOK
    <3> QED
      BY <1>1, <3>1, <3>2, <3>3, SentWhole
  <2>2. CASE ~(open /\ ~Closes(r, old))
    <3>1. inbox' = <<>> /\ wire' = <<>> \o a
      BY <1>2, <2>2 DEF Connect
    <3>2. <<>> \in Seq(Pieces) /\ NoMark(<<>> \o <<>>, 1)
      BY DEF NoMark
    <3> QED
      BY <1>1, <3>1, <3>2, SentWhole
  <2> QED
    BY <2>1, <2>2
<1>4. mode' = "rtdb" => AnswerLeft'
  BY <1>1, <1>3 DEF AnswerLeft
<1>5. ~handler'.started
  BY <1>1 DEF NewHandler
<1>6. PartsLeft'
  BY <1>4, <1>5 DEF PartsLeft
<1> QED
  BY <1>1, <1>6, NotDone DEF WholeInv

NoBody == Kinds \ {"body", "error"}

\* Bytes of a body with a length are the last of an answer.
BytesLast(k) ==
    /\ k \in Seq(Kinds)
    /\ \A i \in 1..Len(k), j \in 1..Len(k) :
         i <= j /\ k[i] \in {"body", "error"} => k[j] \in {"body", "error"}

LEMMA BytesLastConcat ==
  ASSUME NEW p \in Seq(NoBody), NEW q, BytesLast(q)
  PROVE  BytesLast(p \o q)
<1>1. /\ p \in Seq(Kinds) /\ q \in Seq(Kinds) /\ Len(p) \in Nat /\ Len(q) \in Nat
      /\ \A n \in 1..Len(p) : p[n] \notin {"body", "error"}
  <2>1. p \in Seq(Kinds) /\ \A n \in 1..Len(p) : p[n] \in NoBody
    BY SeqMonotonic, ElementOfSeq DEF NoBody
  <2> QED
    BY <2>1, LenProperties DEF NoBody, BytesLast
<1>2. /\ p \o q \in Seq(Kinds) /\ Len(p \o q) = Len(p) + Len(q)
      /\ \A n \in 1..(Len(p) + Len(q)) : (p \o q)[n] = IF n <= Len(p) THEN p[n] ELSE q[n - Len(p)]
  BY <1>1, ConcatProperties
<1>3. ASSUME NEW i \in 1..(Len(p) + Len(q)), NEW j \in 1..(Len(p) + Len(q)), i <= j,
             (p \o q)[i] \in {"body", "error"}
      PROVE  (p \o q)[j] \in {"body", "error"}
  <2>1. ~(i <= Len(p))
    <3> SUFFICES ASSUME i <= Len(p) PROVE FALSE
      OBVIOUS
    <3>1. i \in 1..Len(p) /\ (p \o q)[i] = p[i]
      BY <1>1, <1>2
    <3> QED
      BY <1>1, <1>3, <3>1
  <2>2. /\ i - Len(p) \in 1..Len(q) /\ j - Len(p) \in 1..Len(q) /\ i - Len(p) <= j - Len(p)
        /\ ~(j <= Len(p))
    BY <1>1, <1>3, <2>1
  <2>3. q[i - Len(p)] = (p \o q)[i] /\ q[j - Len(p)] = (p \o q)[j]
    BY <1>2, <2>1, <2>2
  <2> QED
    BY <1>3, <2>2, <2>3, Zenon DEF BytesLast
<1> QED
  BY <1>2, <1>3 DEF BytesLast

LEMMA BytesAreLast ==
  ASSUME NEW s, NEW f \in StatusLine(s), NEW o \in OtherHeader, NEW b \in BlankLine,
         NEW d \in Body(s)
  PROVE  /\ f \in Seq(NoBody) /\ Len(f) \in Nat \ {0}
         /\ BytesLast(f \o (o \o (Header(s) \o (b \o d))))
<1>0. /\ {"bad", "no-content", "moved", "ok", "ok-", "ok+", "other", "half", "crlf", "cr", "lf",
          "length", "chunked", "size", "size+", "last", "data"} \subseteq NoBody
  BY DEF NoBody, Kinds, Lines, Bytes
<1> HIDE DEF NoBody
<1>1. \A c \in NoBody : <<c>> \in Seq(NoBody)
  OBVIOUS
<1>2. \A c \in NoBody, e \in NoBody : <<c, e>> \in Seq(NoBody)
  OBVIOUS
<1>3. f \in Seq(NoBody) /\ Len(f) \in Nat \ {0}
  <2>1. /\ <<"bad">> \in Seq(NoBody) /\ <<"no-content">> \in Seq(NoBody)
        /\ <<"moved">> \in Seq(NoBody) /\ <<"ok">> \in Seq(NoBody)
        /\ <<"ok-", "ok+">> \in Seq(NoBody)
    BY <1>0, <1>1, <1>2
  <2>2. f \in {<<"bad">>, <<"no-content">>, <<"moved">>, <<"ok">>, <<"ok-", "ok+">>}
    BY DEF StatusLine, Whole, Cut
  <2>3. f \in Seq(NoBody)
    BY <2>1, <2>2
  <2>4. Len(f) \in Nat \ {0}
    BY StatusLineMarks DEF MarkFirst
  <2> QED
    BY <2>3, <2>4
<1>4. o \in Seq(NoBody) /\ b \in Seq(NoBody) /\ \A x \in SizeLine : x \in Seq(NoBody)
  <2>1. /\ <<"other">> \in Seq(NoBody) /\ <<"half", "crlf">> \in Seq(NoBody)
        /\ <<"crlf">> \in Seq(NoBody) /\ <<"cr", "lf">> \in Seq(NoBody)
        /\ <<"size">> \in Seq(NoBody) /\ <<"half", "size+">> \in Seq(NoBody)
    BY <1>0, <1>1, <1>2
  <2>2. /\ o \in {<<"other">>, <<"half", "crlf">>} /\ b \in {<<"crlf">>, <<"cr", "lf">>}
        /\ SizeLine \subseteq {<<"size">>, <<"half", "size+">>}
    BY DEF OtherHeader, BlankLine, SizeLine, Whole, Cut
  <2> QED
    BY <2>1, <2>2
<1>5. Header(s) \in Seq(NoBody)
  <2>1. <<"length">> \in Seq(NoBody) /\ <<"chunked">> \in Seq(NoBody) /\ <<>> \in Seq(NoBody)
    BY <1>0, <1>1
  <2> QED
    BY <2>1 DEF Header
<1>6. BytesLast(d)
  <2>1. ASSUME NEW q \in Seq(NoBody) PROVE BytesLast(q)
    <3>1. <<>> \in Seq(Kinds) /\ \A n \in 1..Len(<<>>) : FALSE
      OBVIOUS
    <3>2. BytesLast(<<>>)
      BY <3>1 DEF BytesLast
    <3>3. q \o <<>> = q
      BY ConcatEmptySeq
    <3> QED
      BY <3>2, <3>3, BytesLastConcat
  <2>2. ASSUME NEW c \in {"body", "error"} PROVE BytesLast(<<c, c>>)
    <3>1. c \in Kinds
      BY DEF Kinds, Bytes
    <3>2. <<c, c>> \in Seq(Kinds) /\ Len(<<c, c>>) = 2 /\ \A n \in 1..2 : <<c, c>>[n] = c
      BY <3>1
    <3> QED
      BY <3>2 DEF BytesLast
  <2>3. Chunks \subseteq Seq(NoBody)
    <3>1. /\ <<"data", "crlf">> \in Seq(NoBody) /\ <<"last", "crlf">> \in Seq(NoBody)
      BY <1>0, <1>2
    <3>2. LastChunk \in Seq(NoBody) /\ \A x \in SizeLine : Chunk(x) \in Seq(NoBody)
      BY <1>4, <3>1, ConcatProperties DEF LastChunk, Chunk
    <3>3. ASSUME NEW c \in Chunks PROVE c \in Seq(NoBody)
      <4>1. PICK x \in SizeLine, y \in SizeLine : c = Chunk(x) \o Chunk(y) \o LastChunk
        BY DEF Chunks
      <4> QED
        BY <3>2, <4>1, ConcatProperties
    <3> QED
      BY <3>3
  <2>4. <<>> \in Seq(NoBody)
    OBVIOUS
  <2>5. d \in Chunks \/ d = <<>> \/ d = <<"body", "body">> \/ d = <<"error", "error">>
    BY DEF Body
  <2> QED
    BY <2>1, <2>2, <2>3, <2>4, <2>5
<1>7. BytesLast(b \o d)
  BY <1>4, <1>6, BytesLastConcat
<1>8. BytesLast(Header(s) \o (b \o d))
  BY <1>5, <1>7, BytesLastConcat
<1>9. BytesLast(o \o (Header(s) \o (b \o d)))
  BY <1>4, <1>8, BytesLastConcat
<1>10. BytesLast(f \o (o \o (Header(s) \o (b \o d))))
  BY <1>3, <1>9, BytesLastConcat
<1> QED
  BY <1>3, <1>10

\* An answer behind what was left, piece by piece.
LEMMA BehindFacts ==
  ASSUME TypeOK, NEW p, NEW a \in Seq(Kinds), Behind(p, a)
  PROVE  /\ Len(p) \in Nat /\ Len(a) \in Nat /\ Len(Unread) = Len(p) + Len(a)
         /\ \A n \in (Len(p) + 1)..Len(Unread) :
               n - Len(p) \in 1..Len(a) /\ Unread[n].kind = a[n - Len(p)]
<1>1. /\ p \in Seq(Kinds) /\ Len(p) \in Nat /\ Len(a) \in Nat /\ Len(p \o a) = Len(p) + Len(a)
      /\ \A n \in 1..(Len(p) + Len(a)) : (p \o a)[n] = IF n <= Len(p) THEN p[n] ELSE a[n - Len(p)]
  BY LenProperties, ConcatProperties DEF Behind
<1>2. /\ Len(Unread) = Len(p) + Len(a) /\ \A n \in 1..Len(Unread) : (p \o a)[n] = Unread[n].kind
  BY <1>1, UnreadFacts, KindSeqFacts DEF Behind
<1>3. ASSUME NEW n \in (Len(p) + 1)..Len(Unread)
      PROVE  n - Len(p) \in 1..Len(a) /\ Unread[n].kind = a[n - Len(p)]
  <2>1. n - Len(p) \in 1..Len(a) /\ n \in 1..(Len(p) + Len(a)) /\ ~(n <= Len(p))
    BY <1>1, <1>2
  <2> QED
    BY <1>1, <1>2, <2>1
<1> QED
  BY <1>1, <1>2, <1>3

\* Pieces arrive: an answer that is not split is cut before the bytes of its body.
LEMMA DeliverWhole ==
  ASSUME TypeOK, TypeOK', PartsLeft, WholeBody, NEW n \in 1..Len(wire), Deliver(n)
  PROVE  WholeInv'
<1> DEFINE cut == n < Len(wire) /\ wire[n + 1].req = wire[n].req /\ ~InBody(wire[n + 1])
<1>1. /\ inbox' = inbox \o SubSeq(wire, 1, n) /\ wire' = SubSeq(wire, n + 1, Len(wire))
      /\ UNCHANGED <<mode, request, shape, pc, handler, code, payload, ok>>
      /\ split' = (split \/ cut)
  BY DEF Deliver, requestVars, readVars
<1>2. WholeBody'
  BY <1>1 DEF WholeBody, WholeAnswer
<1>3. Unread' = Unread
  BY <1>1, DeliverKeeps
<1>4. /\ inbox \in Seq(Pieces) /\ wire \in Seq(Pieces) /\ Len(inbox) \in Nat /\ Len(wire) \in Nat
      /\ Len(Unread) = Len(inbox) + Len(wire)
      /\ \A m \in 1..Len(wire) : Unread[Len(inbox) + m] = wire[m]
  BY UnreadFacts DEF TypeOK
<1>5. /\ Len(inbox') = Len(inbox) + n /\ Len(wire') = Len(wire) - n
      /\ \A m \in 1..(Len(wire) - n) : wire'[m] = wire[m + n]
  <2>1. \A m \in 1..Len(wire) : wire[m] \in Pieces
    BY <1>4, ElementOfSeq
  <2>2. /\ SubSeq(wire, 1, n) \in Seq(Pieces) /\ Len(SubSeq(wire, 1, n)) = n
        /\ Len(SubSeq(wire, n + 1, Len(wire))) = Len(wire) - n
        /\ \A m \in 1..(Len(wire) - n) : SubSeq(wire, n + 1, Len(wire))[m] = wire[m + n]
    BY <1>4, <2>1, SubSeqProperties
  <2>3. Len(inbox \o SubSeq(wire, 1, n)) = Len(inbox) + n
    BY <1>4, <2>2, ConcatProperties
  <2> QED
    BY <1>1, <2>2, <2>3
<1>6. BodyOnly(wire) => BodyOnly(wire)'
  <2>1. \A m \in 1..(Len(wire) - n) : m + n \in 1..Len(wire)
    BY <1>4
  <2> QED
    BY <1>5, <2>1 DEF BodyOnly, InBody
<1>7. \A r : Left(r) => Left(r)'
  BY <1>3, <1>6 DEF Left, KindSeq
<1>8. ASSUME NEW p, NEW a, BytesLast(a), Behind(p, a), ~cut
      PROVE  Behind(p, a)'
  <2>1. /\ Len(p) \in Nat /\ Len(a) \in Nat /\ Len(Unread) = Len(p) + Len(a)
        /\ \A m \in (Len(p) + 1)..Len(Unread) :
              m - Len(p) \in 1..Len(a) /\ Unread[m].kind = a[m - Len(p)]
    BY <1>8, BehindFacts DEF BytesLast
  <2>2. Len(inbox') <= Len(p) \/ BodyOnly(wire)'
    <3>1. CASE BodyOnly(wire)
      BY <1>6, <3>1
    <3>2. CASE Len(inbox') <= Len(p)
      BY <3>2
    <3>3. CASE n = Len(wire)
      <4>1. \A m \in 1..(Len(wire) - n) : FALSE
        BY <1>4, <3>3
      <4> QED
        BY <1>5, <4>1 DEF BodyOnly
    <3>4. CASE n # Len(wire) /\ ~(Len(inbox') <= Len(p))
      <4> DEFINE i == Len(inbox) + n
      <4>1. /\ n + 1 \in 1..Len(wire) /\ n < Len(wire) /\ i \in Nat
            /\ i \in (Len(p) + 1)..Len(Unread) /\ i + 1 \in (Len(p) + 1)..Len(Unread)
        BY <1>4, <1>5, <2>1, <3>4, SMTT(30)
      <4>2. wire[n] = Unread[i] /\ wire[n + 1] = Unread[i + 1]
        BY <1>4, <4>1
      <4>3. wire[n].req = request /\ wire[n + 1].req = request
        BY <1>8, <4>1, <4>2 DEF Behind
      <4>4. InBody(wire[n + 1])
        BY <1>8, <4>1, <4>3
      <4>5. a[i + 1 - Len(p)] \in {"body", "error"} /\ i + 1 - Len(p) \in 1..Len(a)
        <5>1. Unread[i + 1].kind \in {"body", "error"}
          BY <4>2, <4>4, Zenon DEF InBody
        <5> HIDE DEF i
        <5> QED
          BY <2>1, <4>1, <5>1
      <4>6. ASSUME NEW m \in 1..(Len(wire) - n) PROVE InBody(wire[m + n])
        <5>1. /\ m + n \in 1..Len(wire) /\ Len(inbox) + (m + n) \in (Len(p) + 1)..Len(Unread)
              /\ i + 1 - Len(p) <= Len(inbox) + (m + n) - Len(p)
          BY <1>4, <2>1, <4>1
        <5>2. /\ wire[m + n] = Unread[Len(inbox) + (m + n)]
              /\ Len(inbox) + (m + n) - Len(p) \in 1..Len(a)
              /\ Unread[Len(inbox) + (m + n)].kind = a[Len(inbox) + (m + n) - Len(p)]
          BY <1>4, <2>1, <5>1
        <5> HIDE DEF i
        <5>3. a[Len(inbox) + (m + n) - Len(p)] \in {"body", "error"}
          BY <1>8, <4>5, <5>1, <5>2, Zenon DEF BytesLast
        <5> QED
          BY <5>2, <5>3 DEF InBody
      <4> QED
        BY <1>5, <4>6 DEF BodyOnly
    <3> QED
      BY <1>8, <3>2, <3>3, <3>4
  <2> QED
    BY <1>1, <1>3, <1>8, <2>2 DEF Behind, KindSeq
<1>9. ASSUME pc # "idle", mode = "rtdb", ~split'
      PROVE  /\ ~handler'.started => AnswerLeft'
             /\ handler'.started /\ code' = 204 =>
                  shape' = "empty" /\ pc' = "read" /\ payload' = <<>>
             /\ handler'.started /\ code' = 200 =>
                  IF handler'.inHeader THEN HeaderLeft' ELSE BytesLeft' \/ ChunksLeft'
  <2>1. ~split /\ ~cut
    BY <1>1, <1>9
  <2> HIDE DEF cut
  <2>2. AnswerLeft => AnswerLeft'
    <3> SUFFICES ASSUME AnswerLeft PROVE AnswerLeft'
      OBVIOUS
    <3>1. PICK s \in AllShapes : s = shape
      BY DEF AnswerLeft
    <3>2. PICK p \in Seq(Kinds), f \in StatusLine(s), o \in OtherHeader, b \in BlankLine,
               d \in Body(s) :
                  Behind(p, f \o (o \o (Header(s) \o (b \o d))))
      BY <3>1 DEF AnswerLeft
    <3>3. BytesLast(f \o (o \o (Header(s) \o (b \o d))))
      BY BytesAreLast
    <3>4. Behind(p, f \o (o \o (Header(s) \o (b \o d))))'
      BY <1>8, <2>1, <3>2, <3>3
    <3>5. \E q \in Seq(Kinds), g \in StatusLine(s), o2 \in OtherHeader, b2 \in BlankLine,
             e \in Body(s) : Behind(q, g \o (o2 \o (Header(s) \o (b2 \o e))))'
      BY <3>4
    <3> QED
      BY <1>1, <3>1, <3>5 DEF AnswerLeft
  <2>3. HeaderLeft => HeaderLeft'
    <3> SUFFICES ASSUME HeaderLeft PROVE HeaderLeft'
      OBVIOUS
    <3> QED
      BY <1>1, <1>3, <1>6, SMTT(30) DEF HeaderLeft, Left, KindSeq
  <2>4. BytesLeft => BytesLeft'
    BY <1>1, <1>3 DEF BytesLeft
  <2>5. ChunksLeft => ChunksLeft'
    <3>1. KindSeq(payload)' = KindSeq(payload)
      BY <1>1 DEF KindSeq
    <3>2. ASSUME NEW r, Left(r) PROVE Left(r)'
      BY <1>3, <1>6, <3>2 DEF Left, KindSeq
    <3> SUFFICES ASSUME ChunksLeft PROVE ChunksLeft'
      OBVIOUS
    <3> QED
      BY <1>1, <3>1, <3>2, SMTT(30) DEF ChunksLeft, ChunkPhase
  <2> QED
    BY <1>1, <1>9, <2>1, <2>2, <2>3, <2>4, <2>5 DEF PartsLeft
<1>10. PartsLeft'
  BY <1>1, <1>9 DEF PartsLeft
<1> QED
  BY <1>2, <1>10 DEF WholeInv

\* The connection is lost: what was left, if it was more than bytes of a body, splits the
\* answer.
LEMMA DisconnectWhole ==
  ASSUME TypeOK, PartsLeft, WholeBody, Disconnect
  PROVE  WholeInv'
<1>1. /\ inbox' = <<>> /\ wire' = <<>>
      /\ UNCHANGED <<mode, request, shape, pc, handler, code, payload, ok>>
      /\ split' = (split \/ \E n \in DOMAIN Unread : ~InBody(Unread[n]))
  BY DEF Disconnect, requestVars, readVars, Unread
<1>2. WholeBody'
  BY <1>1 DEF WholeBody, WholeAnswer
<1>3. AnswerLeft => \E n \in DOMAIN Unread : ~InBody(Unread[n])
  <2> SUFFICES ASSUME AnswerLeft PROVE \E n \in DOMAIN Unread : ~InBody(Unread[n])
    OBVIOUS
  <2>1. PICK p \in Seq(Kinds), f \in StatusLine(shape), o \in OtherHeader, b \in BlankLine,
             d \in Body(shape) :
                Behind(p, f \o (o \o (Header(shape) \o (b \o d))))
    BY DEF AnswerLeft
  <2> DEFINE r == o \o (Header(shape) \o (b \o d))
             a == f \o r
  <2>2. f \in Seq(NoBody) /\ Len(f) \in Nat \ {0} /\ f \in Seq(Kinds) /\ a \in Seq(Kinds)
    BY BytesAreLast, PartsAreKinds DEF BytesLast
  <2>3. r \in Seq(Kinds)
    <3>1. b \o d \in Seq(Kinds)
      BY PartsAreKinds, KindsConcat
    <3>2. Header(shape) \o (b \o d) \in Seq(Kinds)
      BY <3>1, PartsAreKinds, KindsConcat
    <3> QED
      BY <3>2, PartsAreKinds, KindsConcat
  <2> HIDE DEF r
  <2>4. Len(a) = Len(f) + Len(r) /\ a[1] = f[1] /\ Len(r) \in Nat
    <3>1. /\ Len(a) = Len(f) + Len(r) /\ Len(r) \in Nat
          /\ \A n \in 1..(Len(f) + Len(r)) : a[n] = IF n <= Len(f) THEN f[n] ELSE r[n - Len(f)]
      BY <2>2, <2>3, LenProperties, ConcatProperties
    <3>2. 1 \in 1..(Len(f) + Len(r)) /\ 1 <= Len(f)
      BY <2>2, <3>1
    <3> QED
      BY <3>1, <3>2
  <2>5. f[1] \in NoBody
    BY <2>2, ElementOfSeq
  <2>6. Behind(p, a)
    BY <2>1 DEF r
  <2> HIDE DEF a
  <2>7. /\ Len(p) \in Nat /\ Len(Unread) = Len(p) + Len(a)
        /\ \A m \in (Len(p) + 1)..Len(Unread) :
              m - Len(p) \in 1..Len(a) /\ Unread[m].kind = a[m - Len(p)]
    BY <2>2, <2>6, BehindFacts
  <2>8. /\ Len(p) + 1 \in (Len(p) + 1)..Len(Unread) /\ Len(p) + 1 - Len(p) = 1
        /\ Len(p) + 1 \in 1..Len(Unread)
    BY <2>2, <2>4, <2>7
  <2>9. Unread[Len(p) + 1].kind = f[1]
    BY <2>4, <2>7, <2>8
  <2>10. ~InBody(Unread[Len(p) + 1])
    BY <2>5, <2>9 DEF InBody, NoBody
  <2>11. DOMAIN Unread = 1..Len(Unread)
    BY UnreadFacts, LenProperties
  <2> QED
    BY <2>8, <2>10, <2>11
<1>4. HeaderLeft \/ ChunksLeft => \E n \in DOMAIN Unread : ~InBody(Unread[n])
  BY LineIsLeft
<1>5. BytesLeft => BytesLeft'
  <2>1. Len(Unread') = 0
    BY <1>1 DEF Unread
  <2>2. \A n \in 1..0 : FALSE
    OBVIOUS
  <2> QED
    BY <1>1, <2>1, <2>2 DEF BytesLeft
<1>6. PartsLeft'
  <2> SUFFICES ASSUME pc # "idle", mode = "rtdb", ~split'
               PROVE  PartsLeft'
    BY <1>1 DEF PartsLeft
  <2>1. ~split /\ ~AnswerLeft /\ ~HeaderLeft /\ ~ChunksLeft
    BY <1>1, <1>3, <1>4
  <2> QED
    BY <1>1, <1>5, <2>1 DEF PartsLeft
<1> QED
  BY <1>2, <1>6 DEF WholeInv

\* waitResponse returns, and readPayload begins to wait for the bytes of a body.
LEMMA WaitWhole ==
  ASSUME PartsLeft, WholeBody, WaitEnds \/ BeginBody
  PROVE  WholeInv'
<1>1. /\ UNCHANGED <<inbox, wire, mode, request, shape, split, handler, code, payload, ok>>
      /\ pc # "idle"
  BY DEF WaitEnds, BeginBody, InPayload, connVars, requestVars
<1>2. WholeBody'
  BY <1>1 DEF WholeBody, WholeAnswer
<1>3. BytesLeft => BytesLeft'
  BY <1>1 DEF BytesLeft, Unread
<1>4. CASE WaitEnds
  <2>1. pc = "wait" /\ pc' = "read"
    BY <1>4 DEF WaitEnds
  <2>2. AnswerLeft => AnswerLeft'
    <3> SUFFICES ASSUME AnswerLeft PROVE AnswerLeft'
      OBVIOUS
    <3> QED
      BY <1>1, <2>1 DEF AnswerLeft, Behind, KindSeq, Unread, BodyOnly, InBody
  <2>3. ~HeaderLeft /\ ~ChunksLeft
    BY <2>1 DEF HeaderLeft, ChunksLeft
  <2>4. PartsLeft'
    BY <1>1, <1>3, <2>1, <2>2, <2>3 DEF PartsLeft
  <2> QED
    BY <1>2, <2>4 DEF WholeInv
<1>5. CASE BeginBody
  <2>1. /\ handler.started /\ ~handler.inHeader /\ code # 204 /\ ~handler.chunked
    BY <1>5 DEF BeginBody, InPayload
  <2>2. ~ChunksLeft
    BY <2>1 DEF ChunksLeft
  <2>3. PartsLeft'
    BY <1>1, <1>3, <2>1, <2>2 DEF PartsLeft
  <2> QED
    BY <1>2, <2>3 DEF WholeInv
<1> QED
  BY <1>4, <1>5

\* The two chunks and the last one, line by line.
LEMMA ChunksAreLines ==
  ASSUME NEW d \in Body("chunked")
  PROVE  \E x \in SizeLine, y \in SizeLine :
            d = x \o (DataLine \o (y \o (DataLine \o LastChunk)))
<1>1. PICK x \in SizeLine, y \in SizeLine : d = Chunk(x) \o Chunk(y) \o LastChunk
  BY DEF Body, Chunks
<1> DEFINE l == LastChunk
           e == DataLine
<1>2. x \in Seq(Kinds) /\ y \in Seq(Kinds) /\ l \in Seq(Kinds) /\ e \in Seq(Kinds)
  BY PartsAreKinds
<1>3. d = ((x \o e) \o (y \o e)) \o l
  BY <1>1 DEF Chunk, DataLine
<1> HIDE DEF l, e
<1>4. x \o e \in Seq(Kinds) /\ y \o e \in Seq(Kinds) /\ e \o l \in Seq(Kinds)
  BY <1>2, KindsConcat
<1>5. y \o (e \o l) \in Seq(Kinds)
  BY <1>2, <1>4, KindsConcat
<1>6. (y \o e) \o l = y \o (e \o l)
  BY <1>2, RegroupKinds, SMTT(30)
<1>7. ((x \o e) \o (y \o e)) \o l = (x \o e) \o ((y \o e) \o l)
  <2> DEFINE g == x \o e
             i == y \o e
  <2>1. g \in Seq(Kinds) /\ i \in Seq(Kinds)
    BY <1>4
  <2> HIDE DEF g, i
  <2>2. g \o (i \o l) = (g \o i) \o l
    BY <1>2, <2>1, RegroupKinds, SMTT(30)
  <2> QED
    BY <2>2 DEF g, i
<1>8. (x \o e) \o (y \o (e \o l)) = x \o (e \o (y \o (e \o l)))
  <2> DEFINE g == y \o (e \o l)
  <2>1. g \in Seq(Kinds)
    BY <1>5
  <2> HIDE DEF g
  <2>2. x \o (e \o g) = (x \o e) \o g
    BY <1>2, <2>1, RegroupKinds, SMTT(30)
  <2> QED
    BY <2>2 DEF g
<1>9. d = x \o (e \o (y \o (e \o l)))
  BY <1>3, <1>6, <1>7, <1>8, Zenon
<1> QED
  BY <1>9 DEF l, e

\* A line of the header, or the blank line after it.
LEMMA HeaderLineKinds ==
  ASSUME TypeOK, NEW l, IsLine(l), NEW r \in Seq(Kinds), Left(l \o r)
  PROVE  /\ l \in OtherHeader => ~IsBlank(Line) /\ KindsOf(Line) \cap {"length", "chunked"} = {}
         /\ l \in {<<"length">>, <<"chunked">>} => ~IsBlank(Line) /\ KindsOf(Line) = {l[1]}
         /\ l \in BlankLine => IsBlank(Line)
<1>1. /\ Line \in Seq(Pieces) /\ Len(Line) = Len(l)
      /\ \A n \in 1..Len(l) : Line[n].kind = l[n]
      /\ KindsOf(Line) = {l[n] : n \in 1..Len(l)}
  BY LineShows
<1>2. ASSUME NEW c, l = <<c>>
      PROVE  Len(Line) = 1 /\ Line[1].kind = c /\ KindsOf(Line) = {c} /\ l[1] = c
  <2>1. Len(l) = 1 /\ l[1] = c
    BY <1>2
  <2>2. Len(Line) = 1 /\ Line[1].kind = c
    BY <1>1, <2>1
  <2>3. KindsOf(Line) = {c}
    BY <1>1, <2>1
  <2> QED
    BY <2>1, <2>2, <2>3
<1>3. ASSUME NEW c, NEW e, l = <<c, e>>
      PROVE  Len(Line) = 2 /\ Line[1].kind = c /\ Line[2].kind = e /\ KindsOf(Line) = {c, e}
  <2>1. Len(l) = 2 /\ l[1] = c /\ l[2] = e
    BY <1>3
  <2>2. Len(Line) = 2 /\ Line[1].kind = c /\ Line[2].kind = e
    BY <1>1, <2>1
  <2>3. KindsOf(Line) = {c, e}
    BY <1>1, <2>1
  <2> QED
    BY <2>2, <2>3
<1>4. ASSUME l \in OtherHeader
      PROVE  ~IsBlank(Line) /\ KindsOf(Line) \cap {"length", "chunked"} = {}
  <2>1. l = <<"other">> \/ l = <<"half", "crlf">>
    BY <1>4 DEF OtherHeader, Whole, Cut
  <2>2. CASE l = <<"other">>
    BY <1>2, <2>2 DEF IsBlank
  <2>3. CASE l = <<"half", "crlf">>
    BY <1>3, <2>3 DEF IsBlank
  <2> QED
    BY <2>1, <2>2, <2>3
<1>5. ASSUME l \in {<<"length">>, <<"chunked">>}
      PROVE  ~IsBlank(Line) /\ KindsOf(Line) = {l[1]}
  <2>1. CASE l = <<"length">>
    BY <1>2, <2>1 DEF IsBlank
  <2>2. CASE l = <<"chunked">>
    BY <1>2, <2>2 DEF IsBlank
  <2> QED
    BY <1>5, <2>1, <2>2
<1>6. ASSUME l \in BlankLine PROVE IsBlank(Line)
  <2>1. l = <<"crlf">> \/ l = <<"cr", "lf">>
    BY <1>6 DEF BlankLine, Whole, Cut
  <2>2. CASE l = <<"crlf">>
    BY <1>2, <2>2 DEF IsBlank
  <2>3. CASE l = <<"cr", "lf">>
    BY <1>3, <2>3 DEF IsBlank
  <2> QED
    BY <2>1, <2>2, <2>3
<1> QED
  BY <1>4, <1>5, <1>6

\* What is left of a header, with the line that is read next.
LEMMA HeaderCases ==
  ASSUME HeaderLeft, NEW s, s = shape
  PROVE  \E b \in BlankLine, d \in Body(s) :
           LET seen == handler.head \cap {"length", "chunked"} IN
           /\ b \o d \in Seq(Kinds) /\ d \in Seq(Kinds) /\ IsLine(b)
           /\ <<s>> \o (b \o d) \in Seq(Kinds)
           /\ \/ seen = {} /\ \E o \in OtherHeader : IsLine(o) /\ Left(o \o (<<s>> \o (b \o d)))
              \/ seen = {} /\ IsLine(<<s>>) /\ Left(<<s>> \o (b \o d))
              \/ seen = {s} /\ Left(b \o d)
<1>1. s \in {"length", "chunked"}
  BY DEF HeaderLeft
<1> DEFINE seen == handler.head \cap {"length", "chunked"}
<1>2. Header(s) = <<s>> /\ IsLine(<<s>>)
  BY <1>1, HeaderIsLine
<1>3. PICK b \in BlankLine, d \in Body(s) :
         \/ seen = {} /\ \E o \in OtherHeader : Left(o \o (Header(s) \o (b \o d)))
         \/ seen = {} /\ Left(Header(s) \o (b \o d))
         \/ seen = {s} /\ Left(b \o d)
  BY <1>1, Zenon DEF HeaderLeft
<1>4. \A o \in OtherHeader : IsLine(o)
  BY PartsAreLines
<1>5. <<"size">> \in SizeLine
  BY DEF SizeLine, Cut, Whole
<1>6. b \o d \in Seq(Kinds) /\ Header(s) \o (b \o d) \in Seq(Kinds) /\ d \in Seq(Kinds)
  BY <1>5, RestsAreKinds, PartsAreKinds
<1>7. IsLine(b)
  BY PartsAreLines
<1> QED
  BY <1>2, <1>3, <1>4, <1>6, <1>7, Zenon

\* A line of the header is read.
LEMMA HeaderWhole ==
  ASSUME TypeOK, TypeOK', Running, PartsLeft, ReadHeaderLine
  PROVE  WholeInv'
<1> DEFINE h == [handler EXCEPT !.head = @ \cup (KindsOf(Line) \cap Lines)]
<1>1. /\ pc = "read" /\ handler.started /\ handler.inHeader /\ Arrived /\ ~IsBlank(Line)
      /\ Continue(h, code, Rest, payload) /\ UNCHANGED <<shape, split>>
  BY DEF ReadHeaderLine, InHeader, requestVars
<1>2. /\ handler' = h /\ code' = code /\ payload' = payload /\ inbox' = Rest /\ wire' = wire
      /\ pc' = pc /\ mode' = mode
  BY <1>1 DEF Continue
<1>3. /\ h.started /\ h.inHeader /\ h.read = handler.read /\ h.inChunk = handler.inChunk
      /\ h.head = handler.head \cup (KindsOf(Line) \cap Lines)
  BY <1>1 DEF TypeOK, Handlers
<1> HIDE DEF h
<1>4. PartsLeft'
  <2> SUFFICES ASSUME mode = "rtdb", ~split, code \in {200, 204} PROVE PartsLeft'
    BY <1>1, <1>2, <1>3, NothingToKeep
  <2>1. CASE code = 204
    BY <1>1, <1>2, <1>3, <2>1 DEF PartsLeft
  <2>2. CASE code = 200
    <3>1. HeaderLeft
      BY <1>1, <2>2 DEF PartsLeft
    <3> DEFINE seen == handler.head \cap {"length", "chunked"}
               seenNow == h.head \cap {"length", "chunked"}
    <3>0. PICK s \in {"length", "chunked"} : s = shape
      BY <3>1 DEF HeaderLeft
    <3>2. PICK b \in BlankLine, d \in Body(s) :
             /\ b \o d \in Seq(Kinds) /\ d \in Seq(Kinds) /\ IsLine(b)
             /\ <<s>> \o (b \o d) \in Seq(Kinds)
             /\ \/ seen = {} /\ \E o \in OtherHeader : IsLine(o) /\ Left(o \o (<<s>> \o (b \o d)))
                \/ seen = {} /\ IsLine(<<s>>) /\ Left(<<s>> \o (b \o d))
                \/ seen = {s} /\ Left(b \o d)
      BY <3>0, <3>1, HeaderCases
    <3>3. Header(s) = <<s>>
      BY HeaderIsLine
    <3>4. {"length", "chunked"} \subseteq Lines
      BY DEF Lines
    <3>10. h.head \cap {"length", "chunked"} = seenNow
      OBVIOUS
    <3> HIDE DEF seen, seenNow
    <3>5. ASSUME \/ seenNow = {} /\ Left(<<s>> \o (b \o d))'
                 \/ seenNow = {s} /\ Left(b \o d)'
          PROVE  HeaderLeft'
      <4>1. /\ pc' = "read" /\ payload' = <<>> /\ handler'.read = 0 /\ ~handler'.inChunk
            /\ shape' = s
        BY <1>1, <1>2, <1>3, <3>0, <3>1 DEF HeaderLeft
      <4>2. handler'.head \cap {"length", "chunked"} = seenNow
        BY <1>2, <3>10, Zenon
      <4>3. \E c \in BlankLine, e \in Body(shape') :
              \/ seenNow = {} /\ Left(Header(shape) \o (c \o e))'
              \/ seenNow = {shape'} /\ Left(c \o e)'
        BY <3>3, <3>5, <4>1, Zenon DEF Left
      <4> QED
        BY <4>1, <4>2, <4>3, Zenon DEF HeaderLeft
    <3>6. ASSUME seen = {}, \E o \in OtherHeader : IsLine(o) /\ Left(o \o (<<s>> \o (b \o d)))
          PROVE  HeaderLeft'
      <4>1. PICK o \in OtherHeader : IsLine(o) /\ Left(o \o (<<s>> \o (b \o d)))
        BY <3>6
      <4> DEFINE r == <<s>> \o (b \o d)
      <4>2. r \in Seq(Kinds) /\ Left(o \o r)
        BY <3>2, <4>1
      <4> HIDE DEF r
      <4>3. KindsOf(Line) \cap {"length", "chunked"} = {}
        BY <4>1, <4>2, HeaderLineKinds
      <4>4. Left(r)'
        BY <1>2, <4>1, <4>2, LineRead
      <4>5. seenNow = {}
        BY <1>3, <3>6, <4>3 DEF seen, seenNow
      <4> QED
        BY <3>5, <4>4, <4>5, Zenon DEF r
    <3>7. ASSUME seen = {}, IsLine(<<s>>), Left(<<s>> \o (b \o d)) PROVE HeaderLeft'
      <4> DEFINE r == b \o d
      <4>1. r \in Seq(Kinds) /\ Left(<<s>> \o r)
        BY <3>2, <3>7
      <4> HIDE DEF r
      <4>2. KindsOf(Line) = {<<s>>[1]} /\ <<s>>[1] = s
        BY <3>7, <4>1, HeaderLineKinds
      <4>3. Left(r)'
        BY <1>2, <3>7, <4>1, LineRead
      <4>4. seenNow = {s}
        BY <1>3, <3>0, <3>4, <3>7, <4>2 DEF seen, seenNow
      <4> QED
        BY <3>5, <4>3, <4>4, Zenon DEF r
    <3>8. ASSUME seen = {s}, Left(b \o d) PROVE HeaderLeft'
      <4>1. IsBlank(Line)
        BY <3>2, <3>8, HeaderLineKinds
      <4> QED
        BY <1>1, <4>1
    <3>9. HeaderLeft'
      BY <3>2, <3>6, <3>7, <3>8, Zenon
    <3> QED
      BY <1>2, <1>3, <2>2, <3>9 DEF PartsLeft
  <2> QED
    BY <2>1, <2>2
<1> QED
  BY <1>1, <1>4, ContinueWhole

\* A body that begins: two bytes, or two chunks.
LEMMA BodyBegins ==
  ASSUME TypeOK', NEW s \in {"length", "chunked"}, NEW d \in Body(s), Left(d)', shape' = s,
         pc' = "read", payload' = <<>>, handler'.read = 0, ~handler'.inChunk,
         handler'.length = IF s = "length" THEN 2 ELSE 0, handler'.chunked <=> s = "chunked"
  PROVE  BytesLeft' \/ ChunksLeft'
<1>1. CASE s = "length"
  <2>1. d = <<"body", "body">>
    BY <1>1 DEF Body
  <2>2. KindSeq(Unread') = <<"body", "body">>
    BY <2>1 DEF Left, KindSeq
  <2>3. Unread' \in Seq(Pieces)
    BY ConcatProperties DEF TypeOK, Unread
  <2>4. Len(Unread') = 2 /\ \A n \in 1..Len(Unread') : KindSeq(Unread')[n] = Unread'[n].kind
    BY <2>2, <2>3, KindSeqFacts
  <2>5. \A n \in 1..Len(Unread') : Unread'[n].kind = "body"
    BY <2>2, <2>4
  <2>6. Len(payload') = 0 /\ \A n \in 1..0 : FALSE
    OBVIOUS
  <2>7. handler'.length = 2 /\ ~handler'.chunked
    BY <1>1
  <2>8. BytesLeft'
    BY <1>1, <2>5, <2>6, <2>7 DEF BytesLeft
  <2> QED
    BY <2>8
<1>2. CASE s = "chunked"
  <2>1. PICK x \in SizeLine, y \in SizeLine :
           d = x \o (DataLine \o (y \o (DataLine \o LastChunk)))
    BY <1>2, ChunksAreLines
  <2>2. KindSeq(payload)' = <<>>
    BY DEF KindSeq
  <2>3. ChunkPhase(<<>>, FALSE, d)'
    BY <2>2 DEF ChunkPhase
  <2>4. handler'.length = 0 /\ handler'.chunked
    BY <1>2
  <2>5. ChunksLeft'
    BY <1>2, <2>1, <2>3, <2>4 DEF ChunksLeft
  <2> QED
    BY <2>5
<1> QED
  BY <1>1, <1>2

\* The end of the header.
LEMMA BlankWhole ==
  ASSUME TypeOK, TypeOK', Running, PartsLeft, ReadBlankLine
  PROVE  WholeInv'
<1>1. /\ pc = "read" /\ handler.started /\ handler.inHeader /\ Arrived /\ IsBlank(Line)
      /\ UNCHANGED <<shape, split>>
  BY DEF ReadBlankLine, InHeader, requestVars
<1>2. CASE Finish(Parsed, code, Rest, payload)
  <2>1. mode = "token"
    BY <1>2 DEF ReadBlankLine, Continue, Finish, Fail, Succeed, InHeader
  <2> QED
    BY <1>1, <1>2, <2>1, FinishWhole
<1>3. CASE Continue(Parsed, code, Rest, payload)
  <2> DEFINE h == Parsed
  <2>1. /\ handler' = h /\ code' = code /\ payload' = payload /\ inbox' = Rest /\ wire' = wire
        /\ pc' = pc /\ mode' = mode
    BY <1>3 DEF Continue
  <2>2. /\ h.started /\ ~h.inHeader /\ h.read = handler.read /\ h.inChunk = handler.inChunk
        /\ h.length = IF "length" \in handler.head THEN 2 ELSE 0
        /\ h.chunked <=> "chunked" \in handler.head
    <3>1. /\ h.inHeader = FALSE /\ h.length = IF "length" \in handler.head THEN 2 ELSE 0
          /\ h.chunked = ("chunked" \in handler.head)
          /\ h.started = handler.started /\ h.read = handler.read
          /\ h.inChunk = handler.inChunk
      BY DEF Parsed, TypeOK, Handlers
    <3> QED
      BY <1>1, <3>1, Zenon
  <2> HIDE DEF h
  <2>3. PartsLeft'
    <3> SUFFICES ASSUME mode = "rtdb", ~split, code \in {200, 204} PROVE PartsLeft'
      BY <1>1, <2>1, <2>2, NothingToKeep
    <3>1. CASE code = 204
      BY <1>1, <2>1, <2>2, <3>1 DEF PartsLeft
    <3>2. CASE code = 200
      <4>1. HeaderLeft
        BY <1>1, <3>2 DEF PartsLeft
      <4>2. PICK s \in {"length", "chunked"} : s = shape
        BY <4>1 DEF HeaderLeft
      <4> DEFINE seen == handler.head \cap {"length", "chunked"}
      <4>3. PICK b \in BlankLine, d \in Body(s) :
               /\ b \o d \in Seq(Kinds) /\ d \in Seq(Kinds) /\ IsLine(b)
               /\ <<s>> \o (b \o d) \in Seq(Kinds)
               /\ \/ seen = {} /\ \E o \in OtherHeader : IsLine(o) /\ Left(o \o (<<s>> \o (b \o d)))
                  \/ seen = {} /\ IsLine(<<s>>) /\ Left(<<s>> \o (b \o d))
                  \/ seen = {s} /\ Left(b \o d)
        BY <4>1, <4>2, HeaderCases
      <4> HIDE DEF seen
      <4>4. ~\E o \in OtherHeader : IsLine(o) /\ Left(o \o (<<s>> \o (b \o d)))
        BY <1>1, <4>3, HeaderLineKinds
      <4>5. ~(IsLine(<<s>>) /\ Left(<<s>> \o (b \o d)))
        BY <1>1, <4>3, HeaderLineKinds
      <4>6. seen = {s} /\ Left(b \o d)
        BY <4>3, <4>4, <4>5, Zenon
      <4>7. Left(d)'
        BY <2>1, <4>3, <4>6, LineRead
      <4>8. /\ s = "length" <=> "length" \in handler.head
            /\ s = "chunked" <=> "chunked" \in handler.head
        BY <4>6 DEF seen
      <4>9. /\ handler'.length = IF s = "length" THEN 2 ELSE 0
            /\ handler'.chunked <=> s = "chunked"
            /\ handler'.read = 0 /\ ~handler'.inChunk
        BY <2>1, <2>2, <4>1, <4>8 DEF HeaderLeft
      <4>10. shape' = s /\ pc' = "read" /\ payload' = <<>>
        BY <1>1, <2>1, <4>1, <4>2 DEF HeaderLeft
      <4>11. BytesLeft' \/ ChunksLeft'
        BY <4>7, <4>9, <4>10, BodyBegins
      <4> QED
        BY <2>1, <2>2, <3>2, <4>11 DEF PartsLeft
    <3> QED
      BY <3>1, <3>2
  <2> QED
    BY <1>1, <1>3, <2>3, ContinueWhole
<1> QED
  BY <1>2, <1>3 DEF ReadBlankLine

\* A payload without a length is of another answer.
LEMMA LinePayloadWhole ==
  ASSUME TypeOK, TypeOK', Running, PartsLeft, ReadLinePayload
  PROVE  WholeInv'
<1> DEFINE h == [handler EXCEPT !.read = @ + Len(Line)]
           content == payload \o Line
<1>1. /\ pc = "read" /\ handler.started /\ ~handler.inHeader /\ code # 204 /\ ~handler.chunked
  BY DEF ReadLinePayload, InPayload, requestVars
<1>2. Finish(h, code, Rest, content) \/ Continue(h, code, Rest, content)
  BY DEF ReadLinePayload
<1>3. UNCHANGED <<shape, split>>
  BY DEF ReadLinePayload, requestVars
<1>4. h.started
  BY <1>1 DEF TypeOK, Handlers
<1>5. mode = "rtdb" /\ ~split => code \notin {200, 204}
  <2> SUFFICES ASSUME mode = "rtdb", ~split, code = 200 PROVE FALSE
    BY <1>1
  <2>1. BytesLeft \/ ChunksLeft
    BY <1>1 DEF PartsLeft
  <2>2. handler.length = 0
    BY DEF ReadLinePayload
  <2> QED
    BY <1>1, <2>1, <2>2 DEF BytesLeft, ChunksLeft
<1> HIDE DEF h, content
<1>6. CASE Finish(h, code, Rest, content)
  BY <1>1, <1>3, <1>5, <1>6, FinishWhole
<1>7. CASE Continue(h, code, Rest, content)
  <2>1. handler' = h /\ code' = code /\ mode' = mode
    BY <1>7 DEF Continue
  <2>2. PartsLeft'
    BY <1>3, <1>4, <1>5, <2>1, NothingToKeep
  <2> QED
    BY <1>1, <1>7, <2>2, ContinueWhole
<1> QED
  BY <1>2, <1>6, <1>7

\* A byte of a body with a length.
LEMMA ByteWhole ==
  ASSUME TypeOK, TypeOK', Running, PartsLeft, ReadByte
  PROVE  WholeInv'
<1> DEFINE h == [handler EXCEPT !.read = @ + 1]
           content == Append(payload, Head(inbox))
<1>1. /\ pc = "body" /\ Arrived /\ UNCHANGED <<shape, split>>
      /\ IF h.read = h.length THEN Finish(h, code, Tail(inbox), content)
                              ELSE Continue(h, code, Tail(inbox), content)
  BY DEF ReadByte, requestVars
<1>2. /\ h.started = handler.started /\ h.inHeader = handler.inHeader
      /\ h.read = handler.read + 1 /\ h.length = handler.length
      /\ h.chunked = handler.chunked
  BY DEF TypeOK, Handlers
<1>3. mode = "rtdb" /\ ~split => handler.started /\ code # 204
  BY <1>1 DEF PartsLeft, AnswerLeft
<1>4. ASSUME mode = "rtdb", ~split, code = 200
      PROVE  /\ BytesLeft /\ ~handler.inHeader
             /\ content \in Seq(Pieces) /\ Len(content) = handler.read + 1
             /\ \A n \in 1..Len(content) : content[n].kind = "body"
  <2>1. BytesLeft /\ ~handler.inHeader
    BY <1>1, <1>3, <1>4 DEF PartsLeft, HeaderLeft, ChunksLeft
  <2>2. /\ inbox \in Seq(Pieces) /\ payload \in Seq(Pieces) /\ Len(payload) \in Nat
        /\ Head(inbox) = inbox[1] /\ Head(inbox) \in Pieces
    BY <1>1, LenProperties, HeadTailProperties DEF TypeOK, Arrived
  <2>3. 1 \in 1..Len(inbox) /\ Len(inbox) \in Nat
    BY <1>1, EmptySeq, LenProperties DEF TypeOK, Arrived
  <2>4. Head(inbox).kind = "body"
    <3>1. Unread[1] = inbox[1] /\ 1 \in 1..Len(Unread)
      BY <2>3, UnreadFacts
    <3> QED
      BY <2>1, <2>2, <3>1 DEF BytesLeft
  <2>5. /\ content \in Seq(Pieces) /\ Len(content) = Len(payload) + 1
        /\ \A n \in 1..Len(payload) : content[n] = payload[n]
        /\ content[Len(payload) + 1] = Head(inbox)
    BY <2>2, AppendProperties
  <2>6. ASSUME NEW n \in 1..Len(content) PROVE content[n].kind = "body"
    <3>1. n \in 1..Len(payload) \/ n = Len(payload) + 1
      BY <2>2, <2>5
    <3> HIDE DEF content
    <3> QED
      BY <2>1, <2>4, <2>5, <3>1 DEF BytesLeft
  <2> QED
    BY <2>1, <2>5, <2>6 DEF BytesLeft
<1> HIDE DEF h, content
<1>5. CASE h.read = h.length
  <2>1. ASSUME mode = "rtdb", ~split, code \in {200, 204}
        PROVE  KindSeq(content) = Content(shape)
    <3>1. code = 200
      BY <1>3, <2>1
    <3>2. /\ shape = "length" /\ handler.length = 2 /\ content \in Seq(Pieces)
          /\ Len(content) = 2 /\ \A n \in 1..2 : content[n].kind = "body"
      <4>1. /\ BytesLeft /\ content \in Seq(Pieces) /\ Len(content) = handler.read + 1
            /\ \A n \in 1..Len(content) : content[n].kind = "body"
        BY <1>4, <2>1, <3>1
      <4>2. Len(content) = 2
        BY <1>2, <1>5, <4>1 DEF BytesLeft
      <4> QED
        BY <4>1, <4>2 DEF BytesLeft
    <3>3. KindSeq(content) = <<"body", "body">>
      BY <3>2 DEF KindSeq
    <3> QED
      BY <3>2, <3>3 DEF Content
  <2> QED
    BY <1>1, <1>5, <2>1, FinishWhole
<1>6. CASE h.read # h.length
  <2>1. Continue(h, code, Tail(inbox), content)
    BY <1>1, <1>6
  <2>2. /\ handler' = h /\ code' = code /\ payload' = content /\ inbox' = Tail(inbox)
        /\ wire' = wire /\ mode' = mode
    BY <2>1 DEF Continue
  <2>3. PartsLeft'
    <3> SUFFICES ASSUME mode = "rtdb", ~split, code \in {200, 204} PROVE PartsLeft'
      BY <1>1, <1>2, <1>3, <2>2, NothingToKeep DEF PartsLeft
    <3>1. code = 200
      BY <1>3
    <3>2. /\ BytesLeft /\ ~handler.inHeader /\ Len(content) = handler.read + 1
          /\ \A n \in 1..Len(content) : content[n].kind = "body"
      BY <1>4, <3>1
    <3>3. Took(1) /\ 1 \in 1..Len(inbox)
      BY <1>1, <2>2, TookTail
    <3>4. \A n \in 1..Len(Unread') : Unread'[n].kind = "body"
      <4>1. \A n \in 1..Len(Unread') : n + 1 \in 1..Len(Unread) /\ Unread'[n] = Unread[n + 1]
        BY <3>3 DEF Took
      <4> QED
        BY <3>2, <4>1 DEF BytesLeft
    <3>5. h.read < 2
      <4>1. handler.read < 2 /\ handler.read \in Nat /\ handler.length = 2
        BY <3>2 DEF BytesLeft, TypeOK, Handlers
      <4> QED
        BY <1>2, <1>6, <4>1
    <3>6. BytesLeft'
      BY <1>1, <1>2, <2>2, <3>2, <3>4, <3>5 DEF BytesLeft
    <3> QED
      BY <1>2, <1>3, <2>2, <3>1, <3>2, <3>6 DEF PartsLeft
  <2> QED
    BY <1>1, <2>1, <2>3, ContinueWhole
<1> QED
  BY <1>5, <1>6

\* The ends of the loops that find nothing more.
LEMMA EndWhole ==
  ASSUME TypeOK, TypeOK', Running, PartsLeft, ChunkMissing \/ NothingMore \/ TokenTimeout
  PROVE  WholeInv'
<1>1. pc = "read" /\ Finish(handler, code, <<>>, payload) /\ UNCHANGED <<shape, split>>
  BY DEF ChunkMissing, NothingMore, TokenTimeout, InChunks, InPayload, requestVars
<1>2. ASSUME mode = "rtdb", ~split, code \in {200, 204}
      PROVE  KindSeq(payload) = Content(shape)
  <2>1. ~Arrived /\ (ChunkMissing \/ NothingMore)
    BY <1>2 DEF ChunkMissing, NothingMore, TokenTimeout
  <2>2. handler.started
    BY <1>1, <1>2 DEF PartsLeft, AnswerLeft
  <2>3. ~HeaderLeft /\ ~ChunksLeft
    BY <2>1, LineIsLeft
  <2>4. CASE code = 204
    <3>1. shape = "empty" /\ payload = <<>>
      BY <1>1, <1>2, <2>2, <2>4 DEF PartsLeft
    <3> QED
      BY <3>1 DEF KindSeq, Content
  <2>5. CASE code = 200
    <3>1. BytesLeft
      BY <1>1, <1>2, <2>2, <2>3, <2>5 DEF PartsLeft
    <3>2. Incomplete /\ ~handler.chunked
      BY <3>1 DEF BytesLeft, Incomplete
    <3> QED
      BY <2>1, <3>2 DEF ChunkMissing, NothingMore, InChunks
  <2> QED
    BY <1>2, <2>4, <2>5
<1> QED
  BY <1>1, <1>2, FinishWhole

LEMMA TwoKinds == ASSUME NEW c \in Kinds, NEW e \in Kinds PROVE <<c>> \o <<e>> = <<c, e>>
<1> DEFINE p == <<c>>
           q == <<e>>
           z == <<c, e>>
<1>1. /\ p \in Seq(Kinds) /\ Len(p) = 1 /\ p[1] = c
      /\ q \in Seq(Kinds) /\ Len(q) = 1 /\ q[1] = e
      /\ z \in Seq(Kinds) /\ Len(z) = 2 /\ z[1] = c /\ z[2] = e
  OBVIOUS
<1> HIDE DEF p, q, z
<1>2. /\ p \o q \in Seq(Kinds) /\ Len(p \o q) = Len(p) + Len(q)
      /\ \A n \in 1..(Len(p) + Len(q)) : (p \o q)[n] = IF n <= Len(p) THEN p[n] ELSE q[n - Len(p)]
  BY <1>1, ConcatProperties
<1>3. Len(p \o q) = 2 /\ (p \o q)[1] = c /\ (p \o q)[2] = e
  BY <1>1, <1>2
<1>4. p \o q = z
  BY <1>1, <1>2, <1>3, SeqEqual
<1> QED
  BY <1>4 DEF p, q, z

\* A size, and the end of the chunks.
LEMMA SizeLineKinds ==
  ASSUME TypeOK
  PROVE  /\ \A x \in SizeLine, r \in Seq(Kinds) :
              Left(x \o r) => KindsOf(Line) \cap {"size", "size+"} # {}
         /\ Left(LastChunk) => KindsOf(Line) \cap {"size", "size+"} = {}
<1>1. ASSUME NEW x \in SizeLine, NEW r \in Seq(Kinds), Left(x \o r)
      PROVE  KindsOf(Line) \cap {"size", "size+"} # {}
  <2>1. KindsOf(Line) = {x[n] : n \in 1..Len(x)}
    BY <1>1, LineShows, PartsAreLines
  <2>2. x = <<"size">> \/ x = <<"half", "size+">>
    BY DEF SizeLine, Whole, Cut
  <2>3. x = <<"size">> => 1 \in 1..Len(x) /\ x[1] = "size"
    OBVIOUS
  <2>4. x = <<"half", "size+">> => 2 \in 1..Len(x) /\ x[2] = "size+"
    OBVIOUS
  <2> QED
    BY <2>1, <2>2, <2>3, <2>4
<1>2. ASSUME Left(LastChunk) PROVE KindsOf(Line) \cap {"size", "size+"} = {}
  <2> DEFINE l == <<"last">>
             r == <<"crlf">>
  <2>1. IsLine(l) /\ r \in Seq(Kinds)
    BY PartsAreLines, PartsAreKinds
  <2>2. Left(l \o r)
    <3>1. LastChunk = l \o r
      BY DEF LastChunk
    <3> QED
      BY <1>2, <3>1, Zenon
  <2>3. \A n \in 1..Len(l) : l[n] = "last"
    OBVIOUS
  <2> HIDE DEF l, r
  <2>4. KindsOf(Line) = {l[n] : n \in 1..Len(l)}
    BY <2>1, <2>2, LineShows
  <2> QED
    BY <2>3, <2>4
<1> QED
  BY <1>1, <1>2

\* The line of a chunk is its byte and the end of the line.
LEMMA ChunkLineKinds ==
  ASSUME TypeOK, NEW r \in Seq(Kinds), Left(DataLine \o r)
  PROVE  /\ Last(Line).kind = "crlf" /\ Front(Line) \in Seq(Pieces)
         /\ KindSeq(Front(Line)) = <<"data">>
<1>1. IsLine(DataLine) /\ Len(DataLine) = 2 /\ DataLine[1] = "data" /\ DataLine[2] = "crlf"
  BY PartsAreLines DEF DataLine
<1>2. /\ Line \in Seq(Pieces) /\ Len(Line) = 2 /\ Line[1].kind = "data" /\ Line[2].kind = "crlf"
  BY <1>1, LineShows
<1>3. /\ Front(Line) \in Seq(Pieces) /\ Len(Front(Line)) = 1 /\ Front(Line)[1] = Line[1]
  <2>1. Len(Line) \in Nat \ {0} /\ Len(Line) - 1 = 1 /\ 1 \in 1..(Len(Line) - 1)
    BY <1>2
  <2> QED
    BY <1>2, <2>1, FrontFacts
<1>4. KindSeq(Front(Line)) = <<"data">>
  BY <1>2, <1>3 DEF KindSeq
<1> QED
  BY <1>2, <1>3, <1>4 DEF Last

\* What is left of the chunks are kinds.
LEMMA ChunkRests ==
  ASSUME NEW y \in SizeLine
  PROVE  /\ DataLine \o LastChunk \in Seq(Kinds) /\ LastChunk \in Seq(Kinds)
         /\ y \o (DataLine \o LastChunk) \in Seq(Kinds)
         /\ DataLine \o (y \o (DataLine \o LastChunk)) \in Seq(Kinds)
<1>1. <<"crlf">> \in BlankLine /\ <<"body", "body">> \in Body("length")
  BY DEF BlankLine, Whole, Cut, Body
<1> QED
  BY <1>1, RestsAreKinds, PartsAreKinds

\* The size of a chunk.
LEMMA SizeWhole ==
  ASSUME TypeOK, TypeOK', Running, PartsLeft, ReadSize
  PROVE  WholeInv'
<1> DEFINE kinds == KindsOf(Line)
           h == [handler EXCEPT !.inChunk = TRUE, !.got = 0]
<1>1. /\ pc = "read" /\ handler.started /\ ~handler.inHeader /\ code # 204 /\ handler.chunked
      /\ ~handler.inChunk /\ Arrived /\ UNCHANGED <<shape, split>>
  BY DEF ReadSize, InChunks, InPayload, requestVars
<1>2. ASSUME mode = "rtdb", ~split, code \in {200, 204} PROVE code = 200 /\ ChunksLeft
  <2>1. BytesLeft \/ ChunksLeft
    BY <1>1, <1>2 DEF PartsLeft
  <2> QED
    BY <1>1, <1>2, <2>1 DEF BytesLeft
<1>3. CASE kinds \cap {"size", "size+"} # {}
  <2>1. Continue(h, code, Rest, payload)
    BY <1>3 DEF ReadSize
  <2>2. /\ handler' = h /\ code' = code /\ payload' = payload /\ inbox' = Rest
        /\ wire' = wire /\ mode' = mode /\ pc' = pc
    BY <2>1 DEF Continue
  <2>3. /\ h.started /\ ~h.inHeader /\ h.chunked /\ h.length = handler.length
        /\ h.inChunk /\ h.got = 0
    BY <1>1 DEF TypeOK, Handlers
  <2> HIDE DEF h
  <2>4. PartsLeft'
    <3> SUFFICES ASSUME mode = "rtdb", ~split, code \in {200, 204} PROVE PartsLeft'
      BY <1>1, <2>2, <2>3, NothingToKeep
    <3>1. code = 200 /\ ChunksLeft
      BY <1>2
    <3>2. \/ \E x, y \in SizeLine :
               KindSeq(payload) = <<>> /\ Left(x \o (DataLine \o (y \o (DataLine \o LastChunk))))
          \/ \E y \in SizeLine : KindSeq(payload) = <<"data">> /\ Left(y \o (DataLine \o LastChunk))
          \/ Left(LastChunk)
      BY <1>1, <3>1 DEF ChunksLeft, ChunkPhase
    <3>3. ~Left(LastChunk)
      BY <1>3, SizeLineKinds
    <3>4. ASSUME NEW x \in SizeLine, NEW r \in Seq(Kinds), Left(x \o r) PROVE Left(r)'
      BY <2>2, <3>4, PartsAreLines, LineRead
    <3>5. KindSeq(payload)' = KindSeq(payload) /\ handler'.inChunk = TRUE
      BY <2>2, <2>3 DEF KindSeq, TypeOK, Handlers
    <3>6. \/ \E y \in SizeLine :
               ChunkPhase(<<>>, TRUE, DataLine \o (y \o (DataLine \o LastChunk)))'
          \/ ChunkPhase(<<"data">>, TRUE, DataLine \o LastChunk)'
      <4>1. CASE \E x, y \in SizeLine :
                   KindSeq(payload) = <<>> /\ Left(x \o (DataLine \o (y \o (DataLine \o LastChunk))))
        <5>1. PICK x \in SizeLine, y \in SizeLine :
                 KindSeq(payload) = <<>> /\ Left(x \o (DataLine \o (y \o (DataLine \o LastChunk))))
          BY <4>1, Zenon
        <5>2. Left(DataLine \o (y \o (DataLine \o LastChunk)))'
          BY <3>4, <5>1, ChunkRests
        <5>3. ChunkPhase(<<>>, TRUE, DataLine \o (y \o (DataLine \o LastChunk)))'
          BY <3>5, <5>1, <5>2 DEF ChunkPhase
        <5> QED
          BY <5>3
      <4>2. CASE \E y \in SizeLine :
                   KindSeq(payload) = <<"data">> /\ Left(y \o (DataLine \o LastChunk))
        <5>1. PICK y \in SizeLine :
                 KindSeq(payload) = <<"data">> /\ Left(y \o (DataLine \o LastChunk))
          BY <4>2
        <5>2. Left(DataLine \o LastChunk)'
          BY <3>4, <5>1, ChunkRests
        <5> QED
          BY <3>5, <5>1, <5>2 DEF ChunkPhase
      <4> QED
        BY <3>2, <3>3, <4>1, <4>2, Zenon
    <3>7. ChunksLeft'
      <4>1. /\ shape' = "chunked" /\ pc' = "read" /\ handler'.chunked /\ handler'.length = 0
        BY <1>1, <2>2, <2>3, <3>1 DEF ChunksLeft
      <4>2. handler'.inChunk => handler'.got = 0
        BY <2>2, <2>3
      <4> QED
        BY <3>6, <4>1, <4>2, Zenon DEF ChunksLeft
    <3> QED
      BY <2>2, <2>3, <3>1, <3>7 DEF PartsLeft
  <2> QED
    BY <1>1, <2>1, <2>4, ContinueWhole
<1>4. CASE kinds \cap {"size", "size+"} = {}
  <2>1. Finish(handler, code, <<>>, payload)
    BY <1>4 DEF ReadSize
  <2>2. ASSUME mode = "rtdb", ~split, code \in {200, 204}
        PROVE  KindSeq(payload) = Content(shape)
    <3>1. ChunksLeft
      BY <1>2, <2>2
    <3>2. \/ \E x, y \in SizeLine : Left(x \o (DataLine \o (y \o (DataLine \o LastChunk))))
          \/ \E y \in SizeLine : Left(y \o (DataLine \o LastChunk))
          \/ KindSeq(payload) = <<"data", "data">>
      BY <1>1, <3>1 DEF ChunksLeft, ChunkPhase
    <3>3. ~\E x, y \in SizeLine : Left(x \o (DataLine \o (y \o (DataLine \o LastChunk))))
      BY <1>4, SizeLineKinds, ChunkRests
    <3>4. ~\E y \in SizeLine : Left(y \o (DataLine \o LastChunk))
      BY <1>4, SizeLineKinds, ChunkRests
    <3>5. shape = "chunked"
      BY <3>1 DEF ChunksLeft
    <3> QED
      BY <3>2, <3>3, <3>4, <3>5, Zenon DEF Content
  <2> QED
    BY <1>1, <2>1, <2>2, FinishWhole
<1> QED
  BY <1>3, <1>4

\* A chunk.
LEMMA ChunkWhole ==
  ASSUME TypeOK, TypeOK', Running, PartsLeft, ReadChunk
  PROVE  WholeInv'
<1> DEFINE ended == Last(Line).kind = "crlf"
           bytes == IF ended THEN Front(Line) ELSE Line
           content == payload \o bytes
           h == [handler EXCEPT !.inChunk = ~ended, !.got = @ + Len(bytes),
                                !.read = @ + Len(Line)]
<1>1. /\ pc = "read" /\ handler.started /\ ~handler.inHeader /\ code # 204 /\ handler.chunked
      /\ handler.inChunk /\ Arrived /\ Continue(h, code, Rest, content)
      /\ UNCHANGED <<shape, split>>
  BY DEF ReadChunk, InChunks, InPayload, requestVars
<1>2. /\ handler' = h /\ code' = code /\ payload' = content /\ inbox' = Rest
      /\ wire' = wire /\ mode' = mode /\ pc' = pc
  BY <1>1 DEF Continue
<1>3. /\ h.started = handler.started /\ h.inHeader = handler.inHeader
      /\ h.chunked = handler.chunked /\ h.length = handler.length /\ h.inChunk = ~ended
  BY DEF TypeOK, Handlers
<1>4. ASSUME ended PROVE bytes = Front(Line) /\ ~h.inChunk
  <2>1. bytes = Front(Line)
    BY <1>4, Zenon
  <2>2. h.inChunk = ~ended
    BY <1>3
  <2> HIDE DEF ended, h, bytes
  <2> QED
    BY <1>4, <2>1, <2>2
<1> HIDE DEF h, content, bytes
<1>5. PartsLeft'
  <2> SUFFICES ASSUME mode = "rtdb", ~split, code \in {200, 204} PROVE PartsLeft'
    BY <1>1, <1>2, <1>3, NothingToKeep
  <2>1. code = 200 /\ ChunksLeft
    <3>1. BytesLeft \/ ChunksLeft
      BY <1>1 DEF PartsLeft
    <3> QED
      BY <1>1, <3>1 DEF BytesLeft
  <2>2. \/ \E y \in SizeLine :
             KindSeq(payload) = <<>> /\ Left(DataLine \o (y \o (DataLine \o LastChunk)))
        \/ KindSeq(payload) = <<"data">> /\ Left(DataLine \o LastChunk)
    BY <1>1, <2>1 DEF ChunksLeft, ChunkPhase
  <2>3. ASSUME NEW r \in Seq(Kinds), Left(DataLine \o r) PROVE Left(r)'
    BY <1>2, <2>3, PartsAreLines, LineRead
  <2>4. ASSUME NEW r \in Seq(Kinds), Left(DataLine \o r)
        PROVE  handler'.inChunk = FALSE /\ KindSeq(payload)' = KindSeq(payload) \o <<"data">>
    <3>1. ended /\ Front(Line) \in Seq(Pieces) /\ KindSeq(Front(Line)) = <<"data">>
      BY <2>4, ChunkLineKinds
    <3> HIDE DEF ended
    <3>2. content = payload \o Front(Line) /\ ~h.inChunk
      BY <1>4, <3>1 DEF content
    <3>3. payload \in Seq(Pieces) /\ handler' \in Handlers
      BY DEF TypeOK
    <3>4. KindSeq(content) = KindSeq(payload) \o <<"data">>
      BY <3>1, <3>2, <3>3, KindSeqConcat
    <3>5. handler'.inChunk = FALSE
      BY <1>2, <3>2, <3>3 DEF Handlers
    <3>6. KindSeq(payload)' = KindSeq(content)
      BY <1>2 DEF KindSeq
    <3> QED
      BY <3>4, <3>5, <3>6
  <2>5. \/ \E y \in SizeLine : ChunkPhase(<<"data">>, FALSE, y \o (DataLine \o LastChunk))'
        \/ ChunkPhase(<<"data", "data">>, FALSE, LastChunk)'
    <3>1. CASE \E y \in SizeLine :
                 KindSeq(payload) = <<>> /\ Left(DataLine \o (y \o (DataLine \o LastChunk)))
      <4>1. PICK y \in SizeLine :
               KindSeq(payload) = <<>> /\ Left(DataLine \o (y \o (DataLine \o LastChunk)))
        BY <3>1
      <4>2. y \o (DataLine \o LastChunk) \in Seq(Kinds)
        BY ChunkRests
      <4>3. Left(y \o (DataLine \o LastChunk))'
        BY <2>3, <4>1, <4>2
      <4>4. handler'.inChunk = FALSE /\ KindSeq(payload)' = KindSeq(payload) \o <<"data">>
        BY <2>4, <4>1, <4>2
      <4>5. KindSeq(payload) \o <<"data">> = <<"data">>
        BY <4>1
      <4>6. ChunkPhase(<<"data">>, FALSE, y \o (DataLine \o LastChunk))'
        BY <4>3, <4>4, <4>5 DEF ChunkPhase
      <4> QED
        BY <4>6
    <3>2. CASE KindSeq(payload) = <<"data">> /\ Left(DataLine \o LastChunk)
      <4>1. LastChunk \in Seq(Kinds)
        BY PartsAreKinds
      <4>2. Left(LastChunk)'
        BY <2>3, <3>2, <4>1
      <4>3. handler'.inChunk = FALSE /\ KindSeq(payload)' = KindSeq(payload) \o <<"data">>
        BY <2>4, <3>2, <4>1
      <4>4. KindSeq(payload) \o <<"data">> = <<"data", "data">>
        BY <3>2, TwoKinds DEF Kinds, Bytes
      <4> QED
        BY <4>2, <4>3, <4>4 DEF ChunkPhase
    <3> QED
      BY <2>2, <3>1, <3>2
  <2>6. ~handler'.inChunk
    BY <2>5 DEF ChunkPhase
  <2>7. ChunksLeft'
    <3>1. /\ shape' = "chunked" /\ pc' = "read" /\ handler'.chunked /\ handler'.length = 0
      BY <1>1, <1>2, <1>3, <2>1 DEF ChunksLeft
    <3> QED
      BY <2>5, <2>6, <3>1, Zenon DEF ChunksLeft
  <2> QED
    BY <1>1, <1>2, <1>3, <2>1, <2>7 DEF PartsLeft
<1> QED
  BY <1>1, <1>5, ContinueWhole

LEMMA WholeNext ==
  ASSUME TypeOK, TypeOK', NeverMoved, OwnInv, WholeInv, [Next]_vars
  PROVE  WholeInv'
<1>1. Running /\ PartsLeft /\ WholeBody /\ LeftBehind
  BY DEF OwnInv, WholeInv
<1>2. ASSUME NEW r \in Readers, NEW s \in Shapes, Send(r, s) PROVE WholeInv'
  BY <1>1, <1>2, SendWhole
<1>3. ASSUME NEW s \in Shapes, SendAsync(s) PROVE WholeInv'
  <2>1. ~ok' /\ pc' = "idle"
    BY <1>3 DEF SendAsync, Start
  <2> QED
    BY <2>1, NotDone, NothingToKeep DEF WholeInv
<1>4. ASSUME ReadStatus PROVE WholeInv'
  <2>1. CASE mode = "rtdb" /\ ~split
    BY <1>1, <1>4, <2>1, StatusWhole
  <2>2. CASE ~(mode = "rtdb" /\ ~split)
    <3>1. ~ok' /\ mode' = mode /\ split' = split
      BY <1>1, <1>4 DEF ReadStatus, Continue, Running
    <3> QED
      BY <2>2, <3>1, NotDone, NothingToKeep DEF WholeInv
  <2> QED
    BY <2>1, <2>2
<1>5. ASSUME WaitEnds \/ BeginBody PROVE WholeInv'
  BY <1>1, <1>5, WaitWhole
<1>6. ASSUME ReadHeaderLine PROVE WholeInv'
  BY <1>1, <1>6, HeaderWhole
<1>7. ASSUME ReadBlankLine PROVE WholeInv'
  BY <1>1, <1>7, BlankWhole
<1>8. ASSUME Redirect \/ RedirectTooOften PROVE WholeInv'
  BY <1>8 DEF Redirect, RedirectTooOften, NeverMoved
<1>9. ASSUME ReadLinePayload PROVE WholeInv'
  BY <1>1, <1>9, LinePayloadWhole
<1>10. ASSUME ReadByte PROVE WholeInv'
  BY <1>1, <1>10, ByteWhole
<1>11. ASSUME ReadSize PROVE WholeInv'
  BY <1>1, <1>11, SizeWhole
<1>12. ASSUME ReadChunk PROVE WholeInv'
  BY <1>1, <1>12, ChunkWhole
<1>13. ASSUME ChunkMissing \/ NothingMore \/ TokenTimeout PROVE WholeInv'
  BY <1>1, <1>13, EndWhole
<1>14. ASSUME LoopFails \/ WaitTimeout PROVE WholeInv'
  <2>1. ~ok' /\ pc' = "idle"
    BY <1>1, <1>14 DEF LoopFails, WaitTimeout, Fail, Running
  <2> QED
    BY <2>1, NotDone, NothingToKeep DEF WholeInv
<1>15. ASSUME PayloadTimeout PROVE WholeInv'
  <2>1. pc' = "idle" /\ mode' = mode /\ (ok' => mode = "fcm")
    BY <1>15 DEF PayloadTimeout
  <2>2. WholeBody'
    BY <2>1 DEF WholeBody, WholeAnswer
  <2> QED
    BY <2>1, <2>2, NothingToKeep DEF WholeInv
<1>16. ASSUME NEW n \in 1..Len(wire), Deliver(n) PROVE WholeInv'
  BY <1>1, <1>16, DeliverWhole
<1>17. ASSUME Disconnect PROVE WholeInv'
  BY <1>1, <1>17, DisconnectWhole
<1>18. ASSUME UNCHANGED vars PROVE WholeInv'
  <2>1. UNCHANGED <<wire, inbox, mode, request, shape, split, pc, handler, code, payload, ok>>
    BY <1>18 DEF vars, connVars, requestVars, readVars
  <2>2. WholeBody'
    BY <1>1, <2>1 DEF WholeBody, WholeAnswer
  <2>3. AnswerLeft => AnswerLeft'
    BY <2>1 DEF AnswerLeft, Behind, BodyOnly, InBody, KindSeq, Unread
  <2>4. KindSeq(payload)' = KindSeq(payload)
    BY <2>1 DEF KindSeq
  <2>5. ASSUME NEW r, Left(r) PROVE Left(r)'
    BY <2>1, <2>5 DEF Left, BodyOnly, InBody, KindSeq, Unread
  <2>6. HeaderLeft => HeaderLeft'
    BY <2>1, <2>5, SMTT(30) DEF HeaderLeft
  <2>7. BytesLeft => BytesLeft'
    BY <2>1 DEF BytesLeft, Unread
  <2>8. ChunksLeft => ChunksLeft'
    BY <2>1, <2>4, <2>5, SMTT(30) DEF ChunksLeft, ChunkPhase
  <2>9. PartsLeft'
    BY <1>1, <2>1, <2>3, <2>6, <2>7, <2>8 DEF PartsLeft
  <2> QED
    BY <2>2, <2>9 DEF WholeInv
<1> QED
  BY <1>2, <1>3, <1>4, <1>5, <1>6, <1>7, <1>8, <1>9, <1>10, <1>11, <1>12, <1>13, <1>14, <1>15,
     <1>16, <1>17, <1>18 DEF Next, Read, Timeout

\* A call of FB_RTDB that returns TRUE has read the whole payload of its answer, if that
\* arrived at once up to its body, whatever other requests left on the connection, however
\* lines were cut and whenever the connection was lost (handleResponse, readPayload and
\* readChunkedData).  A redirection is left out: the answer to it is read with the handler
\* of the first one, its status line and header with it.
THEOREM WholeBodyIsRead ==
  ASSUME "moved" \notin Shapes PROVE Spec => []WholeBody
<1>1. Init => NeverMoved /\ WholeInv
  <2>1. Init => NeverMoved
    BY DEF Init, NeverMoved
  <2>2. Init => WholeInv
    BY DEF Init, WholeInv, PartsLeft, WholeBody, WholeAnswer
  <2> QED
    BY <2>1, <2>2
<1>2. TypeOK /\ TypeOK' /\ OwnInv /\ NeverMoved /\ WholeInv /\ [Next]_vars
        => NeverMoved' /\ WholeInv'
  BY NeverMovedNext, WholeNext
<1>3. WholeInv => WholeBody
  BY DEF WholeInv
<1> QED
  BY <1>1, <1>2, <1>3, HttpTypeCorrect, OwnInvariant, PTL DEF Spec

=============================================================================
