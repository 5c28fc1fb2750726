---------------------------- MODULE StreamSession ----------------------------
(***************************************************************************)
(* One FirebaseData object used as a stream: rtdb/FB_RTDB.cpp's            *)
(* mBeginStream, mRunStream, handleStreamRead, handleStreamRequest, the    *)
(* stream part of handleResponse and parsePayload, sendCB, endStream, and  *)
(* session/FB_Session.cpp's sendStreamToCB, streamTimeout, pauseFirebase.  *)
(*                                                                         *)
(* A pass of the runner (ESP8266's scheduler or the ESP32 stream task) is  *)
(* cut where the network is looked at; the sketch acts between two passes. *)
(* Data and timeout callbacks are set.  Each comparison with millis() is a *)
(* Boolean that is TRUE once the interval has elapsed.  The server sends   *)
(* the value at the stream's path when the stream is opened and after each *)
(* change; an event is a record, every put has the event path "/", and its *)
(* data is neither a blob nor a file (those always reach the callback).    *)
(* Of the data parsed last the code keeps a 16-bit CRC of its text, taken  *)
(* after the quotes of a string are off: Crc.  Two values may share one.   *)
(***************************************************************************)
EXTENDS Naturals, SequencesExt

CONSTANTS
    Values,    \* the values of the node that is watched
    Crc,       \* what calCRC() makes of the text of a value, or of another text
    Cases,     \* the rarer cases that can happen, of AllCases
    MaxWire,   \* bound on the events that are under way
    MaxFaults  \* bound on what the environment and the sketch do in all

\* "cut": the text received ends inside an event that follows a whole one;
\* "redirect": the server moves a stream when it is resumed; "root": the sketch
\* uses the object to read the path "/"; "callback": the data callback calls
\* endStream().
AllCases == {"cut", "redirect", "root", "callback"}

NoValue == "none"

ASSUME StreamAssumption ==
    /\ NoValue \notin Values /\ Values # {}
    /\ Crc \in [Values \cup {NoValue} -> Nat]
    /\ Cases \subseteq AllCases
    /\ MaxWire \in Nat /\ MaxFaults \in Nat

\* The other texts that are parsed with the stream's object (the body of an error,
\* the rest of a cut event, the answer to another request) have no CRC of a value.
ASSUME OthersDiffer == \A v \in Values : Crc[v] # Crc[NoValue]

VARIABLES
    \* session
    mode,        \* session.con_mode
    paused,      \* session.rtdb.pause
    stopped,     \* session.rtdb.stream_stop
    dataTmo,     \* session.rtdb.data_tmo
    refused,     \* session.response.code >= 400
    pathChanged, \* session.rtdb.stream_path_changed
    seen,        \* session.rtdb.path and data_crc, of what was parsed last
    \* the timers that have elapsed
    resumeDue,   \* rtdbStreamReconnect since stream_resume_millis
    aliveDue,    \* rtdbKeepAlive since data_millis
    tmoDue,      \* rtdbStreamError since stream_tmo_Millis
    passes,      \* passes since stream_tmo_Millis was set, up to 2
    \* the pass under way
    pc, caller,
    batch,       \* the events of the payload that is being parsed
    \* the connection and the world
    conn,        \* the connection, see TypeOK
    wire,        \* what the server has sent on it and nobody has read
    db,          \* the value at the stream's path
    delivered,   \* the value the data callback was given last
    netUp, token,
    faults       \* the number of disturbances so far

sessionVars == <<mode, paused, stopped>>
statusVars == <<dataTmo, refused, pathChanged, seen>>
timers == <<resumeDue, aliveDue, tmoDue, passes>>
passVars == <<pc, caller, batch>>
link == <<conn, wire>>
world == <<db, delivered, netUp, token, faults>>
vars == <<sessionVars, statusVars, timers, passVars, link, world>>

Put(v) == [kind |-> "put", val |-> v]
Alive == [kind |-> "keep-alive", val |-> NoValue]
Revoked == [kind |-> "auth_revoked", val |-> NoValue]
Error == [kind |-> "error", val |-> NoValue]  \* an answer with an HTTP error
Rest == [kind |-> "rest", val |-> NoValue]    \* what is left of a cut event

Events == {Put(v) : v \in Values} \cup {Alive, Revoked}
Unseen == [path |-> "none", crc |-> Crc[NoValue]]

\* The answer to a request is alone; what is left of a cut event comes first.
WireOK ==
    /\ wire \in Seq(Events \cup {Error, Rest})
    /\ \/ wire = <<Error>> /\ conn \in {"plain", "dead"}
       \/ wire # <<>> /\ Head(wire) = Rest /\ Tail(wire) \in Seq(Events)
       \/ wire \in Seq(Events)

SessionTypeOK ==
    /\ mode \in {"undefined", "rtdb", "stream"}
    /\ paused \in BOOLEAN /\ stopped \in BOOLEAN
    /\ refused \in BOOLEAN /\ pathChanged \in BOOLEAN
    /\ seen \in [path : {"none", "/", "other"}, crc : {Crc[v] : v \in Values \cup {NoValue}}]

TimerTypeOK ==
    /\ dataTmo \in BOOLEAN
    /\ resumeDue \in BOOLEAN /\ aliveDue \in BOOLEAN /\ tmoDue \in BOOLEAN
    /\ passes \in 0..2

PassTypeOK ==
    /\ pc \in {"idle", "open", "wait", "parse", "timeout"}
    /\ caller \in {"run", "begin"} /\ batch \in Seq(Events)

WorldTypeOK ==
    \* asked: requested, not answered; stream: answered, nothing parsed yet;
    \* live: events have been parsed; plain: an answer that is no stream;
    \* dead: nothing will come any more, and the client does not know.
    /\ conn \in {"closed", "asked", "stream", "live", "plain", "dead"}
    /\ db \in Values /\ delivered \in Values \cup {NoValue}
    /\ netUp \in BOOLEAN /\ token \in {"ready", "expired"}
    /\ faults \in 0..MaxFaults

TypeOK == SessionTypeOK /\ TimerTypeOK /\ PassTypeOK /\ WorldTypeOK /\ WireOK

Init ==
    /\ mode = "undefined" /\ paused = FALSE /\ stopped = TRUE
    /\ dataTmo = FALSE /\ refused = FALSE /\ pathChanged = FALSE /\ seen = Unseen
    /\ resumeDue \in BOOLEAN /\ aliveDue \in BOOLEAN /\ tmoDue = TRUE /\ passes = 0
    /\ pc = "idle" /\ caller = "run" /\ batch = <<>>
    /\ conn = "closed" /\ wire = <<>>
    /\ db \in Values /\ delivered = NoValue
    /\ netUp = TRUE /\ token = "ready" /\ faults = 0

-----------------------------------------------------------------------------
(* Helpers *)

Ready == netUp /\ token = "ready"

\* closeSession: a stream's timers start again and its timeout is forgotten.
Close ==
    /\ conn' = "closed" /\ wire' = <<>>
    /\ IF mode = "stream"
       THEN aliveDue' = FALSE /\ tmoDue' = FALSE /\ passes' = 0 /\ dataTmo' = FALSE
       ELSE UNCHANGED <<aliveDue, tmoDue, passes, dataTmo>>

\* sendStreamToCB with an error: data_millis is 0, which is long ago.
ReportTimeout == dataTmo' = TRUE /\ aliveDue' = TRUE /\ refused' = FALSE

\* The end of a pass: mRunStream asks streamTimeout(), mBeginStream returns.
EndPass == pc' = (IF caller = "run" THEN "timeout" ELSE "idle") /\ batch' = <<>>

-----------------------------------------------------------------------------
(* handleStreamRead: the decision to open the stream again *)

\* Mutant: a stream from which nothing comes any more is not opened again.
ReopenUnlessSilent == resumeDue /\ (dataTmo \/ refused \/ mode # "stream")

MustReopen == (resumeDue /\ (dataTmo \/ refused \/ mode # "stream")) \/ aliveDue

\* Data is late, or a timeout is still to be handled: sendStreamToCB.
Late == (resumeDue /\ dataTmo) \/ aliveDue

StartPass ==
    /\ pc = "idle" /\ Ready /\ caller' = "run"
    /\ UNCHANGED <<sessionVars, pathChanged, seen, batch, world>>

\* Nothing is read while the object is paused or its stream has ended.
RunIdle ==
    /\ StartPass /\ (paused \/ stopped)
    /\ pc' = "timeout"
    /\ UNCHANGED <<dataTmo, refused, timers, link>>

\* The stream is opened again.
RunReopen ==
    /\ StartPass /\ ~paused /\ ~stopped /\ MustReopen
    /\ pc' = "open"
    /\ resumeDue' = FALSE
    /\ refused' = (refused /\ ~Late)
    /\ IF mode = "stream"
       THEN Close
       ELSE /\ conn' = "closed" /\ wire' = <<>>
            /\ dataTmo' = (dataTmo \/ Late) /\ aliveDue' = Late
            /\ UNCHANGED <<tmoDue, passes>>

\* The stream is read as it is.
RunRead ==
    /\ StartPass /\ ~paused /\ ~stopped /\ ~MustReopen
    /\ pc' = "wait"
    /\ resumeDue' = FALSE /\ passes' = IF passes < 2 THEN passes + 1 ELSE 2
    /\ UNCHANGED <<dataTmo, refused, aliveDue, tmoDue, link>>

-----------------------------------------------------------------------------
(* handleStreamRequest and sendRequest *)

\* tokenReady() or preRequestCheck say no, the latter with a report.
OpenNotReady ==
    /\ pc = "open" /\ ~Ready
    /\ conn' = "closed" /\ wire' = <<>>
    /\ \/ caller = "run" /\ ReportTimeout /\ UNCHANGED <<tmoDue, passes>>
       \/ Close /\ refused' = FALSE
    /\ EndPass
    /\ UNCHANGED <<sessionVars, pathChanged, seen, resumeDue, caller, world>>

\* The connection is refused, or the request cannot be sent.
OpenFails ==
    /\ pc = "open" /\ Ready /\ mode' = "stream" /\ pathChanged' = FALSE
    /\ conn' = "closed" /\ wire' = <<>>
    /\ IF caller = "run" THEN ReportTimeout
                         ELSE dataTmo' = FALSE /\ refused' = FALSE /\ UNCHANGED aliveDue
    /\ EndPass
    /\ UNCHANGED <<paused, stopped, seen, resumeDue, tmoDue, passes, caller, world>>

\* Mutant: the stream is taken for a redirected one whenever it is opened.
OpenAsRedirected ==
    /\ pc = "open" /\ Ready /\ mode' = "stream" /\ pathChanged' = (mode = "stream")
    /\ conn' = "asked" /\ wire' = <<>>
    /\ dataTmo' = FALSE /\ refused' = FALSE /\ pc' = "wait"
    /\ seen' = IF caller = "begin" THEN [seen EXCEPT !.path = "none"] ELSE seen
    /\ UNCHANGED <<paused, stopped, timers, caller, batch, world>>

\* The request is sent; mBeginStream then clears the data status.
Open ==
    /\ pc = "open" /\ Ready /\ mode' = "stream" /\ pathChanged' = FALSE
    /\ conn' = "asked" /\ wire' = <<>>
    /\ dataTmo' = FALSE /\ refused' = FALSE /\ pc' = "wait"
    /\ seen' = IF caller = "begin" THEN [seen EXCEPT !.path = "none"] ELSE seen
    /\ UNCHANGED <<paused, stopped, timers, caller, batch, world>>

-----------------------------------------------------------------------------
(* waitResponse and handleResponse of a stream *)

\* Nothing is available, or nothing is to be read.
WaitNothing ==
    /\ pc = "wait" /\ (paused \/ (conn # "closed" /\ wire = <<>>))
    /\ refused' = (refused /\ paused)
    /\ EndPass
    /\ UNCHANGED <<sessionVars, dataTmo, pathChanged, seen, timers, caller, link, world>>

\* The connection is gone; or the network, while data is waiting.  Only a stream's
\* loss is reported.
WaitLost ==
    /\ pc = "wait" /\ ~paused
    /\ conn = "closed" \/ (wire # <<>> /\ ~netUp)
    /\ conn' = "closed" /\ wire' = <<>>
    /\ IF mode = "stream" THEN ReportTimeout
                          ELSE refused' = FALSE /\ UNCHANGED <<dataTmo, aliveDue>>
    /\ IF conn # "closed" /\ mode = "stream" THEN tmoDue' = FALSE /\ passes' = 0
                                             ELSE UNCHANGED <<tmoDue, passes>>
    /\ EndPass
    /\ UNCHANGED <<sessionVars, pathChanged, seen, resumeDue, caller, world>>

CanRead == pc = "wait" /\ ~paused /\ netUp /\ conn # "closed" /\ wire # <<>>

Fed == IF conn = "dead" THEN "dead" ELSE "live"

\* An HTTP error.  Each turn of the loop sets the code to OK: the error is kept
\* only if no payload follows its header.
ReadError ==
    /\ CanRead /\ wire = <<Error>>
    /\ wire' = <<>> /\ UNCHANGED conn
    /\ \/ refused' = TRUE /\ UNCHANGED seen
       \/ refused' = FALSE /\ seen' = [seen EXCEPT !.crc = Crc[NoValue]]
    /\ EndPass
    /\ UNCHANGED <<sessionVars, dataTmo, pathChanged, timers, caller, world>>

\* The rest of an event that was cut, alone: it is taken for an HTTP payload.
ReadRest ==
    /\ CanRead /\ wire = <<Rest>>
    /\ wire' = <<>> /\ UNCHANGED conn
    /\ refused' = FALSE /\ seen' = [seen EXCEPT !.crc = Crc[NoValue]]
    /\ EndPass
    /\ UNCHANGED <<sessionVars, dataTmo, pathChanged, timers, caller, world>>

\* Mutant: the parts of a payload are parsed whether or not they are whole.
ReadAllParts ==
    /\ CanRead /\ wire # <<Rest>> /\ wire # <<Error>>
    /\ batch' = wire
    /\ wire' = <<>> /\ conn' = Fed /\ refused' = FALSE /\ pc' = "parse"
    /\ UNCHANGED <<sessionVars, dataTmo, pathChanged, seen, timers, caller, world>>

\* All that is available is read into one payload, which is split into events.
ReadEvents ==
    /\ CanRead /\ wire # <<Rest>> /\ wire # <<Error>>
    /\ batch' = IF Head(wire) = Rest THEN Tail(wire) ELSE wire
    /\ wire' = <<>> /\ conn' = Fed /\ refused' = FALSE /\ pc' = "parse"
    /\ UNCHANGED <<sessionVars, dataTmo, pathChanged, seen, timers, caller, world>>

\* The text ends inside the first event: there is no valid JSON in it, and the
\* session is closed.
ReadCutFirst ==
    /\ CanRead /\ wire[1] \in Events
    /\ Close /\ refused' = FALSE
    /\ EndPass
    /\ UNCHANGED <<sessionVars, pathChanged, seen, resumeDue, caller, world>>

\* The text ends inside a later event.
ReadCut(k) ==
    /\ "cut" \in Cases /\ CanRead /\ wire[1] \in Events /\ k < Len(wire)
    /\ batch' = SubSeq(wire, 1, k)
    /\ wire' = <<Rest>> \o SubSeq(wire, k + 2, Len(wire))
    /\ conn' = Fed /\ refused' = FALSE /\ pc' = "parse"
    /\ UNCHANGED <<sessionVars, dataTmo, pathChanged, seen, timers, caller, world>>

\* handleRedirect: the request is sent to the new location, whose path differs.
Redirected ==
    /\ "redirect" \in Cases /\ pc = "wait" /\ ~paused /\ netUp /\ conn = "asked"
    /\ faults < MaxFaults /\ faults' = faults + 1
    /\ pathChanged' = TRUE /\ aliveDue' = FALSE /\ tmoDue' = FALSE /\ passes' = 0
    /\ dataTmo' = FALSE /\ refused' = FALSE
    /\ UNCHANGED <<sessionVars, seen, resumeDue, passVars, link, db, delivered, netUp,
                   token>>

-----------------------------------------------------------------------------
(* parsePayload: the events of one payload *)

\* handlePayload and parseStreamPayload: the event path is new, or the CRC of the data.
Changed(v) == seen.path # "/" \/ (seen.crc # Crc[v] /\ ~pathChanged)

\* Mutant: the callback is called once for a payload, with its last event.
ParsePutOnce ==
    /\ pc = "parse" /\ batch # <<>> /\ Head(batch).kind = "put"
    /\ LET v == Head(batch).val IN
       /\ delivered' = IF Changed(v) /\ ~stopped /\ Len(batch) = 1 THEN v ELSE delivered
       /\ seen' = [path |-> "/", crc |-> Crc[v]]
    /\ pathChanged' = FALSE /\ batch' = Tail(batch)
    /\ UNCHANGED <<sessionVars, dataTmo, refused, timers, pc, caller, link, db, netUp,
                   token, faults>>

ParsePut ==
    /\ pc = "parse" /\ batch # <<>> /\ Head(batch).kind = "put"
    /\ LET v == Head(batch).val IN
       /\ delivered' = IF Changed(v) /\ ~stopped THEN v ELSE delivered
       /\ seen' = [path |-> "/", crc |-> Crc[v]]
    /\ pathChanged' = FALSE /\ batch' = Tail(batch)
    /\ UNCHANGED <<sessionVars, dataTmo, refused, timers, pc, caller, link, db, netUp,
                   token, faults>>

\* A keep-alive event calls the timeout callback with sendStreamToCB(0).
ParseKeepAlive ==
    /\ pc = "parse" /\ batch # <<>> /\ Head(batch) = Alive
    /\ ReportTimeout /\ batch' = Tail(batch)
    /\ UNCHANGED <<sessionVars, pathChanged, seen, resumeDue, tmoDue, passes, pc, caller,
                   link, world>>

\* An auth_revoked event closes the session.
ParseRevoked ==
    /\ pc = "parse" /\ batch # <<>> /\ Head(batch) = Revoked
    /\ Close /\ batch' = Tail(batch)
    /\ UNCHANGED <<sessionVars, refused, pathChanged, seen, resumeDue, pc, caller, world>>

\* Mutant: the timeout state of before is kept when events have come.
ParseDoneKeepsTimeout ==
    /\ pc = "parse" /\ batch = <<>>
    /\ EndPass
    /\ UNCHANGED <<sessionVars, dataTmo, refused, pathChanged, seen, timers, caller, link,
                   world>>

\* The payload held valid events: the stream is alive.
ParseDone ==
    /\ pc = "parse" /\ batch = <<>>
    /\ dataTmo' = FALSE /\ aliveDue' = FALSE
    /\ EndPass
    /\ UNCHANGED <<sessionVars, refused, pathChanged, seen, resumeDue, tmoDue, passes,
                   caller, link, world>>

\* streamTimeout() at the end of a pass of mRunStream, which reports its TRUE.
StreamTimeout ==
    /\ pc = "timeout" /\ pc' = "idle"
    /\ IF stopped \/ token = "expired" \/ ~tmoDue
       THEN UNCHANGED <<dataTmo, refused, aliveDue, tmoDue, passes, link>>
       ELSE IF ~dataTmo
       THEN tmoDue' = FALSE /\ passes' = 0 /\ UNCHANGED <<dataTmo, refused, aliveDue, link>>
       ELSE /\ conn' = "closed" /\ wire' = <<>> /\ tmoDue' = FALSE /\ passes' = 0
            /\ IF mode = "stream"
               THEN dataTmo' = FALSE /\ aliveDue' = FALSE /\ UNCHANGED refused
               ELSE ReportTimeout
    /\ UNCHANGED <<sessionVars, pathChanged, seen, resumeDue, caller, batch, world>>

-----------------------------------------------------------------------------
(* The other calls of the sketch *)

Disturb == faults < MaxFaults /\ faults' = faults + 1

\* Between two passes.
Sketch == pc = "idle" /\ Disturb /\ UNCHANGED <<db, delivered, netUp, token>>

\* beginStream, up to its request.
BeginStream ==
    /\ Sketch
    /\ paused' = FALSE /\ stopped' = FALSE /\ UNCHANGED mode
    /\ conn' = "closed" /\ wire' = <<>> /\ dataTmo' = FALSE
    /\ IF mode = "stream" THEN aliveDue' = FALSE /\ tmoDue' = FALSE /\ passes' = 0
                          ELSE UNCHANGED <<aliveDue, tmoDue, passes>>
    /\ pc' = "open" /\ caller' = "begin"
    /\ UNCHANGED <<refused, pathChanged, seen, resumeDue, batch>>

\* endStream, from the loop or from the data callback.
EndStream ==
    /\ \/ pc = "idle"
       \/ "callback" \in Cases /\ pc = "parse"
    /\ ~stopped /\ Disturb
    /\ paused' = TRUE /\ stopped' = TRUE /\ mode' = "undefined"
    /\ conn' = "closed" /\ wire' = <<>>
    /\ dataTmo' = FALSE /\ refused' = FALSE /\ pathChanged' = FALSE
    /\ seen' = [seen EXCEPT !.path = "none"]
    /\ UNCHANGED <<timers, passVars, db, delivered, netUp, token>>

Pause ==
    /\ Sketch /\ ~paused /\ paused' = TRUE
    /\ Close
    /\ UNCHANGED <<mode, stopped, refused, pathChanged, seen, resumeDue, passVars>>

Unpause ==
    /\ Sketch /\ paused /\ paused' = FALSE
    /\ UNCHANGED <<mode, stopped, statusVars, timers, passVars, link>>

\* The object is used for another request, whose answer leaves its traces: at the
\* path "/" the value that is there.
OtherRequest(p) ==
    /\ Sketch /\ ~paused /\ Ready /\ (p = "/" => "root" \in Cases)
    /\ mode' = "rtdb" /\ resumeDue' = TRUE
    /\ conn' \in {"plain", "closed"} /\ wire' = <<>>
    /\ dataTmo' = FALSE /\ refused' \in BOOLEAN
    /\ IF mode = "stream" THEN aliveDue' = FALSE /\ tmoDue' = FALSE /\ passes' = 0
                          ELSE UNCHANGED <<aliveDue, tmoDue, passes>>
    /\ seen' = [path |-> p, crc |-> Crc[IF p = "/" THEN db ELSE NoValue]]
    /\ UNCHANGED <<paused, stopped, pathChanged, passVars>>

\* The same, with no token or no network: the session is closed.
OtherRequestFails ==
    /\ Sketch /\ ~paused /\ ~Ready
    /\ Close /\ refused' = FALSE
    /\ UNCHANGED <<sessionVars, pathChanged, seen, resumeDue, passVars>>

-----------------------------------------------------------------------------
(* Time, the server and the network *)

Elapse ==
    /\ \/ resumeDue' = TRUE /\ UNCHANGED <<aliveDue, tmoDue>>
       \* The server answers, and a live stream gets an event, be it a keep-alive,
       \* within the interval, which is longer than it takes to open a stream.
       \/ /\ pc # "open" /\ conn \in {"closed", "plain", "dead"} /\ aliveDue' = TRUE
          /\ UNCHANGED <<resumeDue, tmoDue>>
       \* The interval, 3 s or more, is longer than two passes that open nothing.
       \/ /\ (passes = 2 \/ pc = "open") /\ tmoDue' = TRUE
          /\ UNCHANGED <<resumeDue, aliveDue>>
    /\ UNCHANGED <<sessionVars, statusVars, passes, passVars, link, world>>

ServerSame == UNCHANGED <<sessionVars, statusVars, timers, passVars, delivered, netUp>>

\* The server answers the request for a stream with the value at its path.
Answer ==
    /\ conn = "asked" /\ netUp
    /\ IF token = "ready"
       THEN wire' = <<Put(db)>> /\ conn' = "stream"
       ELSE wire' = <<Error>> /\ conn' = "plain"
    /\ ServerSame /\ UNCHANGED <<db, token, faults>>

\* It refuses the request.
Refuse ==
    /\ conn = "asked" /\ netUp /\ Disturb
    /\ wire' = <<Error>> /\ conn' = "plain"
    /\ ServerSame /\ UNCHANGED <<db, token>>

Streaming == conn \in {"stream", "live"} /\ netUp /\ Len(wire) < MaxWire

\* Somebody changes the value.
Change(v) ==
    /\ v # db /\ Disturb /\ db' = v
    /\ \/ Streaming /\ wire' = Append(wire, Put(v))
       \/ conn \notin {"stream", "live"} /\ UNCHANGED wire
    /\ ServerSame /\ UNCHANGED <<conn, token>>

\* A keep-alive event.
KeepAlive ==
    /\ Streaming /\ Disturb /\ wire' = Append(wire, Alive)
    /\ ServerSame /\ UNCHANGED <<conn, db, token>>

\* The token expires; the server says so on the stream, or says nothing.
Expire ==
    /\ token = "ready" /\ Disturb /\ token' = "expired"
    /\ \/ Streaming /\ wire' = Append(wire, Revoked)
       \/ UNCHANGED wire
    /\ ServerSame /\ UNCHANGED <<conn, db>>

\* ready() gets a new token.
Renew ==
    /\ token = "expired" /\ netUp /\ token' = "ready"
    /\ ServerSame /\ UNCHANGED <<link, db, faults>>

\* The connection is closed by the server, or dies without a word.
Disconnect ==
    /\ conn # "closed" /\ Disturb
    /\ \/ conn' = "closed" /\ wire' = <<>>
       \/ conn' = "dead" /\ UNCHANGED wire
    /\ ServerSame /\ UNCHANGED <<db, token>>

\* The network goes down, and with it the stream; it comes back.
NetDown ==
    /\ netUp /\ Disturb /\ netUp' = FALSE
    /\ conn' = IF conn = "closed" THEN "closed" ELSE "dead"
    /\ UNCHANGED <<sessionVars, statusVars, timers, passVars, wire, db, delivered, token>>

NetUp ==
    /\ ~netUp /\ netUp' = TRUE
    /\ UNCHANGED <<sessionVars, statusVars, timers, passVars, link, db, delivered, token,
                   faults>>

Parse == ParsePut \/ ParseKeepAlive \/ ParseRevoked \/ ParseDone

Read == ReadError \/ ReadRest \/ ReadEvents \/ ReadCutFirst
        \/ (\E k \in 1..MaxWire : ReadCut(k))

Pass ==
    \/ RunIdle \/ RunReopen \/ RunRead
    \/ OpenNotReady \/ OpenFails \/ Open
    \/ WaitNothing \/ WaitLost \/ Redirected
    \/ Read \/ Parse \/ StreamTimeout

SketchCalls ==
    \/ BeginStream \/ EndStream \/ Pause \/ Unpause
    \/ (\E p \in {"/", "other"} : OtherRequest(p)) \/ OtherRequestFails

Environment ==
    \/ Elapse \/ Answer \/ Refuse \/ (\E v \in Values : Change(v)) \/ KeepAlive
    \/ Expire \/ Renew \/ Disconnect \/ NetDown \/ NetUp

Next == Pass \/ SketchCalls \/ Environment

Spec == Init /\ [][Next]_vars

\* The runner goes on; time passes; the server answers; the network and the token
\* come back; a request is not refused, nor the text of the answer cut, for ever.
Fairness ==
    /\ WF_vars(Pass) /\ WF_vars(Elapse /\ aliveDue') /\ WF_vars(Answer)
    /\ WF_vars(Renew) /\ WF_vars(NetUp)
    /\ SF_vars(Open) /\ SF_vars(ReadEvents)

-----------------------------------------------------------------------------
(* Properties *)

\* The CRC kept of what was parsed last is that of the value the callback was given,
\* so that leaving out an event with an equal CRC loses no other change
\* (parseStreamPayload).
SeenIsDelivered ==
    seen.path = "/" /\ seen.crc # Crc[NoValue] => seen.crc = Crc[delivered]

\* Every value that arrives reaches the data callback, unless its CRC is that of the
\* one the callback was given last: the callback is never behind by more than two
\* values of one CRC.  (README.md: "dataAvailablecallback will be called When data in
\* the defined path changed".)
ChangesDelivered ==
    [][pc = "parse" /\ batch # <<>> /\ batch' = Tail(batch) /\ Head(batch).kind = "put"
         => Crc[delivered'] = Crc[Head(batch).val]]_vars

\* A stream whose events arrive is not taken for a lost one (handleStreamRead
\* opens a stream again after an error, a timeout or another use of the object).
LiveIsKept == [][pc = "idle" /\ pc' = "open" /\ caller' = "run" => conn # "live"]_vars

\* A stream that was lost is resumed, and its callback catches up with the data, as
\* far as a CRC tells them apart (README.md: "The stream will be resumed or
\* reconnected automatically when calling readStream").
Converges == <>[](~paused /\ ~stopped) => <>[](Crc[delivered] = Crc[db])

\* The same for the values themselves, which does not hold: a string of digits that
\* becomes the number has the same text without its quotes, so the same CRC.
ConvergesToValue == <>[](~paused /\ ~stopped) => <>[](delivered = db)

\* A stream is resumed after whatever has happened to it, and then stays up.
Resumes == <>[](~paused /\ ~stopped) => <>[](conn = "live")

\* streamTimeout() answers TRUE for a stream that has timed out (FB_Session.h:
\* "Boolean type status indicates whether the stream was a timeout or not"): it
\* returns data_tmo.
TimeoutReported ==
    [][pc = "timeout" /\ tmoDue /\ dataTmo /\ ~stopped /\ token = "ready" /\ pc' = "idle"
         => dataTmo']_vars

=============================================================================
