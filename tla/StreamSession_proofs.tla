------------------------ MODULE StreamSession_proofs ------------------------
(***************************************************************************)
(* Proofs about StreamSession: the types and the shape of what is read;    *)
(* and, unless a stream is redirected, the root is read with the same      *)
(* object or the data callback ends the stream, that the CRC of the event  *)
(* parsed last is that of the one delivered last, so that no change that   *)
(* the CRC shows is lost; and that a stream whose events arrive is not     *)
(* opened again.                                                           *)
(***************************************************************************)
EXTENDS StreamSession, SequenceTheorems, TLAPS

\* What is an event and what is not.
LEMMA EventFacts ==
  /\ \A v \in Values : Put(v) \in Events
  /\ Alive \in Events /\ Revoked \in Events
  /\ Error \notin Events /\ Rest \notin Events /\ Error # Rest
  /\ \A e \in Events : e.kind = "put" => e.val \in Values
<1>1. /\ \A v \in Values : Put(v) \in Events
      /\ Alive \in Events /\ Revoked \in Events
  BY DEF Events
<1>2. Error \notin Events /\ Rest \notin Events /\ Error # Rest
  BY DEF Events, Put, Alive, Revoked, Error, Rest
<1>3. \A e \in Events : e.kind = "put" => e.val \in Values
  BY DEF Events, Put, Alive, Revoked
<1> QED
  BY <1>1, <1>2, <1>3

\* Taking the first event of a sequence of events.
LEMMA TailEvents ==
  ASSUME NEW s \in Seq(Events), s # <<>>
  PROVE  Head(s) \in Events /\ Tail(s) \in Seq(Events)
BY HeadTailProperties

\* A sequence all of whose elements are events.
LEMMA SeqOfEvents ==
  ASSUME NEW S, NEW s \in Seq(S), \A n \in 1..Len(s) : s[n] \in Events
  PROVE  s \in Seq(Events)
BY LenProperties, IsASeq

\* An event sent on a connection that carries a stream.
LEMMA WireAppend ==
  ASSUME WireOK, NEW e \in Events, conn \in {"stream", "live"}
  PROVE  /\ Append(wire, e) \in Seq(Events \cup {Error, Rest})
         /\ \/ /\ Append(wire, e) # <<>> /\ Head(Append(wire, e)) = Rest
               /\ Tail(Append(wire, e)) \in Seq(Events)
            \/ Append(wire, e) \in Seq(Events)
<1> DEFINE parts == Events \cup {Error, Rest}
<1>1. wire \in Seq(parts) /\ e \in parts
  BY DEF WireOK
<1>2. Append(wire, e) \in Seq(parts) /\ Append(wire, e) # <<>>
  BY <1>1, AppendProperties
<1>3. CASE wire # <<>> /\ Head(wire) = Rest /\ Tail(wire) \in Seq(Events)
  <2>1. Head(Append(wire, e)) = Rest /\ Tail(Append(wire, e)) = Append(Tail(wire), e)
    BY <1>1, <1>3, HeadTailAppend
  <2>2. Append(Tail(wire), e) \in Seq(Events)
    BY <1>3, AppendProperties
  <2> QED
    BY <2>1, <2>2, <1>2
<1>4. CASE wire \in Seq(Events)
  BY <1>2, <1>4, AppendProperties
<1> QED
  BY <1>3, <1>4 DEF WireOK

\* What is read when a later event is cut, and what stays.
LEMMA CutEvents ==
  ASSUME WireOK, wire # <<>>, wire[1] \in Events, NEW k \in Nat \ {0}, k < Len(wire)
  PROVE  /\ SubSeq(wire, 1, k) \in Seq(Events)
         /\ LET left == <<Rest>> \o SubSeq(wire, k + 2, Len(wire))
            IN  /\ left \in Seq(Events \cup {Error, Rest})
                /\ left # <<>> /\ Head(left) = Rest /\ Tail(left) \in Seq(Events)
<1> DEFINE parts == Events \cup {Error, Rest}
           rest == SubSeq(wire, k + 2, Len(wire))
           left == <<Rest>> \o rest
<1>1. wire \in Seq(Events)
  <2>1. Head(wire) = wire[1]
    BY DEF WireOK
  <2> QED
    BY <2>1, EventFacts DEF WireOK
<1>2. SubSeq(wire, 1, k) \in Seq(Events)
  <2>1. \A n \in 1..k : wire[n] \in Events
    BY <1>1
  <2> QED
    BY <2>1, SubSeqProperties
<1>3. rest \in Seq(Events)
  <2>1. \A n \in (k + 2)..Len(wire) : wire[n] \in Events
    BY <1>1
  <2> QED
    BY <2>1, <1>1, SubSeqProperties
<1> HIDE DEF rest
<1>4. <<Rest>> \in Seq(parts) /\ rest \in Seq(parts)
  BY <1>3
<1>5. left \in Seq(parts) /\ Len(left) = Len(rest) + 1 /\ left[1] = Rest
      /\ \A n \in 1..Len(rest) : left[n + 1] = rest[n]
  BY <1>4, ConcatProperties
<1>6. left # <<>> /\ Head(left) = Rest
  BY <1>5
<1>7. Tail(left) \in Seq(Events)
  <2>1. Tail(left) \in Seq(parts) /\ Len(Tail(left)) = Len(rest)
        /\ \A n \in 1..Len(rest) : Tail(left)[n] = rest[n]
    BY <1>5, <1>6, HeadTailProperties
  <2>2. \A n \in 1..Len(rest) : Tail(left)[n] \in Events
    BY <2>1, <1>3
  <2> QED
    BY <2>1, <2>2, SeqOfEvents
<1> QED
  BY <1>2, <1>5, <1>6, <1>7 DEF rest

\* Where the pass is.
ControlTypeOK ==
  pc \in {"idle", "open", "wait", "parse", "timeout"} /\ caller \in {"run", "begin"}

\* The initial states satisfy the types.
LEMMA TypeInit == Init => TypeOK
<1> SUFFICES ASSUME Init PROVE TypeOK
  OBVIOUS
<1>1. SessionTypeOK
  BY DEF Init, SessionTypeOK, Unseen
<1>2. TimerTypeOK
  <2>1. passes \in 0..2
    BY DEF Init
  <2> QED
    BY <2>1 DEF Init, TimerTypeOK
<1>3. PassTypeOK /\ WireOK
  BY EmptySeq DEF Init, PassTypeOK, WireOK
<1>4. WorldTypeOK
  BY StreamAssumption DEF Init, WorldTypeOK
<1> QED
  BY <1>1, <1>2, <1>3, <1>4 DEF TypeOK

\* Every step keeps the types of the session's variables.
LEMMA SessionStep == TypeOK /\ [Next]_vars => SessionTypeOK'
<1> SUFFICES ASSUME SessionTypeOK, WorldTypeOK, batch \in Seq(Events), [Next]_vars
             PROVE  SessionTypeOK'
  BY DEF TypeOK, PassTypeOK
<1> USE StreamAssumption DEF SessionTypeOK, WorldTypeOK,
        sessionVars, statusVars, timers, passVars, link, world
<1>1. CASE RunIdle
  BY <1>1 DEF RunIdle, StartPass
<1>2. CASE RunReopen
  BY <1>2 DEF RunReopen, StartPass, Close, Late
<1>3. CASE RunRead
  BY <1>3 DEF RunRead, StartPass
<1>4. CASE OpenNotReady
  BY <1>4 DEF OpenNotReady, Close, ReportTimeout, EndPass
<1>5. CASE OpenFails
  BY <1>5 DEF OpenFails, ReportTimeout, EndPass
<1>6. CASE Open
  BY <1>6 DEF Open
<1>7. CASE WaitNothing
  BY <1>7 DEF WaitNothing, EndPass
<1>8. CASE WaitLost
  BY <1>8 DEF WaitLost, ReportTimeout, EndPass
<1>9. CASE Redirected
  BY <1>9 DEF Redirected
<1>10. CASE ReadError
  BY <1>10 DEF ReadError, CanRead, EndPass
<1>11. CASE ReadRest
  BY <1>11 DEF ReadRest, CanRead, EndPass
<1>12. CASE ReadEvents
  BY <1>12 DEF ReadEvents, CanRead, Fed
<1>13. CASE ReadCutFirst
  BY <1>13 DEF ReadCutFirst, CanRead, Close, EndPass
<1>14. ASSUME NEW k \in 1..MaxWire, ReadCut(k) PROVE SessionTypeOK'
  BY <1>14 DEF ReadCut, CanRead, Fed
<1>15. CASE ParsePut
  BY <1>15, TailEvents, EventFacts DEF ParsePut
<1>16. CASE ParseKeepAlive
  BY <1>16 DEF ParseKeepAlive, ReportTimeout
<1>17. CASE ParseRevoked
  BY <1>17 DEF ParseRevoked, Close
<1>18. CASE ParseDone
  BY <1>18 DEF ParseDone, EndPass
<1>19. CASE StreamTimeout
  BY <1>19 DEF StreamTimeout, ReportTimeout
<1>20. CASE BeginStream
  BY <1>20 DEF BeginStream, Sketch, Disturb
<1>21. CASE EndStream
  BY <1>21 DEF EndStream, Disturb
<1>22. CASE Pause
  BY <1>22 DEF Pause, Sketch, Disturb, Close
<1>23. CASE Unpause
  BY <1>23 DEF Unpause, Sketch, Disturb
<1>24. ASSUME NEW p \in {"/", "other"}, OtherRequest(p) PROVE SessionTypeOK'
  BY <1>24 DEF OtherRequest, Sketch, Disturb, Ready
<1>25. CASE OtherRequestFails
  BY <1>25 DEF OtherRequestFails, Sketch, Disturb, Close
<1>26. CASE Elapse
  BY <1>26 DEF Elapse
<1>27. CASE Answer
  BY <1>27 DEF Answer, ServerSame
<1>28. CASE Refuse
  BY <1>28 DEF Refuse, ServerSame, Disturb
<1>29. ASSUME NEW v \in Values, Change(v) PROVE SessionTypeOK'
  BY <1>29 DEF Change, ServerSame, Streaming, Disturb
<1>30. CASE KeepAlive
  BY <1>30 DEF KeepAlive, ServerSame, Streaming, Disturb
<1>31. CASE Expire
  BY <1>31 DEF Expire, ServerSame, Streaming, Disturb
<1>32. CASE Renew
  BY <1>32 DEF Renew, ServerSame
<1>33. CASE Disconnect
  BY <1>33 DEF Disconnect, ServerSame, Disturb
<1>34. CASE NetDown
  BY <1>34 DEF NetDown, Disturb
<1>35. CASE NetUp
  BY <1>35 DEF NetUp
<1>36. CASE UNCHANGED vars
  BY <1>36 DEF vars
<1> QED
  BY <1>1, <1>2, <1>3, <1>4, <1>5, <1>6, <1>7, <1>8, <1>9, <1>10, <1>11,
     <1>12, <1>13, <1>14, <1>15, <1>16, <1>17, <1>18, <1>19, <1>20, <1>21,
     <1>22, <1>23, <1>24, <1>25, <1>26, <1>27, <1>28, <1>29, <1>30, <1>31,
     <1>32, <1>33, <1>34, <1>35, <1>36
     DEF Next, Pass, SketchCalls, Environment, Read, Parse

\* Every step keeps the types of the timers.
LEMMA TimerStep == TypeOK /\ [Next]_vars => TimerTypeOK'
<1> SUFFICES ASSUME TimerTypeOK, [Next]_vars PROVE TimerTypeOK'
  BY DEF TypeOK
<1> USE DEF TimerTypeOK, sessionVars, statusVars, timers, passVars, link, world
<1>1. CASE RunIdle
  BY <1>1 DEF RunIdle, StartPass
<1>2. CASE RunReopen
  <2>1. dataTmo' \in BOOLEAN /\ aliveDue' \in BOOLEAN
    BY <1>2 DEF RunReopen, StartPass, Close, Late
  <2>2. resumeDue' \in BOOLEAN /\ tmoDue' \in BOOLEAN
    BY <1>2 DEF RunReopen, StartPass, Close, Late
  <2>3. passes' \in 0..2
    BY <1>2 DEF RunReopen, StartPass, Close, Late
  <2> QED
    BY <2>1, <2>2, <2>3
<1>3. CASE RunRead
  <2>1. dataTmo' \in BOOLEAN /\ aliveDue' \in BOOLEAN
    BY <1>3 DEF RunRead, StartPass
  <2>2. resumeDue' \in BOOLEAN /\ tmoDue' \in BOOLEAN
    BY <1>3 DEF RunRead, StartPass
  <2>3. passes' \in 0..2
    BY <1>3 DEF RunRead, StartPass
  <2> QED
    BY <2>1, <2>2, <2>3
<1>4. CASE OpenNotReady
  <2>1. dataTmo' \in BOOLEAN /\ aliveDue' \in BOOLEAN
    BY <1>4 DEF OpenNotReady, Close, ReportTimeout, EndPass
  <2>2. resumeDue' \in BOOLEAN /\ tmoDue' \in BOOLEAN
    BY <1>4 DEF OpenNotReady, Close, ReportTimeout, EndPass
  <2>3. passes' \in 0..2
    BY <1>4 DEF OpenNotReady, Close, ReportTimeout, EndPass
  <2> QED
    BY <2>1, <2>2, <2>3
<1>5. CASE OpenFails
  BY <1>5 DEF OpenFails, ReportTimeout, EndPass
<1>6. CASE Open
  BY <1>6 DEF Open
<1>7. CASE WaitNothing
  BY <1>7 DEF WaitNothing, EndPass
<1>8. CASE WaitLost
  <2>1. dataTmo' \in BOOLEAN /\ aliveDue' \in BOOLEAN
    BY <1>8 DEF WaitLost, ReportTimeout, EndPass
  <2>2. resumeDue' \in BOOLEAN /\ tmoDue' \in BOOLEAN
    BY <1>8 DEF WaitLost, ReportTimeout, EndPass
  <2>3. passes' \in 0..2
    BY <1>8 DEF WaitLost, ReportTimeout, EndPass
  <2> QED
    BY <2>1, <2>2, <2>3
<1>9. CASE Redirected
  <2>1. dataTmo' \in BOOLEAN /\ aliveDue' \in BOOLEAN
    BY <1>9 DEF Redirected
  <2>2. resumeDue' \in BOOLEAN /\ tmoDue' \in BOOLEAN
    BY <1>9 DEF Redirected
  <2>3. passes' \in 0..2
    BY <1>9 DEF Redirected
  <2> QED
    BY <2>1, <2>2, <2>3
<1>10. CASE ReadError
  BY <1>10 DEF ReadError, CanRead, EndPass
<1>11. CASE ReadRest
  BY <1>11 DEF ReadRest, CanRead, EndPass
<1>12. CASE ReadEvents
  BY <1>12 DEF ReadEvents, CanRead, Fed
<1>13. CASE ReadCutFirst
  <2>1. dataTmo' \in BOOLEAN /\ aliveDue' \in BOOLEAN
    BY <1>13 DEF ReadCutFirst, CanRead, Close, EndPass
  <2>2. resumeDue' \in BOOLEAN /\ tmoDue' \in BOOLEAN
    BY <1>13 DEF ReadCutFirst, CanRead, Close, EndPass
  <2>3. passes' \in 0..2
    BY <1>13 DEF ReadCutFirst, CanRead, Close, EndPass
  <2> QED
    BY <2>1, <2>2, <2>3
<1>14. ASSUME NEW k \in 1..MaxWire, ReadCut(k) PROVE TimerTypeOK'
  BY <1>14 DEF ReadCut, CanRead, Fed
<1>15. CASE ParsePut
  BY <1>15 DEF ParsePut
<1>16. CASE ParseKeepAlive
  BY <1>16 DEF ParseKeepAlive, ReportTimeout
<1>17. CASE ParseRevoked
  <2>1. dataTmo' \in BOOLEAN /\ aliveDue' \in BOOLEAN
    BY <1>17 DEF ParseRevoked, Close
  <2>2. resumeDue' \in BOOLEAN /\ tmoDue' \in BOOLEAN
    BY <1>17 DEF ParseRevoked, Close
  <2>3. passes' \in 0..2
    BY <1>17 DEF ParseRevoked, Close
  <2> QED
    BY <2>1, <2>2, <2>3
<1>18. CASE ParseDone
  BY <1>18 DEF ParseDone, EndPass
<1>19. CASE StreamTimeout
  <2>1. dataTmo' \in BOOLEAN /\ aliveDue' \in BOOLEAN
    BY <1>19 DEF StreamTimeout, ReportTimeout
  <2>2. resumeDue' \in BOOLEAN /\ tmoDue' \in BOOLEAN
    BY <1>19 DEF StreamTimeout, ReportTimeout
  <2>3. passes' \in 0..2
    BY <1>19 DEF StreamTimeout, ReportTimeout
  <2> QED
    BY <2>1, <2>2, <2>3
<1>20. CASE BeginStream
  <2>1. dataTmo' \in BOOLEAN /\ aliveDue' \in BOOLEAN
    BY <1>20 DEF BeginStream, Sketch, Disturb
  <2>2. resumeDue' \in BOOLEAN /\ tmoDue' \in BOOLEAN
    BY <1>20 DEF BeginStream, Sketch, Disturb
  <2>3. passes' \in 0..2
    BY <1>20 DEF BeginStream, Sketch, Disturb
  <2> QED
    BY <2>1, <2>2, <2>3
<1>21. CASE EndStream
  BY <1>21 DEF EndStream, Disturb
<1>22. CASE Pause
  <2>1. dataTmo' \in BOOLEAN /\ aliveDue' \in BOOLEAN
    BY <1>22 DEF Pause, Sketch, Disturb, Close
  <2>2. resumeDue' \in BOOLEAN /\ tmoDue' \in BOOLEAN
    BY <1>22 DEF Pause, Sketch, Disturb, Close
  <2>3. passes' \in 0..2
    BY <1>22 DEF Pause, Sketch, Disturb, Close
  <2> QED
    BY <2>1, <2>2, <2>3
<1>23. CASE Unpause
  BY <1>23 DEF Unpause, Sketch, Disturb
<1>24. ASSUME NEW p \in {"/", "other"}, OtherRequest(p) PROVE TimerTypeOK'
  <2>1. dataTmo' \in BOOLEAN /\ aliveDue' \in BOOLEAN
    BY <1>24 DEF OtherRequest, Sketch, Disturb, Ready
  <2>2. resumeDue' \in BOOLEAN /\ tmoDue' \in BOOLEAN
    BY <1>24 DEF OtherRequest, Sketch, Disturb, Ready
  <2>3. passes' \in 0..2
    BY <1>24 DEF OtherRequest, Sketch, Disturb, Ready
  <2> QED
    BY <2>1, <2>2, <2>3
<1>25. CASE OtherRequestFails
  <2>1. dataTmo' \in BOOLEAN /\ aliveDue' \in BOOLEAN
    BY <1>25 DEF OtherRequestFails, Sketch, Disturb, Close
  <2>2. resumeDue' \in BOOLEAN /\ tmoDue' \in BOOLEAN
    BY <1>25 DEF OtherRequestFails, Sketch, Disturb, Close
  <2>3. passes' \in 0..2
    BY <1>25 DEF OtherRequestFails, Sketch, Disturb, Close
  <2> QED
    BY <2>1, <2>2, <2>3
<1>26. CASE Elapse
  BY <1>26 DEF Elapse
<1>27. CASE Answer
  BY <1>27 DEF Answer, ServerSame
<1>28. CASE Refuse
  BY <1>28 DEF Refuse, ServerSame, Disturb
<1>29. ASSUME NEW v \in Values, Change(v) PROVE TimerTypeOK'
  BY <1>29 DEF Change, ServerSame, Streaming, Disturb
<1>30. CASE KeepAlive
  BY <1>30 DEF KeepAlive, ServerSame, Streaming, Disturb
<1>31. CASE Expire
  BY <1>31 DEF Expire, ServerSame, Streaming, Disturb
<1>32. CASE Renew
  BY <1>32 DEF Renew, ServerSame
<1>33. CASE Disconnect
  BY <1>33 DEF Disconnect, ServerSame, Disturb
<1>34. CASE NetDown
  BY <1>34 DEF NetDown, Disturb
<1>35. CASE NetUp
  BY <1>35 DEF NetUp
<1>36. CASE UNCHANGED vars
  BY <1>36 DEF vars
<1> QED
  BY <1>1, <1>2, <1>3, <1>4, <1>5, <1>6, <1>7, <1>8, <1>9, <1>10, <1>11,
     <1>12, <1>13, <1>14, <1>15, <1>16, <1>17, <1>18, <1>19, <1>20, <1>21,
     <1>22, <1>23, <1>24, <1>25, <1>26, <1>27, <1>28, <1>29, <1>30, <1>31,
     <1>32, <1>33, <1>34, <1>35, <1>36
     DEF Next, Pass, SketchCalls, Environment, Read, Parse

\* Every step keeps the types of the connection, the world and the pass.
LEMMA WorldStep == TypeOK /\ [Next]_vars => WorldTypeOK' /\ ControlTypeOK'
<1> SUFFICES ASSUME WorldTypeOK, ControlTypeOK, batch \in Seq(Events), [Next]_vars
             PROVE  WorldTypeOK' /\ ControlTypeOK'
  BY DEF TypeOK, PassTypeOK, ControlTypeOK
<1> USE StreamAssumption DEF WorldTypeOK, ControlTypeOK,
        sessionVars, statusVars, timers, passVars, link, world
<1>1. CASE RunIdle
  BY <1>1 DEF RunIdle, StartPass
<1>2. CASE RunReopen
  BY <1>2 DEF RunReopen, StartPass, Close, Late
<1>3. CASE RunRead
  BY <1>3 DEF RunRead, StartPass
<1>4. CASE OpenNotReady
  BY <1>4 DEF OpenNotReady, Close, ReportTimeout, EndPass
<1>5. CASE OpenFails
  BY <1>5 DEF OpenFails, ReportTimeout, EndPass
<1>6. CASE Open
  BY <1>6 DEF Open
<1>7. CASE WaitNothing
  BY <1>7 DEF WaitNothing, EndPass
<1>8. CASE WaitLost
  BY <1>8 DEF WaitLost, ReportTimeout, EndPass
<1>9. CASE Redirected
  BY <1>9 DEF Redirected
<1>10. CASE ReadError
  BY <1>10 DEF ReadError, CanRead, EndPass
<1>11. CASE ReadRest
  BY <1>11 DEF ReadRest, CanRead, EndPass
<1>12. CASE ReadEvents
  BY <1>12 DEF ReadEvents, CanRead, Fed
<1>13. CASE ReadCutFirst
  BY <1>13 DEF ReadCutFirst, CanRead, Close, EndPass
<1>14. ASSUME NEW k \in 1..MaxWire, ReadCut(k) PROVE WorldTypeOK' /\ ControlTypeOK'
  BY <1>14 DEF ReadCut, CanRead, Fed
<1>15. CASE ParsePut
  BY <1>15, TailEvents, EventFacts DEF ParsePut
<1>16. CASE ParseKeepAlive
  BY <1>16 DEF ParseKeepAlive, ReportTimeout
<1>17. CASE ParseRevoked
  BY <1>17 DEF ParseRevoked, Close
<1>18. CASE ParseDone
  BY <1>18 DEF ParseDone, EndPass
<1>19. CASE StreamTimeout
  BY <1>19 DEF StreamTimeout, ReportTimeout
<1>20. CASE BeginStream
  BY <1>20 DEF BeginStream, Sketch, Disturb
<1>21. CASE EndStream
  BY <1>21 DEF EndStream, Disturb
<1>22. CASE Pause
  BY <1>22 DEF Pause, Sketch, Disturb, Close
<1>23. CASE Unpause
  BY <1>23 DEF Unpause, Sketch, Disturb
<1>24. ASSUME NEW p \in {"/", "other"}, OtherRequest(p) PROVE WorldTypeOK' /\ ControlTypeOK'
  BY <1>24 DEF OtherRequest, Sketch, Disturb, Ready
<1>25. CASE OtherRequestFails
  BY <1>25 DEF OtherRequestFails, Sketch, Disturb, Close
<1>26. CASE Elapse
  BY <1>26 DEF Elapse
<1>27. CASE Answer
  BY <1>27 DEF Answer, ServerSame
<1>28. CASE Refuse
  BY <1>28 DEF Refuse, ServerSame, Disturb
<1>29. ASSUME NEW v \in Values, Change(v) PROVE WorldTypeOK' /\ ControlTypeOK'
  BY <1>29 DEF Change, ServerSame, Streaming, Disturb
<1>30. CASE KeepAlive
  BY <1>30 DEF KeepAlive, ServerSame, Streaming, Disturb
<1>31. CASE Expire
  BY <1>31 DEF Expire, ServerSame, Streaming, Disturb
<1>32. CASE Renew
  BY <1>32 DEF Renew, ServerSame
<1>33. CASE Disconnect
  BY <1>33 DEF Disconnect, ServerSame, Disturb
<1>34. CASE NetDown
  <2>1. conn' \in {"closed", "asked", "stream", "live", "plain", "dead"}
    BY <1>34 DEF NetDown
  <2>2. faults' \in 0..MaxFaults
    BY <1>34 DEF NetDown, Disturb
  <2> QED
    BY <1>34, <2>1, <2>2 DEF NetDown
<1>35. CASE NetUp
  BY <1>35 DEF NetUp
<1>36. CASE UNCHANGED vars
  BY <1>36 DEF vars
<1> QED
  BY <1>1, <1>2, <1>3, <1>4, <1>5, <1>6, <1>7, <1>8, <1>9, <1>10, <1>11,
     <1>12, <1>13, <1>14, <1>15, <1>16, <1>17, <1>18, <1>19, <1>20, <1>21,
     <1>22, <1>23, <1>24, <1>25, <1>26, <1>27, <1>28, <1>29, <1>30, <1>31,
     <1>32, <1>33, <1>34, <1>35, <1>36
     DEF Next, Pass, SketchCalls, Environment, Read, Parse

\* A sequence of one event.
LEMMA SingleEvent ==
  ASSUME NEW e \in Events
  PROVE  <<e>> \in Seq(Events)
OBVIOUS

\* Every step keeps the types of what is parsed and what is received.
LEMMA SequenceStep == TypeOK /\ [Next]_vars => batch' \in Seq(Events) /\ WireOK'
<1> SUFFICES ASSUME batch \in Seq(Events), WireOK, WorldTypeOK, [Next]_vars
             PROVE  batch' \in Seq(Events) /\ WireOK'
  BY DEF TypeOK, PassTypeOK
<1> USE DEF sessionVars, statusVars, timers, passVars, link, world
<1>Unchanged. UNCHANGED link => WireOK'
  BY DEF WireOK
<1>Emptied. wire' = <<>> => WireOK'
  BY EmptySeq DEF WireOK
<1>1. CASE RunIdle
  BY <1>1, <1>Unchanged DEF RunIdle, StartPass
<1>2. CASE RunReopen
  BY <1>2, <1>Emptied, EmptySeq DEF RunReopen, StartPass, Close, Late
<1>3. CASE RunRead
  BY <1>3, <1>Unchanged DEF RunRead, StartPass
<1>4. CASE OpenNotReady
  BY <1>4, <1>Emptied, EmptySeq DEF OpenNotReady, Close, ReportTimeout, EndPass
<1>5. CASE OpenFails
  BY <1>5, <1>Emptied, EmptySeq DEF OpenFails, ReportTimeout, EndPass
<1>6. CASE Open
  BY <1>6, <1>Emptied, EmptySeq DEF Open
<1>7. CASE WaitNothing
  BY <1>7, <1>Unchanged, EmptySeq DEF WaitNothing, EndPass
<1>8. CASE WaitLost
  BY <1>8, <1>Emptied, EmptySeq DEF WaitLost, ReportTimeout, EndPass
<1>9. CASE Redirected
  BY <1>9, <1>Unchanged DEF Redirected
<1>10. CASE ReadError
  BY <1>10, <1>Emptied, EmptySeq DEF ReadError, CanRead, EndPass
<1>11. CASE ReadRest
  BY <1>11, <1>Emptied, EmptySeq DEF ReadRest, CanRead, EndPass
<1>12. CASE ReadEvents
  <2>1. batch' \in Seq(Events)
    BY <1>12, TailEvents DEF ReadEvents, CanRead, Fed, WireOK
  <2> QED
    BY <1>12, <2>1, <1>Emptied DEF ReadEvents, CanRead, Fed
<1>13. CASE ReadCutFirst
  BY <1>13, <1>Emptied, EmptySeq DEF ReadCutFirst, CanRead, Close, EndPass
<1>14. ASSUME NEW k \in 1..MaxWire, ReadCut(k) PROVE batch' \in Seq(Events) /\ WireOK'
  <2>1. batch' \in Seq(Events)
    BY <1>14, CutEvents DEF ReadCut, CanRead, Fed
  <2>2. WireOK'
    BY <1>14, CutEvents DEF ReadCut, CanRead, Fed, WireOK
  <2> QED
    BY <2>1, <2>2
<1>15. CASE ParsePut
  BY <1>15, <1>Unchanged, TailEvents DEF ParsePut
<1>16. CASE ParseKeepAlive
  BY <1>16, <1>Unchanged, TailEvents DEF ParseKeepAlive, ReportTimeout
<1>17. CASE ParseRevoked
  BY <1>17, <1>Emptied, TailEvents DEF ParseRevoked, Close
<1>18. CASE ParseDone
  BY <1>18, <1>Unchanged, EmptySeq DEF ParseDone, EndPass
<1>19. CASE StreamTimeout
  BY <1>19, <1>Unchanged, <1>Emptied DEF StreamTimeout, ReportTimeout
<1>20. CASE BeginStream
  BY <1>20, <1>Emptied, EmptySeq DEF BeginStream, Sketch, Disturb
<1>21. CASE EndStream
  BY <1>21, <1>Emptied, EmptySeq DEF EndStream, Disturb
<1>22. CASE Pause
  BY <1>22, <1>Emptied, EmptySeq DEF Pause, Sketch, Disturb, Close
<1>23. CASE Unpause
  BY <1>23, <1>Unchanged DEF Unpause, Sketch, Disturb
<1>24. ASSUME NEW p \in {"/", "other"}, OtherRequest(p) PROVE batch' \in Seq(Events) /\ WireOK'
  BY <1>24, <1>Emptied, EmptySeq DEF OtherRequest, Sketch, Disturb, Ready
<1>25. CASE OtherRequestFails
  BY <1>25, <1>Emptied, EmptySeq DEF OtherRequestFails, Sketch, Disturb, Close
<1>26. CASE Elapse
  BY <1>26, <1>Unchanged DEF Elapse
<1>27. CASE Answer
  <2>1. batch' \in Seq(Events)
    BY <1>27 DEF Answer, ServerSame
  <2>2. WireOK'
    BY <1>27, EventFacts, SingleEvent DEF Answer, ServerSame, WireOK, WorldTypeOK
  <2> QED
    BY <2>1, <2>2
<1>28. CASE Refuse
  <2>1. batch' \in Seq(Events)
    BY <1>28 DEF Refuse, ServerSame, Disturb
  <2>2. WireOK'
    BY <1>28, EventFacts, SingleEvent DEF Refuse, ServerSame, Disturb, WireOK, WorldTypeOK
  <2> QED
    BY <2>1, <2>2
<1>29. ASSUME NEW v \in Values, Change(v) PROVE batch' \in Seq(Events) /\ WireOK'
  <2>1. batch' \in Seq(Events)
    BY <1>29 DEF Change, ServerSame, Streaming, Disturb
  <2>2. WireOK'
    <3>1. CASE UNCHANGED link
      BY <3>1, <1>Unchanged
    <3>2. CASE Streaming /\ ~UNCHANGED link
      BY <1>29, <3>2, EventFacts, WireAppend DEF Change, ServerSame, Streaming, Disturb, WireOK
    <3> QED
      BY <1>29, <3>1, <3>2 DEF Change, ServerSame, Streaming, Disturb
  <2> QED
    BY <2>1, <2>2
<1>30. CASE KeepAlive
  <2>1. batch' \in Seq(Events)
    BY <1>30 DEF KeepAlive, ServerSame, Streaming, Disturb
  <2>2. WireOK'
    <3>1. CASE UNCHANGED link
      BY <3>1, <1>Unchanged
    <3>2. CASE Streaming /\ ~UNCHANGED link
      BY <1>30, <3>2, EventFacts, WireAppend DEF KeepAlive, ServerSame, Streaming, Disturb, WireOK
    <3> QED
      BY <1>30, <3>1, <3>2 DEF KeepAlive, ServerSame, Streaming, Disturb
  <2> QED
    BY <2>1, <2>2
<1>31. CASE Expire
  <2>1. batch' \in Seq(Events)
    BY <1>31 DEF Expire, ServerSame, Streaming, Disturb
  <2>2. WireOK'
    <3>1. CASE UNCHANGED link
      BY <3>1, <1>Unchanged
    <3>2. CASE Streaming /\ ~UNCHANGED link
      BY <1>31, <3>2, EventFacts, WireAppend DEF Expire, ServerSame, Streaming, Disturb, WireOK
    <3> QED
      BY <1>31, <3>1, <3>2 DEF Expire, ServerSame, Streaming, Disturb
  <2> QED
    BY <2>1, <2>2
<1>32. CASE Renew
  BY <1>32, <1>Unchanged DEF Renew, ServerSame
<1>33. CASE Disconnect
  <2>1. batch' \in Seq(Events)
    BY <1>33 DEF Disconnect, ServerSame, Disturb
  <2>2. WireOK'
    BY <1>33, EmptySeq DEF Disconnect, ServerSame, Disturb, WireOK
  <2> QED
    BY <2>1, <2>2
<1>34. CASE NetDown
  <2>1. batch' \in Seq(Events)
    BY <1>34 DEF NetDown, Disturb
  <2>2. WireOK'
    BY <1>34, EmptySeq DEF NetDown, Disturb, WireOK
  <2> QED
    BY <2>1, <2>2
<1>35. CASE NetUp
  BY <1>35, <1>Unchanged DEF NetUp
<1>36. CASE UNCHANGED vars
  BY <1>36, <1>Unchanged DEF vars
<1> QED
  BY <1>1, <1>2, <1>3, <1>4, <1>5, <1>6, <1>7, <1>8, <1>9, <1>10, <1>11,
     <1>12, <1>13, <1>14, <1>15, <1>16, <1>17, <1>18, <1>19, <1>20, <1>21,
     <1>22, <1>23, <1>24, <1>25, <1>26, <1>27, <1>28, <1>29, <1>30, <1>31,
     <1>32, <1>33, <1>34, <1>35, <1>36
     DEF Next, Pass, SketchCalls, Environment, Read, Parse

\* The variables keep their types, and what is received keeps its shape: an HTTP
\* error is alone, the rest of a cut event comes first (readResponse, parsePayload).
THEOREM TypeCorrect == Spec => []TypeOK
<1>1. TypeOK /\ [Next]_vars => TypeOK'
  BY SessionStep, TimerStep, WorldStep, SequenceStep DEF TypeOK, ControlTypeOK, PassTypeOK
<1> QED
  BY TypeInit, <1>1, PTL DEF Spec

\* What makes SeenIsDelivered inductive: while a pass is between its start and the
\* end of its parsing the stream has not ended, and no redirect is pending.
NoSurprises ==
  /\ pc \in {"open", "wait", "parse"} => ~stopped
  /\ ~pathChanged

StreamInv == NoSurprises /\ SeenIsDelivered

\* One step keeps the invariant, in the cases of which none was left out.
LEMMA StreamInvStep ==
  ASSUME Cases \subseteq {"cut"}, TypeOK, StreamInv, [Next]_vars
  PROVE  StreamInv'
<1> USE DEF StreamInv, NoSurprises, SeenIsDelivered,
        sessionVars, statusVars, timers, passVars, link, world
<1>0. /\ "redirect" \notin Cases /\ "root" \notin Cases /\ "callback" \notin Cases
      /\ stopped \in BOOLEAN /\ pathChanged \in BOOLEAN
      /\ seen = [path |-> seen.path, crc |-> seen.crc]
  BY DEF TypeOK, SessionTypeOK
<1>1. CASE RunIdle
  BY <1>1, <1>0 DEF RunIdle, StartPass
<1>2. CASE RunReopen
  BY <1>2, <1>0 DEF RunReopen, StartPass, Close, Late
<1>3. CASE RunRead
  BY <1>3, <1>0 DEF RunRead, StartPass
<1>4. CASE OpenNotReady
  BY <1>4, <1>0 DEF OpenNotReady, Close, ReportTimeout, EndPass
<1>5. CASE OpenFails
  BY <1>5, <1>0 DEF OpenFails, ReportTimeout, EndPass
<1>6. CASE Open
  BY <1>6, <1>0 DEF Open
<1>7. CASE WaitNothing
  BY <1>7, <1>0 DEF WaitNothing, EndPass
<1>8. CASE WaitLost
  BY <1>8, <1>0 DEF WaitLost, ReportTimeout, EndPass
<1>9. CASE Redirected
  BY <1>9, <1>0 DEF Redirected
<1>10. CASE ReadError
  BY <1>10, <1>0 DEF ReadError, CanRead, EndPass
<1>11. CASE ReadRest
  BY <1>11, <1>0 DEF ReadRest, CanRead, EndPass
<1>12. CASE ReadEvents
  BY <1>12, <1>0 DEF ReadEvents, CanRead, Fed
<1>13. CASE ReadCutFirst
  BY <1>13, <1>0 DEF ReadCutFirst, CanRead, Close, EndPass
<1>14. ASSUME NEW k \in 1..MaxWire, ReadCut(k) PROVE StreamInv'
  BY <1>14, <1>0 DEF ReadCut, CanRead, Fed
<1>15. CASE ParsePut
  BY <1>15, <1>0 DEF ParsePut, Changed
<1>16. CASE ParseKeepAlive
  BY <1>16, <1>0 DEF ParseKeepAlive, ReportTimeout
<1>17. CASE ParseRevoked
  BY <1>17, <1>0 DEF ParseRevoked, Close
<1>18. CASE ParseDone
  BY <1>18, <1>0 DEF ParseDone, EndPass
<1>19. CASE StreamTimeout
  BY <1>19, <1>0 DEF StreamTimeout, ReportTimeout
<1>20. CASE BeginStream
  BY <1>20, <1>0 DEF BeginStream, Sketch, Disturb
<1>21. CASE EndStream
  BY <1>21, <1>0 DEF EndStream, Disturb
<1>22. CASE Pause
  BY <1>22, <1>0 DEF Pause, Sketch, Disturb, Close
<1>23. CASE Unpause
  BY <1>23, <1>0 DEF Unpause, Sketch, Disturb
<1>24. ASSUME NEW p \in {"/", "other"}, OtherRequest(p) PROVE StreamInv'
  BY <1>24, <1>0 DEF OtherRequest, Sketch, Disturb, Ready
<1>25. CASE OtherRequestFails
  BY <1>25, <1>0 DEF OtherRequestFails, Sketch, Disturb, Close
<1>26. CASE Elapse
  BY <1>26, <1>0 DEF Elapse
<1>27. CASE Answer
  BY <1>27, <1>0 DEF Answer, ServerSame
<1>28. CASE Refuse
  BY <1>28, <1>0 DEF Refuse, ServerSame, Disturb
<1>29. ASSUME NEW v \in Values, Change(v) PROVE StreamInv'
  BY <1>29, <1>0 DEF Change, ServerSame, Streaming, Disturb
<1>30. CASE KeepAlive
  BY <1>30, <1>0 DEF KeepAlive, ServerSame, Streaming, Disturb
<1>31. CASE Expire
  BY <1>31, <1>0 DEF Expire, ServerSame, Streaming, Disturb
<1>32. CASE Renew
  BY <1>32, <1>0 DEF Renew, ServerSame
<1>33. CASE Disconnect
  BY <1>33, <1>0 DEF Disconnect, ServerSame, Disturb
<1>34. CASE NetDown
  BY <1>34, <1>0 DEF NetDown, Disturb
<1>35. CASE NetUp
  BY <1>35, <1>0 DEF NetUp
<1>36. CASE UNCHANGED vars
  BY <1>36, <1>0 DEF vars
<1> QED
  BY <1>1, <1>2, <1>3, <1>4, <1>5, <1>6, <1>7, <1>8, <1>9, <1>10, <1>11,
     <1>12, <1>13, <1>14, <1>15, <1>16, <1>17, <1>18, <1>19, <1>20, <1>21,
     <1>22, <1>23, <1>24, <1>25, <1>26, <1>27, <1>28, <1>29, <1>30, <1>31,
     <1>32, <1>33, <1>34, <1>35, <1>36
     DEF Next, Pass, SketchCalls, Environment, Read, Parse

\* Provided no stream is redirected, the root is not read with the object and the
\* callback does not end the stream, the CRC of the node parsed last is that of the
\* value delivered last (handlePayload's comparison with session.rtdb.path and
\* data_crc).
THEOREM SeenCorrect ==
  ASSUME Cases \subseteq {"cut"}
  PROVE  Spec => []SeenIsDelivered
<1>1. Init => StreamInv
  BY DEF Init, StreamInv, NoSurprises, SeenIsDelivered, Unseen
<1>2. TypeOK /\ StreamInv /\ [Next]_vars => StreamInv'
  BY StreamInvStep
<1>3. StreamInv => SeenIsDelivered
  BY DEF StreamInv
<1> QED
  BY <1>1, <1>2, <1>3, TypeCorrect, PTL DEF Spec

\* One step that takes a put event from the payload calls the callback with its
\* value, or the callback has had one of the same CRC.
LEMMA DeliveryStep ==
  ASSUME TypeOK, StreamInv, [Next]_vars, pc = "parse", batch # <<>>,
         batch' = Tail(batch), Head(batch).kind = "put"
  PROVE  Crc[delivered'] = Crc[Head(batch).val]
<1> USE DEF sessionVars, statusVars, timers, passVars, link, world
<1>0. Tail(batch) # batch /\ Head(batch) \in Events
  BY HeadTailProperties DEF TypeOK, PassTypeOK
<1>1. CASE RunIdle
  BY <1>1, <1>0 DEF RunIdle, StartPass
<1>2. CASE RunReopen
  BY <1>2, <1>0 DEF RunReopen, StartPass, Close, Late
<1>3. CASE RunRead
  BY <1>3, <1>0 DEF RunRead, StartPass
<1>4. CASE OpenNotReady
  BY <1>4, <1>0 DEF OpenNotReady, Close, ReportTimeout, EndPass
<1>5. CASE OpenFails
  BY <1>5, <1>0 DEF OpenFails, ReportTimeout, EndPass
<1>6. CASE Open
  BY <1>6, <1>0 DEF Open
<1>7. CASE WaitNothing
  BY <1>7, <1>0 DEF WaitNothing, EndPass
<1>8. CASE WaitLost
  BY <1>8, <1>0 DEF WaitLost, ReportTimeout, EndPass
<1>9. CASE Redirected
  BY <1>9, <1>0 DEF Redirected
<1>10. CASE ReadError
  BY <1>10, <1>0 DEF ReadError, CanRead, EndPass
<1>11. CASE ReadRest
  BY <1>11, <1>0 DEF ReadRest, CanRead, EndPass
<1>12. CASE ReadEvents
  BY <1>12, <1>0 DEF ReadEvents, CanRead, Fed
<1>13. CASE ReadCutFirst
  BY <1>13, <1>0 DEF ReadCutFirst, CanRead, Close, EndPass
<1>14. ASSUME NEW k \in 1..MaxWire, ReadCut(k) PROVE Crc[delivered'] = Crc[Head(batch).val]
  BY <1>14, <1>0 DEF ReadCut, CanRead, Fed
<1>15. CASE ParsePut
  <2>1. Head(batch).val \in Values
    BY <1>0, EventFacts
  <2> QED
    BY <1>15, <2>1, OthersDiffer DEF ParsePut, Changed, StreamInv, NoSurprises, SeenIsDelivered
<1>16. CASE ParseKeepAlive
  BY <1>16, <1>0 DEF ParseKeepAlive, ReportTimeout, Alive
<1>17. CASE ParseRevoked
  BY <1>17, <1>0 DEF ParseRevoked, Close, Revoked
<1>18. CASE ParseDone
  BY <1>18, <1>0 DEF ParseDone, EndPass
<1>19. CASE StreamTimeout
  BY <1>19, <1>0 DEF StreamTimeout, ReportTimeout
<1>20. CASE BeginStream
  BY <1>20, <1>0 DEF BeginStream, Sketch, Disturb
<1>21. CASE EndStream
  BY <1>21, <1>0 DEF EndStream, Disturb
<1>22. CASE Pause
  BY <1>22, <1>0 DEF Pause, Sketch, Disturb, Close
<1>23. CASE Unpause
  BY <1>23, <1>0 DEF Unpause, Sketch, Disturb
<1>24. ASSUME NEW p \in {"/", "other"}, OtherRequest(p) PROVE Crc[delivered'] = Crc[Head(batch).val]
  BY <1>24, <1>0 DEF OtherRequest, Sketch, Disturb, Ready
<1>25. CASE OtherRequestFails
  BY <1>25, <1>0 DEF OtherRequestFails, Sketch, Disturb, Close
<1>26. CASE Elapse
  BY <1>26, <1>0 DEF Elapse
<1>27. CASE Answer
  BY <1>27, <1>0 DEF Answer, ServerSame
<1>28. CASE Refuse
  BY <1>28, <1>0 DEF Refuse, ServerSame, Disturb
<1>29. ASSUME NEW v \in Values, Change(v) PROVE Crc[delivered'] = Crc[Head(batch).val]
  BY <1>29, <1>0 DEF Change, ServerSame, Streaming, Disturb
<1>30. CASE KeepAlive
  BY <1>30, <1>0 DEF KeepAlive, ServerSame, Streaming, Disturb
<1>31. CASE Expire
  BY <1>31, <1>0 DEF Expire, ServerSame, Streaming, Disturb
<1>32. CASE Renew
  BY <1>32, <1>0 DEF Renew, ServerSame
<1>33. CASE Disconnect
  BY <1>33, <1>0 DEF Disconnect, ServerSame, Disturb
<1>34. CASE NetDown
  BY <1>34, <1>0 DEF NetDown, Disturb
<1>35. CASE NetUp
  BY <1>35, <1>0 DEF NetUp
<1>36. CASE UNCHANGED vars
  BY <1>36, <1>0 DEF vars
<1> QED
  BY <1>1, <1>2, <1>3, <1>4, <1>5, <1>6, <1>7, <1>8, <1>9, <1>10, <1>11,
     <1>12, <1>13, <1>14, <1>15, <1>16, <1>17, <1>18, <1>19, <1>20, <1>21,
     <1>22, <1>23, <1>24, <1>25, <1>26, <1>27, <1>28, <1>29, <1>30, <1>31,
     <1>32, <1>33, <1>34, <1>35, <1>36
     DEF Next, Pass, SketchCalls, Environment, Read, Parse

\* Under the same assumption every value that is parsed reaches the data callback,
\* unless the callback has had it, or one of its CRC, last (parseStreamPayload,
\* sendCB).
THEOREM ChangesCorrect ==
  ASSUME Cases \subseteq {"cut"}
  PROVE  Spec => ChangesDelivered
<1>1. Init => StreamInv
  BY DEF Init, StreamInv, NoSurprises, SeenIsDelivered, Unseen
<1>2. TypeOK /\ StreamInv /\ [Next]_vars => StreamInv'
  BY StreamInvStep
<1>3. TypeOK /\ StreamInv /\ [Next]_vars
      => [pc = "parse" /\ batch # <<>> /\ batch' = Tail(batch) /\ Head(batch).kind = "put"
            => Crc[delivered'] = Crc[Head(batch).val]]_vars
  BY DeliveryStep
<1> QED
  BY <1>1, <1>2, <1>3, TypeCorrect, PTL DEF Spec, ChangesDelivered

\* The object's mode is that of the request under way.
ModeIsStream == conn \in {"asked", "stream", "live"} => mode = "stream"

\* Nothing but an HTTP error comes on a connection that carries no stream.
AnswerIsAlone ==
  /\ conn = "asked" => wire = <<>>
  /\ conn = "plain" => wire = <<>> \/ wire = <<Error>>

\* Nothing of what makes handleStreamRead open a stream again holds of one whose
\* events arrive; a keep-alive's report lasts until the end of its payload.
LiveIsCalm == conn = "live" => ~refused /\ (pc # "parse" => ~dataTmo /\ ~aliveDue)

KeptInv == ModeIsStream /\ AnswerIsAlone /\ LiveIsCalm

\* A sequence of the rest of an event is not empty, nor an HTTP error.
LEMMA RestIsStream == <<Rest>> # <<>> /\ <<Rest>> # <<Error>>
BY EventFacts

\* One step keeps it, whatever the cases.
LEMMA KeptStep ==
  ASSUME TypeOK, KeptInv, [Next]_vars
  PROVE  KeptInv'
<1> USE DEF KeptInv, ModeIsStream, AnswerIsAlone, LiveIsCalm,
        sessionVars, statusVars, timers, passVars, link, world
<1>0. /\ conn \in {"closed", "asked", "stream", "live", "plain", "dead"} /\ WireOK
      /\ dataTmo \in BOOLEAN /\ refused \in BOOLEAN /\ aliveDue \in BOOLEAN
      /\ pc \in {"idle", "open", "wait", "parse", "timeout"}
  BY DEF TypeOK, SessionTypeOK, TimerTypeOK, PassTypeOK, WorldTypeOK
<1>1. CASE RunIdle
  BY <1>1, <1>0 DEF RunIdle, StartPass
<1>2. CASE RunReopen
  BY <1>2, <1>0 DEF RunReopen, StartPass, Close, Late
<1>3. CASE RunRead
  BY <1>3, <1>0 DEF RunRead, StartPass, MustReopen
<1>4. CASE OpenNotReady
  BY <1>4, <1>0 DEF OpenNotReady, Close, ReportTimeout, EndPass
<1>5. CASE OpenFails
  BY <1>5, <1>0 DEF OpenFails, ReportTimeout, EndPass
<1>6. CASE Open
  BY <1>6, <1>0 DEF Open
<1>7. CASE WaitNothing
  BY <1>7, <1>0 DEF WaitNothing, EndPass
<1>8. CASE WaitLost
  BY <1>8, <1>0 DEF WaitLost, ReportTimeout, EndPass
<1>9. CASE Redirected
  BY <1>9, <1>0 DEF Redirected
<1>10. CASE ReadError
  BY <1>10, <1>0, EventFacts DEF ReadError, CanRead, EndPass, WireOK
<1>11. CASE ReadRest
  BY <1>11, <1>0, RestIsStream DEF ReadRest, CanRead, EndPass
<1>12. CASE ReadEvents
  BY <1>12, <1>0 DEF ReadEvents, CanRead, Fed
<1>13. CASE ReadCutFirst
  BY <1>13, <1>0 DEF ReadCutFirst, CanRead, Close, EndPass
<1>14. ASSUME NEW k \in 1..MaxWire, ReadCut(k) PROVE KeptInv'
  <2>1. wire # <<>> /\ wire # <<Error>>
    BY <1>14, EventFacts DEF ReadCut, CanRead
  <2> QED
    BY <1>14, <1>0, <2>1 DEF ReadCut, CanRead, Fed
<1>15. CASE ParsePut
  BY <1>15, <1>0 DEF ParsePut, Changed
<1>16. CASE ParseKeepAlive
  BY <1>16, <1>0 DEF ParseKeepAlive, ReportTimeout
<1>17. CASE ParseRevoked
  BY <1>17, <1>0 DEF ParseRevoked, Close
<1>18. CASE ParseDone
  BY <1>18, <1>0 DEF ParseDone, EndPass
<1>19. CASE StreamTimeout
  BY <1>19, <1>0 DEF StreamTimeout, ReportTimeout
<1>20. CASE BeginStream
  BY <1>20, <1>0 DEF BeginStream, Sketch, Disturb
<1>21. CASE EndStream
  BY <1>21, <1>0 DEF EndStream, Disturb
<1>22. CASE Pause
  BY <1>22, <1>0 DEF Pause, Sketch, Disturb, Close
<1>23. CASE Unpause
  BY <1>23, <1>0 DEF Unpause, Sketch, Disturb
<1>24. ASSUME NEW p \in {"/", "other"}, OtherRequest(p) PROVE KeptInv'
  BY <1>24, <1>0 DEF OtherRequest, Sketch, Disturb, Ready
<1>25. CASE OtherRequestFails
  BY <1>25, <1>0 DEF OtherRequestFails, Sketch, Disturb, Close
<1>26. CASE Elapse
  BY <1>26, <1>0 DEF Elapse
<1>27. CASE Answer
  BY <1>27, <1>0 DEF Answer, ServerSame
<1>28. CASE Refuse
  BY <1>28, <1>0 DEF Refuse, ServerSame, Disturb
<1>29. ASSUME NEW v \in Values, Change(v) PROVE KeptInv'
  BY <1>29, <1>0 DEF Change, ServerSame, Streaming, Disturb
<1>30. CASE KeepAlive
  BY <1>30, <1>0 DEF KeepAlive, ServerSame, Streaming, Disturb
<1>31. CASE Expire
  BY <1>31, <1>0 DEF Expire, ServerSame, Streaming, Disturb
<1>32. CASE Renew
  BY <1>32, <1>0 DEF Renew, ServerSame
<1>33. CASE Disconnect
  BY <1>33, <1>0 DEF Disconnect, ServerSame, Disturb
<1>34. CASE NetDown
  BY <1>34, <1>0 DEF NetDown, Disturb
<1>35. CASE NetUp
  BY <1>35, <1>0 DEF NetUp
<1>36. CASE UNCHANGED vars
  BY <1>36, <1>0 DEF vars
<1> QED
  BY <1>1, <1>2, <1>3, <1>4, <1>5, <1>6, <1>7, <1>8, <1>9, <1>10, <1>11,
     <1>12, <1>13, <1>14, <1>15, <1>16, <1>17, <1>18, <1>19, <1>20, <1>21,
     <1>22, <1>23, <1>24, <1>25, <1>26, <1>27, <1>28, <1>29, <1>30, <1>31,
     <1>32, <1>33, <1>34, <1>35, <1>36
     DEF Next, Pass, SketchCalls, Environment, Read, Parse

\* Only RunReopen starts to open a stream that the sketch has not asked for.
LEMMA OpenedByRun ==
  ASSUME [Next]_vars, pc = "idle", pc' = "open", caller' = "run"
  PROVE  MustReopen
<1> USE DEF sessionVars, statusVars, timers, passVars, link, world
<1>0. pc = "idle" /\ pc' = "open" /\ caller' = "run"
  OBVIOUS
<1>1. CASE RunIdle
  BY <1>1, <1>0 DEF RunIdle, StartPass
<1>2. CASE RunReopen
  BY <1>2, <1>0 DEF RunReopen, StartPass, Close, Late
<1>3. CASE RunRead
  BY <1>3, <1>0 DEF RunRead, StartPass, MustReopen
<1>4. CASE OpenNotReady
  BY <1>4, <1>0 DEF OpenNotReady, Close, ReportTimeout, EndPass
<1>5. CASE OpenFails
  BY <1>5, <1>0 DEF OpenFails, ReportTimeout, EndPass
<1>6. CASE Open
  BY <1>6, <1>0 DEF Open
<1>7. CASE WaitNothing
  BY <1>7, <1>0 DEF WaitNothing, EndPass
<1>8. CASE WaitLost
  BY <1>8, <1>0 DEF WaitLost, ReportTimeout, EndPass
<1>9. CASE Redirected
  BY <1>9, <1>0 DEF Redirected
<1>10. CASE ReadError
  BY <1>10, <1>0, EventFacts DEF ReadError, CanRead, EndPass, WireOK
<1>11. CASE ReadRest
  BY <1>11, <1>0, RestIsStream DEF ReadRest, CanRead, EndPass
<1>12. CASE ReadEvents
  BY <1>12, <1>0 DEF ReadEvents, CanRead, Fed
<1>13. CASE ReadCutFirst
  BY <1>13, <1>0 DEF ReadCutFirst, CanRead, Close, EndPass
<1>14. ASSUME NEW k \in 1..MaxWire, ReadCut(k) PROVE MustReopen
  <2>1. wire # <<>> /\ wire # <<Error>>
    BY <1>14, EventFacts DEF ReadCut, CanRead
  <2> QED
    BY <1>14, <1>0, <2>1 DEF ReadCut, CanRead, Fed
<1>15. CASE ParsePut
  BY <1>15, <1>0 DEF ParsePut, Changed
<1>16. CASE ParseKeepAlive
  BY <1>16, <1>0 DEF ParseKeepAlive, ReportTimeout
<1>17. CASE ParseRevoked
  BY <1>17, <1>0 DEF ParseRevoked, Close
<1>18. CASE ParseDone
  BY <1>18, <1>0 DEF ParseDone, EndPass
<1>19. CASE StreamTimeout
  BY <1>19, <1>0 DEF StreamTimeout, ReportTimeout
<1>20. CASE BeginStream
  BY <1>20, <1>0 DEF BeginStream, Sketch, Disturb
<1>21. CASE EndStream
  BY <1>21, <1>0 DEF EndStream, Disturb
<1>22. CASE Pause
  BY <1>22, <1>0 DEF Pause, Sketch, Disturb, Close
<1>23. CASE Unpause
  BY <1>23, <1>0 DEF Unpause, Sketch, Disturb
<1>24. ASSUME NEW p \in {"/", "other"}, OtherRequest(p) PROVE MustReopen
  BY <1>24, <1>0 DEF OtherRequest, Sketch, Disturb, Ready
<1>25. CASE OtherRequestFails
  BY <1>25, <1>0 DEF OtherRequestFails, Sketch, Disturb, Close
<1>26. CASE Elapse
  BY <1>26, <1>0 DEF Elapse
<1>27. CASE Answer
  BY <1>27, <1>0 DEF Answer, ServerSame
<1>28. CASE Refuse
  BY <1>28, <1>0 DEF Refuse, ServerSame, Disturb
<1>29. ASSUME NEW v \in Values, Change(v) PROVE MustReopen
  BY <1>29, <1>0 DEF Change, ServerSame, Streaming, Disturb
<1>30. CASE KeepAlive
  BY <1>30, <1>0 DEF KeepAlive, ServerSame, Streaming, Disturb
<1>31. CASE Expire
  BY <1>31, <1>0 DEF Expire, ServerSame, Streaming, Disturb
<1>32. CASE Renew
  BY <1>32, <1>0 DEF Renew, ServerSame
<1>33. CASE Disconnect
  BY <1>33, <1>0 DEF Disconnect, ServerSame, Disturb
<1>34. CASE NetDown
  BY <1>34, <1>0 DEF NetDown, Disturb
<1>35. CASE NetUp
  BY <1>35, <1>0 DEF NetUp
<1>36. CASE UNCHANGED vars
  BY <1>36, <1>0 DEF vars
<1> QED
  BY <1>1, <1>2, <1>3, <1>4, <1>5, <1>6, <1>7, <1>8, <1>9, <1>10, <1>11,
     <1>12, <1>13, <1>14, <1>15, <1>16, <1>17, <1>18, <1>19, <1>20, <1>21,
     <1>22, <1>23, <1>24, <1>25, <1>26, <1>27, <1>28, <1>29, <1>30, <1>31,
     <1>32, <1>33, <1>34, <1>35, <1>36
     DEF Next, Pass, SketchCalls, Environment, Read, Parse

\* A stream whose events arrive is not opened again by the runner: of the reasons
\* handleStreamRead has, none holds between two passes (MustReopen).
THEOREM LiveCorrect == Spec => LiveIsKept
<1>1. Init => KeptInv
  BY DEF Init, KeptInv, ModeIsStream, AnswerIsAlone, LiveIsCalm
<1>2. TypeOK /\ KeptInv /\ [Next]_vars => KeptInv'
  BY KeptStep
<1>3. TypeOK /\ KeptInv /\ [Next]_vars
      => [pc = "idle" /\ pc' = "open" /\ caller' = "run" => conn # "live"]_vars
  BY OpenedByRun DEF KeptInv, ModeIsStream, LiveIsCalm, MustReopen
<1> QED
  BY <1>1, <1>2, <1>3, TypeCorrect, PTL DEF Spec, LiveIsKept

=============================================================================
