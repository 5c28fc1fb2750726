---------------------------- MODULE StreamTasks ----------------------------
(***************************************************************************)
(* The FreeRTOS tasks of an ESP32 that share Core: the sketch's loop and   *)
(* the stream tasks that setStreamCallback creates (rtdb/FB_RTDB.cpp's     *)
(* runStreamTask, mRunStream and handleStreamRead).  They share the vector *)
(* of the FirebaseData objects, each object's `streaming` guard, the flag  *)
(* fb_processing ("the blocking flag") that token requests, FCM messages   *)
(* and the reading of every response set and clear, and the one handle     *)
(* with which a stream task is deleted.                                    *)
(*                                                                         *)
(* The tasks are preempted between any test of a flag or a guard and the   *)
(* assignment that follows it, which are two steps.  Each call that sets   *)
(* or removes a callback is two or three steps.  That a vector which two   *)
(* tasks change at once may break is left out, and so is a token that      *)
(* expires between two adjacent tests of its expiry.  The network is up;   *)
(* what the responses hold is StreamSession's matter: here a response has  *)
(* at most one event for the callback.                                     *)
(***************************************************************************)
EXTENDS Naturals, SequencesExt

CONSTANTS
    Streams,  \* the objects with which the sketch reads streams
    Others,   \* the objects with which it sends requests and messages
    Tasks,    \* the identities of the stream tasks
    MaxCalls  \* bound on the calls of the sketch

Loop == "loop"
NoTask == "no task"
NoObject == "no object"

ASSUME TaskAssumption ==
    /\ Loop \notin Tasks /\ NoTask \notin Tasks
    /\ NoObject \notin Streams \cup Others
    /\ Streams \cap Others = {} /\ MaxCalls \in Nat

VARIABLES
    registry,   \* Core.internal.sessions
    callbacks,  \* the objects with a data, multi-path or timeout callback
    streaming,  \* the objects whose session.streaming is TRUE
    processing, \* Core.internal.fb_processing
    enabled,    \* Core.internal.stream_loop_task_enable
    handle,     \* Core.internal.stream_task_handle
    token,      \* config->signer.tokens: ready, expired or being refreshed
    killed,     \* history: a task has been deleted by another's, or its own, call
    pc, obj,    \* of each task: where it is and which object it uses
    idx,        \* of each task: mRunStream's index, from 1
    calls       \* the number of calls of the sketch so far

shared == <<registry, callbacks, streaming, processing, enabled, handle, token, killed>>
vars == <<shared, pc, obj, idx, calls>>

Objects == Streams \cup Others
Actors == Tasks \cup {Loop}

\* Where a task can be, in the order of the code: the sketch's loop, a token
\* request, a stream task.
PCs == {"app", "set", "create", "remove", "send", "request", "wait idle", "take",
        "message", "token", "refresh",
        "none", "top", "end", "next", "read", "guard", "open", "wait", "flag", "payload",
        "callback", "nested", "leave", "rest", "exit"}

SharedTypeOK ==
    /\ registry \in Seq(Objects) /\ callbacks \subseteq Streams
    /\ streaming \subseteq Streams
    /\ processing \in BOOLEAN /\ enabled \in BOOLEAN /\ killed \in BOOLEAN
    /\ handle \in Tasks \cup {NoTask} /\ token \in {"ready", "expired", "refresh"}

PlaceTypeOK == pc \in [Actors -> PCs] /\ obj \in [Actors -> Objects \cup {NoObject}]

CountTypeOK == idx \in [Actors -> Nat \ {0}] /\ calls \in 0..MaxCalls

TypeOK == SharedTypeOK /\ PlaceTypeOK /\ CountTypeOK

Init ==
    /\ registry = <<>> /\ callbacks = {} /\ streaming = {}
    /\ processing = FALSE /\ enabled = FALSE /\ handle = NoTask /\ token = "ready"
    /\ killed = FALSE
    /\ pc = [a \in Actors |-> IF a = Loop THEN "app" ELSE "none"]
    /\ obj = [a \in Actors |-> NoObject] /\ idx = [a \in Actors |-> 1]
    /\ calls = 0

-----------------------------------------------------------------------------
(* Helpers *)

Go(a, where) == pc' = [pc EXCEPT ![a] = where]

Registered(o) == \E i \in DOMAIN registry : registry[i] = o

\* FirebaseData::setSession(true, ...): the object leaves the vector.
Unregister(o) ==
    IF Registered(o)
    THEN \E i \in DOMAIN registry : registry[i] = o /\ registry' = RemoveAt(registry, i)
    ELSE UNCHANGED registry

\* FirebaseData::addSession, from setSecure for an object that is not registered.
Register(o) == registry' = IF Registered(o) THEN registry ELSE Append(registry, o)

\* Whom vTaskDelete(handle) deletes.  For the handle of a task that is gone this is
\* undefined: here, whichever stream task has its place now, or none.
Victims == IF pc[handle] = "none"
           THEN {t \in Tasks : pc[t] # "none"} \cup {NoTask}
           ELSE {handle}

\* The end of remove(MultiPath)StreamCallback: once no object is registered, the task
\* of the handle is deleted, wherever it is.  A task that deletes itself does not come
\* back to clear the handle.
DeleteTask(a, where) ==
    \/ /\ registry # <<>> \/ handle = NoTask
       /\ Go(a, where) /\ UNCHANGED <<handle, killed>>
    \/ /\ registry = <<>> /\ handle # NoTask
       /\ \E v \in Victims :
            /\ pc' = [b \in Actors |-> IF b = v THEN "none"
                                      ELSE IF b = a THEN where ELSE pc[b]]
            /\ handle' = IF v = a THEN handle ELSE NoTask
       /\ killed' = TRUE

-----------------------------------------------------------------------------
(* The sketch: its callbacks *)

Call == pc[Loop] = "app" /\ calls < MaxCalls /\ calls' = calls + 1

\* setStreamCallback begins with removeMultiPathStreamCallback.
SetStreamCallback(o) ==
    /\ Call /\ \E t \in Tasks : pc[t] = "none"
    /\ Unregister(o) /\ obj' = [obj EXCEPT ![Loop] = o] /\ Go(Loop, "set")
    /\ UNCHANGED <<callbacks, streaming, processing, enabled, handle, token, killed, idx>>

\* What is left of it: the object is registered and one more task is created.
CreateTask(t) ==
    /\ pc[Loop] = "create" /\ pc[t] = "none"
    /\ callbacks' = callbacks \cup {obj[Loop]} /\ Register(obj[Loop])
    /\ enabled' = TRUE /\ handle' = t
    /\ pc' = [pc EXCEPT ![Loop] = "app", ![t] = "top"]
    /\ UNCHANGED <<streaming, processing, token, killed, obj, idx, calls>>

\* removeStreamCallback, or removeMultiPathStreamCallback.
RemoveStreamCallback(o) ==
    /\ Call
    /\ Unregister(o) /\ callbacks' = callbacks \ {o} /\ Go(Loop, "remove")
    /\ UNCHANGED <<streaming, processing, enabled, handle, token, killed, obj, idx>>

LoopDeletes ==
    /\ \/ pc[Loop] = "set" /\ DeleteTask(Loop, "create")
       \/ pc[Loop] = "remove" /\ DeleteTask(Loop, "app")
    /\ UNCHANGED <<registry, callbacks, streaming, processing, enabled, token, obj, idx,
                   calls>>

\* runStream: the stream tasks end at the start of their next turn, and the sketch
\* traverses the vector itself.
RunStream ==
    /\ Call /\ enabled' = FALSE
    /\ IF token = "ready"
       THEN Go(Loop, "next") /\ idx' = [idx EXCEPT ![Loop] = 1]
       ELSE UNCHANGED <<pc, idx>>
    /\ UNCHANGED <<registry, callbacks, streaming, processing, handle, token, killed, obj>>

-----------------------------------------------------------------------------
(* The sketch: its requests *)

\* Mutant: the flag is not reset after a response.
KeepsFlag(a, where) == Go(a, where) /\ UNCHANGED processing

\* The end of whatever holds the flag.
Release(a, where) == Go(a, where) /\ processing' = FALSE

Hold(a, where) == Go(a, where) /\ processing' = TRUE

\* A request: setSecure registers the object if nothing has.
Request(o) ==
    /\ Call /\ token = "ready"
    /\ Register(o) /\ Go(Loop, "send")
    /\ UNCHANGED <<callbacks, streaming, processing, enabled, handle, token, killed, obj, idx>>

\* waitResponse: the flag is set, whoever has it, and reset.
RequestWait ==
    /\ pc[Loop] = "send" /\ Hold(Loop, "request")
    /\ UNCHANGED <<registry, callbacks, streaming, enabled, handle, token, killed, obj, idx, calls>>

RequestDone ==
    /\ pc[Loop] = "request" /\ Release(Loop, "app")
    /\ UNCHANGED <<registry, callbacks, streaming, enabled, handle, token, killed, obj, idx, calls>>

\* An FCM message waits until the flag is free, for 3 s at most.
Message(o) ==
    /\ Call /\ Register(o) /\ Go(Loop, "wait idle")
    /\ UNCHANGED <<callbacks, streaming, processing, enabled, handle, token, killed, obj, idx>>

\* waitIdle and handleFCMRequest: the time is up, or the flag is found free.
MessageWaited ==
    /\ pc[Loop] = "wait idle" /\ Go(Loop, IF processing THEN "app" ELSE "take")
    /\ UNCHANGED <<shared, obj, idx, calls>>

\* handleFCMRequest takes the flag, which may have been taken since.
MessageTakes ==
    /\ pc[Loop] = "take" /\ Hold(Loop, "message")
    /\ UNCHANGED <<registry, callbacks, streaming, enabled, handle, token, killed, obj, idx, calls>>

\* fcm_send, whatever its result.
MessageDone ==
    /\ pc[Loop] = "message" /\ Release(Loop, "app")
    /\ UNCHANGED <<registry, callbacks, streaming, enabled, handle, token, killed, obj, idx, calls>>

-----------------------------------------------------------------------------
(* Token requests.  The sketch's ready() makes them: mRunStream and tokenReady() return
   on an expired token before they come to one. *)

\* handleToken finds the flag free.
TokenTest ==
    /\ pc[Loop] = "app" /\ token = "expired" /\ ~processing
    /\ Go(Loop, "token")
    /\ UNCHANGED <<shared, obj, idx, calls>>

\* initClient, which sets the flag without looking at it again.
TokenRequest ==
    /\ pc[Loop] = "token" /\ Hold(Loop, "refresh") /\ token' = "refresh"
    /\ UNCHANGED <<registry, callbacks, streaming, enabled, handle, killed, obj, idx, calls>>

\* handleTaskError, which ends every answer; a failed request is made again.
TokenDone ==
    /\ pc[Loop] = "refresh" /\ Release(Loop, "app") /\ token' = "ready"
    /\ UNCHANGED <<registry, callbacks, streaming, enabled, handle, killed, obj, idx, calls>>

Expire ==
    /\ token = "ready" /\ calls < MaxCalls /\ calls' = calls + 1 /\ token' = "expired"
    /\ UNCHANGED <<registry, callbacks, streaming, processing, enabled, handle, killed, pc, obj,
                   idx>>

-----------------------------------------------------------------------------
(* The stream tasks and mRunStream *)

\* The task is told to end.
TaskEnds(t) ==
    /\ pc[t] = "top" /\ ~enabled /\ Go(t, "end")
    /\ UNCHANGED <<shared, obj, idx, calls>>

\* It clears the handle, be it its own or that of a task created since.
TaskEnded(t) ==
    /\ pc[t] = "end" /\ Go(t, "none") /\ handle' = NoTask
    /\ UNCHANGED <<registry, callbacks, streaming, processing, enabled, token, killed, obj,
                   idx, calls>>

\* Where a traversal starts and ends.
Start(a) == IF a = Loop THEN "app" ELSE "top"

\* Mutant: the index starts at 0.
TaskTurnFromZero(t) ==
    /\ pc[t] = "top" /\ enabled /\ token = "ready"
    /\ Go(t, "next") /\ idx' = [idx EXCEPT ![t] = 0]
    /\ UNCHANGED <<shared, obj, calls>>

\* One more traversal of the vector.
TaskTurn(t) ==
    /\ pc[t] = "top" /\ enabled /\ token = "ready"
    /\ Go(t, "next") /\ idx' = [idx EXCEPT ![t] = 1]
    /\ UNCHANGED <<shared, obj, calls>>

\* The next object, if it has a callback, is read.
NextInVector(a) ==
    /\ pc[a] = "next"
    /\ IF idx[a] > Len(registry)
       THEN Go(a, Start(a)) /\ UNCHANGED <<obj, idx>>
       ELSE LET o == registry[idx[a]] IN
            /\ obj' = [obj EXCEPT ![a] = o]
            /\ IF o \in callbacks THEN Go(a, "read") /\ UNCHANGED idx
                                  ELSE UNCHANGED pc /\ idx' = [idx EXCEPT ![a] = @ + 1]
    /\ UNCHANGED <<shared, calls>>

-----------------------------------------------------------------------------
(* handleStreamRead *)

NextObject(a) == Go(a, "next") /\ idx' = [idx EXCEPT ![a] = @ + 1]

\* With an expired token mRunStream returns.
ReadExpired(a) ==
    /\ pc[a] = "read" /\ token # "ready" /\ Go(a, Start(a))
    /\ UNCHANGED <<shared, obj, idx, calls>>

\* "prevent nested calling": the guard is tested.
Read(a) ==
    /\ pc[a] = "read" /\ token = "ready"
    /\ IF obj[a] \in streaming THEN NextObject(a) ELSE Go(a, "guard") /\ UNCHANGED idx
    /\ UNCHANGED <<shared, obj, calls>>

\* It is set, even if another task has set it since; the stream is opened again, or not.
SetGuard(a) ==
    /\ pc[a] = "guard" /\ streaming' = streaming \cup {obj[a]}
    /\ Go(a, "open") \/ Go(a, "wait")
    /\ UNCHANGED <<registry, callbacks, processing, enabled, handle, token, killed, obj, idx,
                   calls>>

\* waitIdle, and the request for the stream.
Open(a) ==
    /\ pc[a] = "open" /\ ~processing /\ Go(a, "wait")
    /\ UNCHANGED <<shared, obj, idx, calls>>

\* The time of waitIdle is up, or the request fails.
OpenFails(a) ==
    /\ pc[a] = "open" /\ Go(a, "exit")
    /\ UNCHANGED <<shared, obj, idx, calls>>

\* waitResponse: "if currently perform stream payload handling process, skip it".
Wait(a) ==
    /\ pc[a] = "wait" /\ Go(a, IF processing THEN "exit" ELSE "flag")
    /\ UNCHANGED <<shared, obj, idx, calls>>

\* The flag is set, even if another task has set it since.
TakeFlag(a) ==
    /\ pc[a] = "flag" /\ Hold(a, "payload")
    /\ UNCHANGED <<registry, callbacks, streaming, enabled, handle, token, killed, obj, idx, calls>>

\* sendCB resets the flag and calls the data callback.
DataCallback(a) ==
    /\ pc[a] = "payload" /\ obj[a] \in callbacks /\ Release(a, "callback")
    /\ UNCHANGED <<registry, callbacks, streaming, enabled, handle, token, killed, obj, idx, calls>>

\* The callback does nothing with Core, or sends a request with another object.
CallbackReturns(a) ==
    /\ pc[a] = "callback"
    /\ \/ Go(a, "rest") /\ UNCHANGED processing
       \/ Hold(a, "nested")
    /\ UNCHANGED <<registry, callbacks, streaming, enabled, handle, token, killed, obj, idx, calls>>

CallbackRequestDone(a) ==
    /\ pc[a] = "nested" /\ Release(a, "rest")
    /\ UNCHANGED <<registry, callbacks, streaming, enabled, handle, token, killed, obj, idx, calls>>

\* The callback removes itself, with which its task may end.
CallbackRemoves(a) ==
    /\ pc[a] = "callback" /\ calls < MaxCalls /\ calls' = calls + 1
    /\ Unregister(obj[a]) /\ callbacks' = callbacks \ {obj[a]} /\ Go(a, "leave")
    /\ UNCHANGED <<streaming, processing, enabled, handle, token, killed, obj, idx>>

CallbackDeletes(a) ==
    /\ pc[a] = "leave" /\ DeleteTask(a, "rest")
    /\ UNCHANGED <<registry, callbacks, streaming, processing, enabled, token, obj, idx,
                   calls>>

\* The end of handleResponse and of waitResponse.
PayloadDone(a) ==
    /\ pc[a] \in {"payload", "rest"} /\ Release(a, "exit")
    /\ UNCHANGED <<registry, callbacks, streaming, enabled, handle, token, killed, obj, idx, calls>>

\* Mutant: the guard stays set.
ExitKeepsGuard(a) ==
    /\ pc[a] = "exit" /\ NextObject(a)
    /\ UNCHANGED <<registry, callbacks, streaming, processing, enabled, handle, token, killed, obj,
                   calls>>

\* exitStream.
Exit(a) ==
    /\ pc[a] = "exit" /\ streaming' = streaming \ {obj[a]} /\ NextObject(a)
    /\ UNCHANGED <<registry, callbacks, processing, enabled, handle, token, killed, obj, calls>>

LoopCalls ==
    \/ \E o \in Streams : SetStreamCallback(o) \/ RemoveStreamCallback(o)
    \/ RunStream
    \/ \E o \in Others : Request(o) \/ Message(o)

LoopSteps ==
    \/ (\E t \in Tasks : CreateTask(t)) \/ LoopDeletes
    \/ RequestWait \/ RequestDone \/ MessageWaited \/ MessageTakes \/ MessageDone

TokenSteps == TokenTest \/ TokenRequest \/ TokenDone

TaskSteps(t) == TaskEnds(t) \/ TaskEnded(t) \/ TaskTurn(t)

ReadSteps(a) ==
    \/ NextInVector(a) \/ ReadExpired(a) \/ Read(a) \/ SetGuard(a)
    \/ Open(a) \/ OpenFails(a) \/ Wait(a) \/ TakeFlag(a)
    \/ DataCallback(a) \/ CallbackReturns(a) \/ CallbackRequestDone(a)
    \/ CallbackRemoves(a) \/ CallbackDeletes(a) \/ PayloadDone(a) \/ Exit(a)

Next ==
    \/ LoopCalls \/ LoopSteps \/ TokenSteps \/ Expire
    \/ \E t \in Tasks : TaskSteps(t)
    \/ \E a \in Actors : ReadSteps(a)

Spec == Init /\ [][Next]_vars

\* Every task runs, the sketch calls ready() again and again, and the server does not
\* refuse a stream for ever.
Fairness ==
    /\ WF_vars(LoopSteps) /\ WF_vars(TokenSteps)
    /\ \A t \in Tasks : WF_vars(TaskSteps(t))
    /\ \A a \in Actors : WF_vars(ReadSteps(a))
    /\ \A o \in Streams : SF_vars(\E a \in Actors : Open(a) /\ obj[a] = o)

-----------------------------------------------------------------------------
(* Properties: of runs in which no task is deleted *)

\* The places at which a task has set the flag and not yet reset it.
Holding == {"request", "message", "refresh", "payload", "nested"}

\* When the flag is set, some task is going to reset it, although a task sets it
\* without looking, or after another has set it, and resets what another has set
\* (waitResponse, handleFCMRequest, initClient, sendCB).
FlagHasHolder == processing /\ ~killed => \E a \in Actors : pc[a] \in Holding

IsReading(a) ==
    pc[a] \in {"open", "wait", "flag", "payload", "callback", "nested", "leave", "rest", "exit"}

\* When a stream's guard is set, some task is reading the stream and going to clear it,
\* although two tasks may set the guard at once, and the first to finish clears it for
\* both (handleStreamRead, exitStream).
GuardHasReader ==
    ~killed => \A o \in streaming : \E a \in Actors : IsReading(a) /\ obj[a] = o

\* At most one stream task exists.
Alone == \A t, u \in Tasks : pc[t] # "none" /\ pc[u] # "none" => t = u

HandlesPayload(o) == \E a \in Actors : pc[a] = "payload" /\ obj[a] = o

\* A stream with a callback is read, up to its payload, again and again, so that a
\* change is seen (src/README.md:2597, "dataAvailablecallback will be called When data
\* in the defined path changed"; mRunStream, handleStreamRead, waitResponse).  Each
\* stream is, where one task reads them; where several do, some stream is, as two
\* tasks may find each other in the way for ever.
KeptReading ==
    /\ \A o \in Streams :
           <>[](o \in callbacks /\ enabled /\ ~killed /\ Alone) => []<>HandlesPayload(o)
    /\ <>[](callbacks # {} /\ enabled /\ ~killed)
           => []<>(\E o \in Streams : HandlesPayload(o))

\* A token that has expired is refreshed, again and again, whatever the stream tasks do
\* with the flag that a token request waits for (handleToken, waitResponse, sendCB).
TokenRefreshed == []<>(token = "ready" \/ killed)

\* What does not hold: one stream is read by one task at a time (handleStreamRead:
\* "prevent nested calling").
OneReader ==
    \A a, b \in Actors : IsReading(a) /\ IsReading(b) /\ obj[a] = obj[b] => a = b

\* The handle, with which vTaskDelete is called, names a task that exists
\* (runStreamTask, removeStreamCallback).
HandleAlive == handle # NoTask => pc[handle] # "none"

\* Two payloads are not handled at a time (waitResponse: "if currently perform stream
\* payload handling process, skip it").
OnePayload ==
    \A a, b \in Actors : pc[a] = "payload" /\ pc[b] = "payload" => a = b

=============================================================================
