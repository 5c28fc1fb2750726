----------------------------- MODULE ErrorQueue -----------------------------
(***************************************************************************)
(* The error queue of one FirebaseData object: rtdb/FB_RTDB.cpp's          *)
(* processRequest, addQueueData, processErrorQueue, the save and restore   *)
(* of the queue as a file, and rtdb/QueueManager.cpp.                      *)
(*                                                                         *)
(* One thread issues the operations and runs processErrorQueue (called by  *)
(* the sketch, or scheduled by beginAutoRunErrorQueue on ESP8266).  The    *)
(* network goes up and down between the checks of a request; a restart     *)
(* loses the queue and keeps the file.                                     *)
(*                                                                         *)
(* An operation is a model value.  The auth token is valid throughout, and *)
(* preRequestCheck's argument checks pass: what is left of it is           *)
(* tokenReady(), which answers FALSE while the network is down unless a    *)
(* legacy token or the test mode makes it return early.                    *)
(***************************************************************************)
EXTENDS Naturals, SequencesExt

CONSTANTS
    Ops,          \* the operations the sketch issues, each at most once
    Reads,        \* those that read (http_get)
    Large,        \* those whose payload is longer than max_blob_size
    IDs,          \* the range of random() in addQueue
    MaxRetry,     \* setMaxRetry's argument
    DefaultQueue, \* QueueManager's initial _maxQueue
    Sizes,        \* setMaxErrorQueue's arguments
    TokenAuth,    \* FALSE with a legacy token or in test mode
    Outages,      \* whether the network can go down
    MaxLen,       \* bound on the queue, for repeated restores
    MaxRestarts   \* bound on the number of restarts

NoOp == "none"

ASSUME QueueAssumption ==
    /\ NoOp \notin Ops /\ Reads \subseteq Ops /\ Large \subseteq Ops \ Reads
    /\ IDs # {} /\ IDs \subseteq Nat \ {0}
    /\ MaxRetry \in 0..255 /\ DefaultQueue \in 0..255 /\ Sizes \subseteq 0..255
    /\ TokenAuth \in BOOLEAN /\ Outages \in BOOLEAN
    /\ MaxLen \in Nat /\ MaxRestarts \in Nat

VARIABLES
    queue,        \* _queueCollection: the operations and their qIDs
    maxQueue,     \* _maxQueue
    queueID,      \* session.rtdb.queue_ID
    file,         \* the operations in the saved file
    \* the operation under way
    pc,           \* where the thread is; "app" is the sketch's own code
    caller,       \* who issued it: "sketch" or "process" (processErrorQueue)
    op, tries, errors,
    i,            \* processErrorQueue's index, from 1
    \* the sketch and the world
    issued,       \* the operations the sketch has issued
    reported,     \* the queue ID the sketch read after each, 0 if none
    delivered,    \* the operations the server has performed
    netUp, restarts

reqVars == <<pc, caller, op, tries, errors, i>>
appVars == <<issued, reported>>
vars == <<queue, maxQueue, queueID, file, reqVars, appVars, delivered, netUp, restarts>>

Items == [op : Ops, id : IDs \cup {0}]

QueueTypeOK ==
    /\ queue \in Seq(Items) /\ maxQueue \in 0..255
    /\ queueID \in IDs \cup {0} /\ file \in Seq(Ops)

RequestTypeOK ==
    /\ pc \in {"app", "check", "connect", "attempt", "next", "ok", "failed"}
    /\ caller \in {"sketch", "process"} /\ op \in Ops \cup {NoOp}
    /\ tries \in Nat /\ errors \in 0..tries /\ i \in Nat \ {0}

WorldTypeOK ==
    /\ issued \subseteq Ops /\ reported \in [Ops -> IDs \cup {0}]
    /\ delivered \subseteq Ops
    /\ netUp \in BOOLEAN /\ restarts \in 0..MaxRestarts

TypeOK == QueueTypeOK /\ RequestTypeOK /\ WorldTypeOK

Init ==
    /\ queue = <<>> /\ maxQueue = DefaultQueue /\ queueID = 0 /\ file = <<>>
    /\ pc = "app" /\ caller = "sketch" /\ op = NoOp
    /\ tries = 0 /\ errors = 0 /\ i = 1
    /\ issued = {} /\ reported = [o \in Ops |-> 0] /\ delivered = {}
    /\ netUp \in BOOLEAN /\ (~Outages => netUp) /\ restarts = 0

-----------------------------------------------------------------------------
(* Helpers *)

\* isErrorQueueExisted, for an operation instead of its ID.
Queued(o) == \E n \in DOMAIN queue : queue[n].op = o

\* FirebaseData::tokenReady, for a token that is valid.
TokenReady == netUp \/ ~TokenAuth

\* setMaxRetry(0) still makes one attempt, whose error is not counted.
Attempts == IF MaxRetry > 0 THEN MaxRetry ELSE 1

\* Mutant: a full queue drops its oldest item.
EvictOldest(o) ==
    IF o \notin Large
    THEN \E id \in IDs : /\ queue' = Append(IF Len(queue) < maxQueue \/ queue = <<>>
                                            THEN queue ELSE Tail(queue),
                                            [op |-> o, id |-> id])
                         /\ queueID' = id
    ELSE UNCHANGED <<queue, queueID>>

\* addQueueData, addQueue and QueueManager::add.  No caller passes queue = true
\* to buildRequest, so that the requests of processErrorQueue are queued again.
AddQueue(o) ==
    IF Len(queue) < maxQueue /\ o \notin Large
    THEN \E id \in IDs : /\ queue' = Append(queue, [op |-> o, id |-> id])
                         /\ queueID' = id
    ELSE UNCHANGED <<queue, queueID>>

\* Mutant: the error count is not reset for the next operation.
ReturnKeepsErrors(ok) ==
    /\ tries' = 0 /\ UNCHANGED errors
    /\ IF caller = "sketch"
       THEN /\ pc' = "app" /\ op' = NoOp
            /\ reported' = [reported EXCEPT ![op] = IF ok THEN 0 ELSE queueID']
       ELSE pc' = (IF ok THEN "ok" ELSE "failed") /\ UNCHANGED <<op, reported>>

\* processRequest returns: to the sketch, which reads getErrorQueueID() if the
\* operation failed, or to processErrorQueue.
Return(ok) ==
    /\ tries' = 0 /\ errors' = 0
    /\ IF caller = "sketch"
       THEN /\ pc' = "app" /\ op' = NoOp
            /\ reported' = [reported EXCEPT ![op] = IF ok THEN 0 ELSE queueID']
       ELSE pc' = (IF ok THEN "ok" ELSE "failed") /\ UNCHANGED <<op, reported>>

-----------------------------------------------------------------------------
(* One operation: processRequest *)

StartRequest(o, who) ==
    /\ pc' = "check" /\ caller' = who /\ op' = o

\* The sketch issues an operation.
Call(o) ==
    /\ pc = "app" /\ o \notin issued
    /\ issued' = issued \cup {o}
    /\ StartRequest(o, "sketch")
    /\ UNCHANGED <<queue, maxQueue, queueID, file, tries, errors, i, reported,
                   delivered, netUp, restarts>>

\* preRequestCheck: the token must be ready.
Check ==
    /\ pc = "check"
    /\ UNCHANGED queueID
    /\ IF TokenReady THEN pc' = "connect" /\ UNCHANGED <<op, tries, errors, reported>>
                     ELSE Return(FALSE)
    /\ UNCHANGED <<queue, maxQueue, file, caller, i, issued, delivered, netUp, restarts>>

\* reconnect(): an operation that is not a read is queued if the network is down.
ConnectOrQueue ==
    /\ pc = "connect"
    /\ IF netUp \/ op \in Reads
       THEN /\ queueID' = 0 /\ pc' = "attempt"
            /\ UNCHANGED <<queue, op, tries, errors, reported>>
       ELSE AddQueue(op) /\ Return(FALSE)
    /\ UNCHANGED <<maxQueue, file, caller, i, issued, delivered, netUp, restarts>>

\* handleRequest succeeds.
AttemptSucceeds ==
    /\ pc = "attempt" /\ netUp
    /\ delivered' = delivered \cup {op}
    /\ UNCHANGED queueID /\ Return(TRUE)
    /\ UNCHANGED <<queue, maxQueue, file, caller, i, issued, netUp, restarts>>

\* The end of a failed attempt: the next one, or, when every attempt was a
\* connection error, the queue.
AttemptFails(connectionError) ==
    LET count == errors + (IF connectionError /\ MaxRetry > 0 THEN 1 ELSE 0) IN
    IF tries + 1 < Attempts
    THEN /\ tries' = tries + 1 /\ errors' = count
         /\ UNCHANGED <<queue, queueID, pc, op, reported>>
    ELSE /\ IF count = Attempts /\ maxQueue > 0 THEN AddQueue(op)
                                               ELSE UNCHANGED <<queue, queueID>>
         /\ Return(FALSE)

\* handleRequest: the token is not ready, or the server refuses the operation.
AttemptRefused ==
    /\ pc = "attempt" /\ (netUp \/ ~TokenReady)
    /\ AttemptFails(FALSE)
    /\ UNCHANGED <<maxQueue, file, caller, i, issued, delivered, netUp, restarts>>

\* handleRequest: the connection is lost before the operation is performed, or
\* after it, before its answer arrives.
AttemptLost ==
    /\ pc = "attempt" /\ TokenReady
    /\ AttemptFails(TRUE)
    /\ delivered' \in {delivered} \cup (IF netUp THEN {delivered \cup {op}} ELSE {})
    /\ UNCHANGED <<maxQueue, file, caller, i, issued, netUp, restarts>>

-----------------------------------------------------------------------------
(* processErrorQueue *)

\* Nothing is done while the network is down.
ProcessErrorQueue ==
    /\ pc = "app" /\ netUp /\ queue # <<>>
    /\ pc' = "next"
    /\ UNCHANGED <<queue, maxQueue, queueID, file, caller, op, tries, errors, i,
                   appVars, delivered, netUp, restarts>>

\* Mutant: the last item is not looked at.
ProcessAllButLast ==
    /\ pc = "next"
    /\ IF i >= Len(queue)
       THEN pc' = "app" /\ i' = 1 /\ caller' = "sketch" /\ op' = NoOp /\ UNCHANGED queue
       ELSE IF queue[i].id = 0
       THEN queue' = RemoveAt(queue, i) /\ i' = i + 1 /\ UNCHANGED <<pc, caller, op>>
       ELSE StartRequest(queue[i].op, "process") /\ UNCHANGED <<queue, i>>
    /\ UNCHANGED <<maxQueue, queueID, file, tries, errors, appVars, delivered,
                   netUp, restarts>>

\* The loop: an item without a qID is removed, and the item that takes its place
\* is skipped; any other is requested again.
ProcessNext ==
    /\ pc = "next"
    /\ IF i > Len(queue)
       THEN pc' = "app" /\ i' = 1 /\ caller' = "sketch" /\ op' = NoOp /\ UNCHANGED queue
       ELSE IF queue[i].id = 0
       THEN queue' = RemoveAt(queue, i) /\ i' = i + 1 /\ UNCHANGED <<pc, caller, op>>
       ELSE StartRequest(queue[i].op, "process") /\ UNCHANGED <<queue, i>>
    /\ UNCHANGED <<maxQueue, queueID, file, tries, errors, appVars, delivered,
                   netUp, restarts>>

\* Mutant: an item is removed whether or not its request succeeded.
RemoveAlways ==
    /\ pc \in {"ok", "failed"} /\ pc' = "next" /\ i' = i + 1
    /\ queue' = RemoveAt(queue, i)
    /\ UNCHANGED <<maxQueue, queueID, file, caller, op, tries, errors, appVars,
                   delivered, netUp, restarts>>

\* The item is removed if its request succeeded.
ProcessResult ==
    /\ pc \in {"ok", "failed"} /\ pc' = "next" /\ i' = i + 1
    /\ queue' = IF pc = "ok" THEN RemoveAt(queue, i) ELSE queue
    /\ UNCHANGED <<maxQueue, queueID, file, caller, op, tries, errors, appVars,
                   delivered, netUp, restarts>>

-----------------------------------------------------------------------------
(* The other calls of the sketch *)

\* The device restarts: the file is all that is left.
Restart ==
    /\ restarts < MaxRestarts /\ restarts' = restarts + 1
    /\ queue' = <<>> /\ maxQueue' = DefaultQueue /\ queueID' = 0
    /\ pc' = "app" /\ caller' = "sketch" /\ op' = NoOp
    /\ tries' = 0 /\ errors' = 0 /\ i' = 1
    /\ reported' = [o \in Ops |-> 0]
    /\ UNCHANGED <<file, issued, delivered, netUp>>

\* setMaxErrorQueue: its loop clears copies of the items beyond the new size.  With
\* size 0 the uint8_t index goes from 0 to 255, where at() throws and the device
\* restarts.
SetMaxErrorQueue(num) ==
    /\ pc = "app" /\ maxQueue # num
    /\ IF num = 0 /\ queue # <<>>
       THEN Restart
       ELSE /\ maxQueue' = num
            /\ UNCHANGED <<queue, queueID, file, reqVars, appVars, delivered, netUp,
                           restarts>>

\* saveErrorQueue: everything but the qIDs.
SaveErrorQueue ==
    /\ pc = "app"
    /\ file' = [n \in DOMAIN queue |-> queue[n].op]
    /\ UNCHANGED <<queue, maxQueue, queueID, reqVars, appVars, delivered, netUp, restarts>>

\* restoreErrorQueue appends the items whatever the maximum, with qID 0; the
\* sketch then deletes the file.
RestoreErrorQueue ==
    /\ pc = "app" /\ file # <<>> /\ Len(queue) + Len(file) <= MaxLen
    /\ queue' = queue \o [n \in DOMAIN file |-> [op |-> file[n], id |-> 0]]
    /\ file' \in {file, <<>>}
    /\ UNCHANGED <<maxQueue, queueID, reqVars, appVars, delivered, netUp, restarts>>

-----------------------------------------------------------------------------
(* The environment *)

Network ==
    /\ netUp' = ~netUp /\ (netUp => Outages)
    /\ UNCHANGED <<queue, maxQueue, queueID, file, reqVars, appVars, delivered, restarts>>

Operation == Check \/ ConnectOrQueue \/ AttemptSucceeds \/ AttemptRefused \/ AttemptLost

Next ==
    \/ \E o \in Ops : Call(o)
    \/ Operation
    \/ ProcessErrorQueue \/ ProcessNext \/ ProcessResult
    \/ \E num \in Sizes : SetMaxErrorQueue(num)
    \/ SaveErrorQueue \/ RestoreErrorQueue
    \/ Network \/ Restart

Spec == Init /\ [][Next]_vars

\* The thread runs and the sketch, or the scheduler, keeps processing the queue.
Fairness ==
    WF_vars(Operation \/ ProcessNext \/ ProcessResult) /\ WF_vars(ProcessErrorQueue)

-----------------------------------------------------------------------------
(* Properties *)

\* While processErrorQueue's request for an item is under way, and when remove(i)
\* follows, the item is still the one at the index (processErrorQueue).
RemovesItsItem ==
    pc \in {"check", "connect", "attempt", "ok", "failed"} /\ caller = "process"
        => i <= Len(queue) /\ queue[i].op = op

\* A failed operation that was given a queue ID leaves the queue only once the
\* server has performed it (processErrorQueue removes what has succeeded).
KeptUntilDelivered ==
    [][\A n \in DOMAIN queue :
         queue[n].id # 0 /\ queue[n].op \notin delivered /\ restarts' = restarts
             => queue[n] \in ToSet(queue')]_vars

-----------------------------------------------------------------------------
(* What the queue promises *)

\* The operations in the queue under an ID that the server has not performed.
Owed == {o \in Ops \ delivered : \E n \in DOMAIN queue : queue[n].op = o /\ queue[n].id # 0}

Promise == INSTANCE OperationQueue WITH owed <- Owed, performed <- delivered, up <- netUp

\* The queue of items, its index and the requests that processErrorQueue makes
\* again implement OperationQueue: what is owed is forgotten by a restart only, and
\* is performed if the network stays up (processErrorQueue, processRequest; README.md:
\* "Process all failed Firebase operation queue items when network is available").
KeepsPromise == Promise!Spec

\* The part of it that is about single steps.
StepsKeepPromise == Promise!Init /\ [][Promise!Next]_(Promise!vars)

-----------------------------------------------------------------------------
(* What the documentation says beyond that *)

\* The same for every item of the queue, the restored ones included.
AllKeptUntilDelivered ==
    [][\A n \in DOMAIN queue :
         queue[n].op \notin delivered /\ restarts' = restarts
             => queue[n] \in ToSet(queue')]_vars

\* An operation the sketch was given a queue ID for is in the queue under that ID
\* until it is performed (README.md: "Return Firebase Error Queue ID of last
\* Firebase Error").
ReportedIsQueued ==
    \A o \in Ops : reported[o] # 0 /\ o \notin delivered
        => [op |-> o, id |-> reported[o]] \in ToSet(queue)

\* The sketch's operation ends before it is sent, the network being down.
FailsOffline ==
    /\ pc \in {"check", "connect"} /\ pc' = "app" /\ restarts' = restarts
    /\ caller = "sketch" /\ ~netUp

\* An operation that fails because the network is down is queued if there is
\* room (preRequestCheck: "don't check the network connection here").
OfflineQueued ==
    [][FailsOffline /\ op \notin Reads \cup Large /\ Len(queue) < maxQueue
         => Queued(op)']_vars

=============================================================================
