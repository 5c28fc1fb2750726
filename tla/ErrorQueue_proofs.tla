------------------------- MODULE ErrorQueue_proofs -------------------------
(***************************************************************************)
(* Proofs about ErrorQueue: the types, that processErrorQueue removes the  *)
(* item it has requested, and that no item with a queue ID leaves the      *)
(* queue before the server has performed its operation.                    *)
(***************************************************************************)
EXTENDS ErrorQueue, SequenceLemmas, TLAPS

\* What AddQueue does to the queue: the items already there keep their place.
LEMMA AddQueueEffect ==
  ASSUME QueueTypeOK, NEW o \in Ops, AddQueue(o)
  PROVE  /\ queue' \in Seq(Items) /\ queueID' \in IDs \cup {0}
         /\ \A n \in 1..Len(queue) : n \in 1..Len(queue') /\ queue'[n] = queue[n]
<1>1. CASE Len(queue) < maxQueue /\ o \notin Large
  <2>1. PICK id \in IDs : queue' = Append(queue, [op |-> o, id |-> id]) /\ queueID' = id
    BY <1>1 DEF AddQueue
  <2>2. [op |-> o, id |-> id] \in Items
    BY DEF Items
  <2> QED
    BY <2>1, <2>2 DEF QueueTypeOK
<1>2. CASE ~(Len(queue) < maxQueue /\ o \notin Large)
  BY <1>2 DEF AddQueue, QueueTypeOK
<1> QED
  BY <1>1, <1>2

\* What AttemptFails does to the queue, whichever way the attempt failed.
LEMMA AttemptFailsEffect ==
  ASSUME QueueTypeOK, op \in Ops, NEW c \in BOOLEAN, AttemptFails(c)
  PROVE  /\ queue' \in Seq(Items) /\ queueID' \in IDs \cup {0}
         /\ \A n \in 1..Len(queue) : n \in 1..Len(queue') /\ queue'[n] = queue[n]
<1>1. CASE AddQueue(op)
  BY <1>1, AddQueueEffect
<1>2. CASE UNCHANGED <<queue, queueID>>
  BY <1>2 DEF QueueTypeOK
<1> QED
  BY <1>1, <1>2 DEF AttemptFails

\* The operation under way is one of the sketch's.
OpChosen == pc \in {"check", "connect", "attempt", "ok", "failed"} => op \in Ops

\* When a request of processErrorQueue has succeeded, its operation is performed.
OkDelivered ==
    /\ pc \in {"ok", "failed"} => caller = "process"
    /\ pc = "ok" => op \in delivered

\* The inductive invariant.
IInv == TypeOK /\ OpChosen /\ RemovesItsItem /\ OkDelivered

\* The queue and the file keep their types.
LEMMA QueueTypeNext == IInv /\ [Next]_vars => QueueTypeOK'
<1> SUFFICES ASSUME IInv, [Next]_vars PROVE QueueTypeOK'
  OBVIOUS
<1> USE DEF IInv, TypeOK
<1>1. ASSUME NEW o \in Ops, Call(o) PROVE QueueTypeOK'
  BY <1>1 DEF Call, QueueTypeOK
<1>2. CASE Check
  BY <1>2 DEF Check, QueueTypeOK
<1>3. CASE ConnectOrQueue
  <2>1. op \in Ops
    BY <1>3 DEF ConnectOrQueue, OpChosen
  <2>2. CASE netUp \/ op \in Reads
    BY <1>3, <2>2 DEF ConnectOrQueue, QueueTypeOK
  <2>3. CASE ~(netUp \/ op \in Reads)
    BY <1>3, <2>1, <2>3, AddQueueEffect DEF ConnectOrQueue, QueueTypeOK
  <2> QED
    BY <2>2, <2>3
<1>4. CASE AttemptSucceeds
  BY <1>4 DEF AttemptSucceeds, QueueTypeOK
<1>5. CASE AttemptRefused
  <2>1. op \in Ops /\ UNCHANGED <<maxQueue, file>>
    BY <1>5 DEF AttemptRefused, OpChosen
  <2>2. \E c \in BOOLEAN : AttemptFails(c)
    BY <1>5 DEF AttemptRefused
  <2> QED
    BY <2>1, <2>2, AttemptFailsEffect DEF QueueTypeOK
<1>6. CASE AttemptLost
  <2>1. op \in Ops /\ UNCHANGED <<maxQueue, file>>
    BY <1>6 DEF AttemptLost, OpChosen
  <2>2. \E c \in BOOLEAN : AttemptFails(c)
    BY <1>6 DEF AttemptLost
  <2> QED
    BY <2>1, <2>2, AttemptFailsEffect DEF QueueTypeOK
<1>7. CASE ProcessErrorQueue
  BY <1>7 DEF ProcessErrorQueue, QueueTypeOK
<1>8. CASE ProcessNext
  <2>1. CASE i <= Len(queue) /\ queue[i].id = 0
    <3>1. queue' = RemoveAt(queue, i)
      BY <1>8, <2>1 DEF ProcessNext, QueueTypeOK, RequestTypeOK
    <3>2. i \in 1..Len(queue)
      BY <2>1 DEF QueueTypeOK, RequestTypeOK
    <3> QED
      BY <1>8, <3>1, <3>2, RemoveAtType DEF ProcessNext, QueueTypeOK
  <2>2. CASE UNCHANGED queue
    BY <1>8, <2>2 DEF ProcessNext, QueueTypeOK
  <2> QED
    BY <1>8, <2>1, <2>2 DEF ProcessNext, QueueTypeOK, RequestTypeOK
<1>9. CASE ProcessResult
  <2>1. CASE pc = "ok"
    <3>1. i \in 1..Len(queue)
      BY <2>1 DEF RemovesItsItem, OkDelivered, QueueTypeOK, RequestTypeOK
    <3> QED
      BY <1>9, <2>1, <3>1, RemoveAtType DEF ProcessResult, QueueTypeOK
  <2>2. CASE pc # "ok"
    BY <1>9, <2>2 DEF ProcessResult, QueueTypeOK
  <2> QED
    BY <2>1, <2>2
<1>10. ASSUME NEW num \in Sizes, SetMaxErrorQueue(num) PROVE QueueTypeOK'
  <2>1. CASE num = 0 /\ queue # << >>
    BY <1>10, <2>1, QueueAssumption DEF SetMaxErrorQueue, Restart, QueueTypeOK
  <2>2. CASE ~(num = 0 /\ queue # << >>)
    BY <1>10, <2>2, QueueAssumption DEF SetMaxErrorQueue, QueueTypeOK
  <2> QED
    BY <2>1, <2>2
<1>11. CASE SaveErrorQueue
  <2>1. file' \in Seq(Ops)
    <3>1. \A n \in 1..Len(queue) : queue[n] \in Items
      BY DEF QueueTypeOK
    <3>2. \A n \in 1..Len(queue) : queue[n].op \in Ops
      BY <3>1 DEF Items
    <3> QED
      BY <1>11, <3>2 DEF SaveErrorQueue, QueueTypeOK
  <2> QED
    BY <1>11, <2>1 DEF SaveErrorQueue, QueueTypeOK
<1>12. CASE RestoreErrorQueue
  <2> DEFINE restored == [n \in DOMAIN file |-> [op |-> file[n], id |-> 0]]
  <2>1. restored \in Seq(Items)
    <3>1. \A n \in 1..Len(file) : [op |-> file[n], id |-> 0] \in Items
      BY DEF QueueTypeOK, Items
    <3> QED
      BY <3>1 DEF QueueTypeOK
  <2>2. queue \o restored \in Seq(Items)
    BY <2>1, ConcatProperties DEF QueueTypeOK
  <2>3. queue' \in Seq(Items)
    BY <1>12, <2>2 DEF RestoreErrorQueue
  <2>4. file' \in Seq(Ops)
    <3>1. << >> \in Seq(Ops)
      OBVIOUS
    <3>2. file' = file \/ file' = << >>
      BY <1>12 DEF RestoreErrorQueue
    <3> QED
      BY <3>1, <3>2 DEF QueueTypeOK
  <2> QED
    BY <1>12, <2>3, <2>4 DEF RestoreErrorQueue, QueueTypeOK
<1>13. CASE Network
  BY <1>13 DEF Network, QueueTypeOK
<1>14. CASE Restart
  BY <1>14, QueueAssumption DEF Restart, QueueTypeOK
<1>15. CASE UNCHANGED vars
  BY <1>15 DEF vars, reqVars, appVars, QueueTypeOK
<1> QED
  BY <1>1, <1>2, <1>3, <1>4, <1>5, <1>6, <1>7, <1>8, <1>9, <1>10, <1>11, <1>12,
     <1>13, <1>14, <1>15 DEF Next, Operation

\* The operation under way keeps its type.
LEMMA RequestTypeNext == IInv /\ [Next]_vars => RequestTypeOK' /\ OpChosen'
<1> SUFFICES ASSUME IInv, [Next]_vars PROVE RequestTypeOK' /\ OpChosen'
  OBVIOUS
<1> USE DEF IInv, TypeOK
<1>1. ASSUME NEW o \in Ops, Call(o) PROVE RequestTypeOK' /\ OpChosen'
  BY <1>1 DEF Call, RequestTypeOK, StartRequest, Return, OpChosen, reqVars
<1>2. CASE Check
  BY <1>2 DEF Check, RequestTypeOK, StartRequest, Return, OpChosen, reqVars
<1>3. CASE ConnectOrQueue
  BY <1>3 DEF ConnectOrQueue, RequestTypeOK, StartRequest, Return, OpChosen,
     reqVars
<1>4. CASE AttemptSucceeds
  BY <1>4 DEF AttemptSucceeds, RequestTypeOK, StartRequest, Return, OpChosen,
     reqVars
<1>5. CASE AttemptRefused
  <2>1. op \in Ops /\ pc = "attempt" /\ i' = i /\ caller' = caller
    BY <1>5 DEF AttemptRefused, OpChosen
  <2>2. PICK c \in BOOLEAN : AttemptFails(c)
    BY <1>5 DEF AttemptRefused
  <2>3. CASE tries + 1 < Attempts
    BY <2>1, <2>2, <2>3 DEF AttemptFails, RequestTypeOK, OpChosen
  <2>4. CASE ~(tries + 1 < Attempts)
    BY <2>1, <2>2, <2>4 DEF AttemptFails, Return, RequestTypeOK, OpChosen
  <2> QED
    BY <2>3, <2>4
<1>6. CASE AttemptLost
  <2>1. op \in Ops /\ pc = "attempt" /\ i' = i /\ caller' = caller
    BY <1>6 DEF AttemptLost, OpChosen
  <2>2. PICK c \in BOOLEAN : AttemptFails(c)
    BY <1>6 DEF AttemptLost
  <2>3. CASE tries + 1 < Attempts
    BY <2>1, <2>2, <2>3 DEF AttemptFails, RequestTypeOK, OpChosen
  <2>4. CASE ~(tries + 1 < Attempts)
    BY <2>1, <2>2, <2>4 DEF AttemptFails, Return, RequestTypeOK, OpChosen
  <2> QED
    BY <2>3, <2>4
<1>7. CASE ProcessErrorQueue
  BY <1>7 DEF ProcessErrorQueue, RequestTypeOK, StartRequest, Return, OpChosen,
     reqVars
<1>8. CASE ProcessNext
  <2>1. CASE i > Len(queue)
    BY <1>8, <2>1 DEF ProcessNext, RequestTypeOK, OpChosen
  <2>2. CASE ~(i > Len(queue)) /\ queue[i].id = 0
    BY <1>8, <2>2 DEF ProcessNext, RequestTypeOK, OpChosen
  <2>3. CASE ~(i > Len(queue)) /\ queue[i].id # 0
    <3>1. queue[i].op \in Ops
      <4>1. i \in 1..Len(queue)
        BY <2>3 DEF QueueTypeOK, RequestTypeOK
      <4>2. queue[i] \in Items
        BY <4>1 DEF QueueTypeOK
      <4> QED
        BY <4>2 DEF Items
    <3> QED
      BY <1>8, <2>3, <3>1 DEF ProcessNext, StartRequest, RequestTypeOK, OpChosen
  <2> QED
    BY <2>1, <2>2, <2>3
<1>9. CASE ProcessResult
  BY <1>9 DEF ProcessResult, RequestTypeOK, StartRequest, Return, OpChosen,
     reqVars
<1>10. ASSUME NEW num \in Sizes, SetMaxErrorQueue(num) PROVE RequestTypeOK' /\ OpChosen'
  BY <1>10 DEF SetMaxErrorQueue, Restart, RequestTypeOK, StartRequest, Return, OpChosen,
     reqVars
<1>11. CASE SaveErrorQueue
  BY <1>11 DEF SaveErrorQueue, RequestTypeOK, StartRequest, Return, OpChosen,
     reqVars
<1>12. CASE RestoreErrorQueue
  BY <1>12 DEF RestoreErrorQueue, RequestTypeOK, StartRequest, Return, OpChosen,
     reqVars
<1>13. CASE Network
  BY <1>13 DEF Network, RequestTypeOK, StartRequest, Return, OpChosen, reqVars
<1>14. CASE Restart
  BY <1>14 DEF Restart, RequestTypeOK, StartRequest, Return, OpChosen, reqVars
<1>15. CASE UNCHANGED vars
  BY <1>15 DEF vars, reqVars, appVars, RequestTypeOK, StartRequest, Return,
     OpChosen, reqVars
<1> QED
  BY <1>1, <1>2, <1>3, <1>4, <1>5, <1>6, <1>7, <1>8, <1>9, <1>10, <1>11, <1>12,
     <1>13, <1>14, <1>15 DEF Next, Operation

\* What the sketch and the server know keeps its type.
LEMMA WorldTypeNext == IInv /\ [Next]_vars => WorldTypeOK'
<1> SUFFICES ASSUME IInv, [Next]_vars PROVE WorldTypeOK'
  OBVIOUS
<1> USE DEF IInv, TypeOK
<1>1. ASSUME NEW o \in Ops, Call(o) PROVE WorldTypeOK'
  BY <1>1 DEF Call, WorldTypeOK, appVars
<1>2. CASE Check
  <2>1. op \in Ops
    BY <1>2 DEF Check, OpChosen
  <2>2. queueID' \in IDs \cup {0}
    BY <1>2, <2>1 DEF Check, QueueTypeOK
  <2>3. reported' \in [Ops -> IDs \cup {0}]
    BY <1>2, <2>1, <2>2 DEF Check, Return, WorldTypeOK
  <2> QED
    BY <1>2, <2>1, <2>3 DEF Check, WorldTypeOK
<1>3. CASE ConnectOrQueue
  <2>1. op \in Ops
    BY <1>3 DEF ConnectOrQueue, OpChosen
  <2>2. queueID' \in IDs \cup {0}
    BY <1>3, <2>1, AddQueueEffect DEF ConnectOrQueue, QueueTypeOK
  <2>3. reported' \in [Ops -> IDs \cup {0}]
    BY <1>3, <2>1, <2>2 DEF ConnectOrQueue, Return, WorldTypeOK
  <2> QED
    BY <1>3, <2>1, <2>3 DEF ConnectOrQueue, WorldTypeOK
<1>4. CASE AttemptSucceeds
  <2>1. op \in Ops
    BY <1>4 DEF AttemptSucceeds, OpChosen
  <2>2. queueID' \in IDs \cup {0}
    BY <1>4, <2>1 DEF AttemptSucceeds, QueueTypeOK
  <2>3. reported' \in [Ops -> IDs \cup {0}]
    BY <1>4, <2>1, <2>2 DEF AttemptSucceeds, Return, WorldTypeOK
  <2> QED
    BY <1>4, <2>1, <2>3 DEF AttemptSucceeds, WorldTypeOK
<1>5. CASE AttemptRefused
  <2>1. op \in Ops
    BY <1>5 DEF AttemptRefused, OpChosen
  <2>2. PICK c \in BOOLEAN : AttemptFails(c)
    BY <1>5 DEF AttemptRefused
  <2>3. queueID' \in IDs \cup {0}
    BY <2>1, <2>2, AttemptFailsEffect
  <2>4. reported' \in [Ops -> IDs \cup {0}]
    BY <2>1, <2>2, <2>3 DEF AttemptFails, Return, WorldTypeOK
  <2> QED
    BY <1>5, <2>1, <2>4 DEF AttemptRefused, WorldTypeOK
<1>6. CASE AttemptLost
  <2>1. op \in Ops
    BY <1>6 DEF AttemptLost, OpChosen
  <2>2. PICK c \in BOOLEAN : AttemptFails(c)
    BY <1>6 DEF AttemptLost
  <2>3. queueID' \in IDs \cup {0}
    BY <2>1, <2>2, AttemptFailsEffect
  <2>4. reported' \in [Ops -> IDs \cup {0}]
    BY <2>1, <2>2, <2>3 DEF AttemptFails, Return, WorldTypeOK
  <2> QED
    BY <1>6, <2>1, <2>4 DEF AttemptLost, WorldTypeOK
<1>7. CASE ProcessErrorQueue
  BY <1>7 DEF ProcessErrorQueue, WorldTypeOK, appVars
<1>8. CASE ProcessNext
  BY <1>8 DEF ProcessNext, WorldTypeOK, appVars
<1>9. CASE ProcessResult
  BY <1>9 DEF ProcessResult, WorldTypeOK, appVars
<1>10. ASSUME NEW num \in Sizes, SetMaxErrorQueue(num) PROVE WorldTypeOK'
  BY <1>10, QueueAssumption DEF SetMaxErrorQueue, Restart, WorldTypeOK, appVars
<1>11. CASE SaveErrorQueue
  BY <1>11 DEF SaveErrorQueue, WorldTypeOK, appVars
<1>12. CASE RestoreErrorQueue
  BY <1>12 DEF RestoreErrorQueue, WorldTypeOK, appVars
<1>13. CASE Network
  BY <1>13 DEF Network, WorldTypeOK, appVars
<1>14. CASE Restart
  BY <1>14, QueueAssumption DEF Restart, WorldTypeOK
<1>15. CASE UNCHANGED vars
  BY <1>15 DEF vars, reqVars, appVars, WorldTypeOK, appVars
<1> QED
  BY <1>1, <1>2, <1>3, <1>4, <1>5, <1>6, <1>7, <1>8, <1>9, <1>10, <1>11, <1>12,
     <1>13, <1>14, <1>15 DEF Next, Operation

\* processErrorQueue's item stays at its index, and what succeeded is performed.
LEMMA ItemNext == IInv /\ [Next]_vars => RemovesItsItem' /\ OkDelivered'
<1> SUFFICES ASSUME IInv, [Next]_vars PROVE RemovesItsItem' /\ OkDelivered'
  OBVIOUS
<1> USE DEF IInv, TypeOK
<1>1. ASSUME NEW o \in Ops, Call(o) PROVE RemovesItsItem' /\ OkDelivered'
  BY <1>1 DEF Call, RemovesItsItem, OkDelivered, StartRequest, reqVars
<1>2. CASE Check
  BY <1>2 DEF Check, Return, RemovesItsItem, OkDelivered, RequestTypeOK
<1>3. CASE ConnectOrQueue
  <2>1. op \in Ops
    BY <1>3 DEF ConnectOrQueue, OpChosen
  <2>2. CASE netUp \/ op \in Reads
    BY <1>3, <2>2 DEF ConnectOrQueue, RemovesItsItem, OkDelivered
  <2>3. CASE ~(netUp \/ op \in Reads)
    <3>1. \A n \in 1..Len(queue) : n \in 1..Len(queue') /\ queue'[n] = queue[n]
      BY <1>3, <2>1, <2>3, AddQueueEffect DEF ConnectOrQueue
    <3>2. UNCHANGED <<i, caller>> /\ (caller = "process" => op' = op)
      BY <1>3, <2>3 DEF ConnectOrQueue, Return, RequestTypeOK
    <3>3. RemovesItsItem'
      BY <1>3, <2>3, <3>1, <3>2 DEF ConnectOrQueue, Return, RemovesItsItem, QueueTypeOK,
         RequestTypeOK
    <3> QED
      BY <1>3, <2>3, <3>3 DEF ConnectOrQueue, Return, OkDelivered, RequestTypeOK
  <2> QED
    BY <2>2, <2>3
<1>4. CASE AttemptSucceeds
  BY <1>4 DEF AttemptSucceeds, Return, RemovesItsItem, OkDelivered,
     RequestTypeOK
<1>5. CASE AttemptRefused
  <2>1. op \in Ops /\ pc = "attempt" /\ UNCHANGED <<i, caller>>
    BY <1>5 DEF AttemptRefused, OpChosen
  <2>2. PICK c \in BOOLEAN : AttemptFails(c)
    BY <1>5 DEF AttemptRefused
  <2>3. \A n \in 1..Len(queue) : n \in 1..Len(queue') /\ queue'[n] = queue[n]
    BY <2>1, <2>2, AttemptFailsEffect
  <2>4. /\ caller = "process" => op' = op
        /\ pc' \in {"app", "attempt", "failed"}
        /\ caller = "sketch" => pc' # "failed"
    BY <2>1, <2>2 DEF AttemptFails, Return
  <2>5. RemovesItsItem'
    BY <2>1, <2>3, <2>4 DEF RemovesItsItem, QueueTypeOK, RequestTypeOK
  <2> QED
    BY <2>1, <2>4, <2>5 DEF OkDelivered, RequestTypeOK
<1>6. CASE AttemptLost
  <2>1. op \in Ops /\ pc = "attempt" /\ UNCHANGED <<i, caller>>
    BY <1>6 DEF AttemptLost, OpChosen
  <2>2. PICK c \in BOOLEAN : AttemptFails(c)
    BY <1>6 DEF AttemptLost
  <2>3. \A n \in 1..Len(queue) : n \in 1..Len(queue') /\ queue'[n] = queue[n]
    BY <2>1, <2>2, AttemptFailsEffect
  <2>4. /\ caller = "process" => op' = op
        /\ pc' \in {"app", "attempt", "failed"}
        /\ caller = "sketch" => pc' # "failed"
    BY <2>1, <2>2 DEF AttemptFails, Return
  <2>5. RemovesItsItem'
    BY <2>1, <2>3, <2>4 DEF RemovesItsItem, QueueTypeOK, RequestTypeOK
  <2> QED
    BY <2>1, <2>4, <2>5 DEF OkDelivered, RequestTypeOK
<1>7. CASE ProcessErrorQueue
  BY <1>7 DEF ProcessErrorQueue, RemovesItsItem, OkDelivered, StartRequest,
     reqVars
<1>8. CASE ProcessNext
  <2>1. CASE i > Len(queue)
    BY <1>8, <2>1 DEF ProcessNext, RemovesItsItem, OkDelivered
  <2>2. CASE ~(i > Len(queue)) /\ queue[i].id = 0
    BY <1>8, <2>2 DEF ProcessNext, RemovesItsItem, OkDelivered
  <2>3. CASE ~(i > Len(queue)) /\ queue[i].id # 0
    BY <1>8, <2>3 DEF ProcessNext, StartRequest, RemovesItsItem, OkDelivered, QueueTypeOK,
       RequestTypeOK
  <2> QED
    BY <2>1, <2>2, <2>3
<1>9. CASE ProcessResult
  BY <1>9 DEF ProcessResult, RemovesItsItem, OkDelivered, StartRequest, reqVars
<1>10. ASSUME NEW num \in Sizes, SetMaxErrorQueue(num) PROVE RemovesItsItem' /\ OkDelivered'
  BY <1>10 DEF SetMaxErrorQueue, Restart, RemovesItsItem, OkDelivered, StartRequest,
     reqVars
<1>11. CASE SaveErrorQueue
  BY <1>11 DEF SaveErrorQueue, RemovesItsItem, OkDelivered, StartRequest,
     reqVars
<1>12. CASE RestoreErrorQueue
  BY <1>12 DEF RestoreErrorQueue, RemovesItsItem, OkDelivered, StartRequest,
     reqVars
<1>13. CASE Network
  BY <1>13 DEF Network, RemovesItsItem, OkDelivered, StartRequest, reqVars
<1>14. CASE Restart
  BY <1>14 DEF Restart, RemovesItsItem, OkDelivered, StartRequest, reqVars
<1>15. CASE UNCHANGED vars
  BY <1>15 DEF vars, reqVars, appVars, RemovesItsItem, OkDelivered,
     StartRequest, reqVars
<1> QED
  BY <1>1, <1>2, <1>3, <1>4, <1>5, <1>6, <1>7, <1>8, <1>9, <1>10, <1>11, <1>12,
     <1>13, <1>14, <1>15 DEF Next, Operation

\* The inductive invariant holds initially.
LEMMA InitInv == Init => IInv
<1> SUFFICES ASSUME Init PROVE IInv
  OBVIOUS
<1> USE DEF Init
<1>1. QueueTypeOK
  BY QueueAssumption DEF QueueTypeOK
<1>2. RequestTypeOK
  BY DEF RequestTypeOK
<1>3. WorldTypeOK
  BY QueueAssumption DEF WorldTypeOK
<1>4. OpChosen /\ RemovesItsItem /\ OkDelivered
  BY DEF OpChosen, RemovesItsItem, OkDelivered
<1> QED
  BY <1>1, <1>2, <1>3, <1>4 DEF IInv, TypeOK

\* Every reachable state satisfies the inductive invariant.
LEMMA Invariant == Spec => []IInv
<1>1. IInv /\ [Next]_vars => IInv'
  BY QueueTypeNext, RequestTypeNext, WorldTypeNext, ItemNext DEF IInv, TypeOK
<1> QED
  BY InitInv, <1>1, PTL DEF Spec

\* Every variable of the error queue keeps its type.
THEOREM QueueTypeCorrect == Spec => []TypeOK
<1>1. IInv => TypeOK
  BY DEF IInv
<1> QED
  BY Invariant, <1>1, PTL

\* While a request of processErrorQueue is under way, requeueing never moves the
\* item it is for: remove(i) removes that item (processErrorQueue).
THEOREM RemovesItsItemCorrect == Spec => []RemovesItsItem
<1>1. IInv => RemovesItsItem
  BY DEF IInv
<1> QED
  BY Invariant, <1>1, PTL

\* A failed operation that was given a queue ID is only removed from the queue
\* once the server has performed it, however often the requests fail.
THEOREM KeptUntilDeliveredCorrect == Spec => KeptUntilDelivered
<1> DEFINE Kept == \A n \in DOMAIN queue :
                     queue[n].id # 0 /\ queue[n].op \notin delivered /\ restarts' = restarts
                         => queue[n] \in ToSet(queue')
<1>1. IInv /\ [Next]_vars => Kept
  <2> SUFFICES ASSUME IInv, [Next]_vars, NEW n \in DOMAIN queue, queue[n].id # 0,
                      queue[n].op \notin delivered, restarts' = restarts
               PROVE  queue[n] \in ToSet(queue')
    OBVIOUS
  <2> USE DEF IInv, TypeOK
  <2>s. queue' = queue => queue[n] \in ToSet(queue')
    BY DEF ToSet
  <2>1. ASSUME NEW o \in Ops, Call(o) PROVE queue[n] \in ToSet(queue')
    BY <2>1, <2>s DEF Call
  <2>2. CASE Check
    BY <2>2, <2>s DEF Check
  <2>3. CASE ConnectOrQueue
    <3>1. op \in Ops
      BY <2>3 DEF ConnectOrQueue, OpChosen
    <3>2. CASE netUp \/ op \in Reads
      BY <2>3, <3>2, <2>s DEF ConnectOrQueue
    <3>3. CASE ~(netUp \/ op \in Reads)
      <4>1. n \in 1..Len(queue') /\ queue'[n] = queue[n] /\ queue' \in Seq(Items)
        BY <2>3, <3>1, <3>3, AddQueueEffect DEF ConnectOrQueue, QueueTypeOK
      <4> QED
        BY <4>1 DEF ToSet
    <3> QED
      BY <3>2, <3>3
  <2>4. CASE AttemptSucceeds
    BY <2>4, <2>s DEF AttemptSucceeds
  <2>5. CASE AttemptRefused
    <3>1. op \in Ops
      BY <2>5 DEF AttemptRefused, OpChosen
    <3>2. \E c \in BOOLEAN : AttemptFails(c)
      BY <2>5 DEF AttemptRefused
    <3>3. n \in 1..Len(queue') /\ queue'[n] = queue[n] /\ queue' \in Seq(Items)
      BY <3>1, <3>2, AttemptFailsEffect DEF QueueTypeOK
    <3> QED
      BY <3>3 DEF ToSet
  <2>6. CASE AttemptLost
    <3>1. op \in Ops
      BY <2>6 DEF AttemptLost, OpChosen
    <3>2. \E c \in BOOLEAN : AttemptFails(c)
      BY <2>6 DEF AttemptLost
    <3>3. n \in 1..Len(queue') /\ queue'[n] = queue[n] /\ queue' \in Seq(Items)
      BY <3>1, <3>2, AttemptFailsEffect DEF QueueTypeOK
    <3> QED
      BY <3>3 DEF ToSet
  <2>7. CASE ProcessErrorQueue
    BY <2>7, <2>s DEF ProcessErrorQueue
  <2>8. CASE ProcessNext
    <3>1. CASE i <= Len(queue) /\ queue[i].id = 0
      <4>1. queue' = RemoveAt(queue, i) /\ i \in 1..Len(queue) /\ n \in 1..Len(queue)
        BY <2>8, <3>1 DEF ProcessNext, QueueTypeOK, RequestTypeOK
      <4> QED
        BY <3>1, <4>1, RemoveAtKeeps DEF QueueTypeOK
    <3>2. CASE UNCHANGED queue
      BY <3>2, <2>s
    <3> QED
      BY <2>8, <3>1, <3>2 DEF ProcessNext, QueueTypeOK, RequestTypeOK
  <2>9. CASE ProcessResult
    <3>1. CASE pc = "ok"
      <4>1. i \in 1..Len(queue) /\ queue[i].op \in delivered /\ n \in 1..Len(queue)
        BY <3>1 DEF RemovesItsItem, OkDelivered, QueueTypeOK, RequestTypeOK
      <4>2. queue' = RemoveAt(queue, i)
        BY <2>9, <3>1 DEF ProcessResult
      <4> QED
        BY <4>1, <4>2, RemoveAtKeeps DEF QueueTypeOK
    <3>2. CASE pc # "ok"
      BY <2>9, <3>2, <2>s DEF ProcessResult
    <3> QED
      BY <3>1, <3>2
  <2>10. ASSUME NEW num \in Sizes, SetMaxErrorQueue(num) PROVE queue[n] \in ToSet(queue')
    BY <2>10, <2>s DEF SetMaxErrorQueue, Restart, WorldTypeOK
  <2>11. CASE SaveErrorQueue
    BY <2>11, <2>s DEF SaveErrorQueue
  <2>12. CASE RestoreErrorQueue
    <3> DEFINE restored == [m \in DOMAIN file |-> [op |-> file[m], id |-> 0]]
    <3>1. restored \in Seq(Items)
      <4>1. \A m \in 1..Len(file) : [op |-> file[m], id |-> 0] \in Items
        BY DEF QueueTypeOK, Items
      <4> QED
        BY <4>1 DEF QueueTypeOK
    <3>2. queue' = queue \o restored /\ n \in 1..Len(queue)
      BY <2>12 DEF RestoreErrorQueue, QueueTypeOK
    <3> QED
      BY <3>1, <3>2, ConcatKeeps DEF QueueTypeOK
  <2>13. CASE Network
    BY <2>13, <2>s DEF Network
  <2>14. CASE Restart
    BY <2>14 DEF Restart, WorldTypeOK
  <2>15. CASE UNCHANGED vars
    BY <2>15 DEF vars, reqVars, appVars, ToSet
  <2> QED
    BY <2>1, <2>2, <2>3, <2>4, <2>5, <2>6, <2>7, <2>8, <2>9, <2>10, <2>11, <2>12,
       <2>13, <2>14, <2>15 DEF Next, Operation
<1>2. IInv /\ [Next]_vars => [Kept]_vars
  BY <1>1
<1> QED
  BY Invariant, <1>2, PTL DEF Spec, KeptUntilDelivered

-----------------------------------------------------------------------------
(* The queue implements OperationQueue, step by step *)

\* Owed in terms of the set of the queue's items.
LEMMA OwedItems ==
  /\ Owed = {o \in Ops \ delivered : \E x \in ToSet(queue) : x.op = o /\ x.id # 0}
  /\ Owed' = {o \in Ops \ delivered' : \E x \in ToSet(queue') : x.op = o /\ x.id # 0}
BY DEF Owed, ToSet

\* What is owed stays when the items of operations not performed stay.
LEMMA OwedStays ==
  ASSUME delivered' = delivered,
         \A x : x.id # 0 /\ x.op \notin delivered => (x \in ToSet(queue) <=> x \in ToSet(queue'))
  PROVE  Owed' = Owed
BY OwedItems

\* What adding an operation to the queue does to the set of its items.
LEMMA AddQueueItems ==
  ASSUME QueueTypeOK, NEW o \in Ops, AddQueue(o) \/ UNCHANGED <<queue, queueID>>
  PROVE  \/ ToSet(queue') = ToSet(queue)
         \/ \E id \in IDs : id # 0 /\ ToSet(queue') = ToSet(queue) \cup {[op |-> o, id |-> id]}
<1>1. CASE Len(queue) < maxQueue /\ o \notin Large /\ AddQueue(o)
  <2>1. PICK id \in IDs : queue' = Append(queue, [op |-> o, id |-> id])
    BY <1>1 DEF AddQueue
  <2>2. [op |-> o, id |-> id] \in Items /\ id # 0
    BY QueueAssumption DEF Items
  <2>3. ToSet(queue') = ToSet(queue) \cup {[op |-> o, id |-> id]}
    BY <2>1, <2>2, AppendSet DEF QueueTypeOK
  <2> QED
    BY <2>2, <2>3
<1>2. CASE queue' = queue
  BY <1>2
<1> QED
  BY <1>1, <1>2 DEF AddQueue

\* An operation that is queued is accepted, or had been performed.
LEMMA AddedIsAccepted ==
  ASSUME QueueTypeOK, NEW o \in Ops, AddQueue(o) \/ UNCHANGED <<queue, queueID>>,
         UNCHANGED <<delivered, netUp>>
  PROVE  Promise!Accept(o) \/ UNCHANGED (Promise!vars)
<1>1. CASE ToSet(queue') = ToSet(queue)
  <2>1. Owed' = Owed
    BY <1>1, OwedStays
  <2> QED
    BY <2>1 DEF Promise!vars
<1>2. ASSUME NEW id \in IDs, id # 0,
             ToSet(queue') = ToSet(queue) \cup {[op |-> o, id |-> id]}
      PROVE  Promise!Accept(o) \/ UNCHANGED (Promise!vars)
  <2>1. CASE o \in delivered
    <3>1. Owed' = Owed
      BY <1>2, <2>1, OwedItems
    <3> QED
      BY <3>1 DEF Promise!vars
  <2>2. CASE o \notin delivered
    <3>0. \A x : x \in ToSet(queue') <=> x \in ToSet(queue) \/ x = [op |-> o, id |-> id]
      BY <1>2
    <3>1. Owed' = Owed \cup {o}
      <4>1. o \in Owed'
        <5>1. [op |-> o, id |-> id] \in ToSet(queue')
          BY <3>0
        <5>2. [op |-> o, id |-> id].op = o /\ [op |-> o, id |-> id].id # 0
          BY <1>2
        <5>3. o \in Ops \ delivered'
          BY <2>2
        <5> QED
          BY <5>1, <5>2, <5>3, OwedItems
      <4>2. ASSUME NEW p \in Ops, p # o PROVE p \in Owed' <=> p \in Owed
        BY <3>0, <4>2, OwedItems
      <4>3. Owed \subseteq Ops /\ Owed' \subseteq Ops
        BY DEF Owed
      <4> QED
        BY <4>1, <4>2, <4>3
    <3> QED
      BY <2>2, <3>1 DEF Promise!Accept
  <2> QED
    BY <2>1, <2>2
<1> QED
  BY <1>1, <1>2, AddQueueItems

\* An operation that the server performs is owed no more, be it queued again or not.
LEMMA DeliveredIsPerformed ==
  ASSUME QueueTypeOK, NEW o \in Ops, AddQueue(o) \/ UNCHANGED <<queue, queueID>>,
         netUp, netUp' = netUp, delivered' = delivered \cup {o}
  PROVE  Promise!Perform(o)
<1>1. \/ ToSet(queue') = ToSet(queue)
      \/ \E id \in IDs : ToSet(queue') = ToSet(queue) \cup {[op |-> o, id |-> id]}
  BY AddQueueItems
<1>2. Owed' = Owed \ {o}
  BY <1>1, OwedItems
<1> QED
  BY <1>2 DEF Promise!Perform

\* An item that processErrorQueue removes is not owed.
LEMMA RemovedIsNotOwed ==
  ASSUME QueueTypeOK, NEW k \in 1..Len(queue), queue' = RemoveAt(queue, k),
         delivered' = delivered, queue[k].id = 0 \/ queue[k].op \in delivered
  PROVE  Owed' = Owed
<1>1. ToSet(queue') \subseteq ToSet(queue)
  BY RemoveAtAddsNone DEF QueueTypeOK
<1>2. ASSUME NEW x \in ToSet(queue), x.id # 0, x.op \notin delivered
      PROVE  x \in ToSet(queue')
  <2>1. PICK n \in 1..Len(queue) : queue[n] = x
    BY DEF ToSet, QueueTypeOK
  <2>2. n # k
    BY <1>2, <2>1
  <2> QED
    BY <2>1, <2>2, RemoveAtKeeps DEF QueueTypeOK
<1> QED
  BY <1>1, <1>2, OwedStays

\* Every step of the queue is one of OperationQueue, or changes nothing there.
LEMMA PromiseStep == IInv /\ [Next]_vars => [Promise!Next]_(Promise!vars)
<1> SUFFICES ASSUME IInv, [Next]_vars PROVE [Promise!Next]_(Promise!vars)
  OBVIOUS
<1> USE DEF IInv, TypeOK
<1>s. UNCHANGED <<queue, delivered, netUp>> => UNCHANGED (Promise!vars)
  BY OwedStays DEF Promise!vars
<1>f. ASSUME Restart PROVE Promise!Forget
  <2>1. Owed' = {} /\ UNCHANGED <<delivered, netUp>>
    BY <1>f DEF Restart, Owed
  <2> QED
    BY <2>1 DEF Promise!Forget
<1>a. ASSUME NEW c \in BOOLEAN, AttemptFails(c)
      PROVE  AddQueue(op) \/ UNCHANGED <<queue, queueID>>
  BY <1>a DEF AttemptFails
<1>1. ASSUME NEW o \in Ops, Call(o) PROVE UNCHANGED (Promise!vars)
  BY <1>1, <1>s DEF Call
<1>2. CASE Check
  BY <1>2, <1>s DEF Check
<1>3. CASE ConnectOrQueue
  <2>1. op \in Ops
    BY <1>3 DEF ConnectOrQueue, OpChosen
  <2>2. CASE netUp \/ op \in Reads
    BY <1>3, <2>2, <1>s DEF ConnectOrQueue
  <2>3. CASE ~(netUp \/ op \in Reads)
    <3>1. AddQueue(op) /\ UNCHANGED <<delivered, netUp>>
      BY <1>3, <2>3 DEF ConnectOrQueue
    <3> QED
      BY <2>1, <3>1, AddedIsAccepted DEF Promise!Next
  <2> QED
    BY <2>2, <2>3
<1>4. CASE AttemptSucceeds
  <2>1. op \in Ops /\ UNCHANGED <<queue, queueID>> /\ netUp /\ netUp' = netUp
        /\ delivered' = delivered \cup {op}
    BY <1>4 DEF AttemptSucceeds, OpChosen
  <2> QED
    BY <2>1, DeliveredIsPerformed DEF Promise!Next
<1>5. CASE AttemptRefused
  <2>1. op \in Ops /\ UNCHANGED <<delivered, netUp>>
    BY <1>5 DEF AttemptRefused, OpChosen
  <2>2. AddQueue(op) \/ UNCHANGED <<queue, queueID>>
    BY <1>5, <1>a DEF AttemptRefused
  <2> QED
    BY <2>1, <2>2, AddedIsAccepted DEF Promise!Next
<1>6. CASE AttemptLost
  <2>1. op \in Ops /\ netUp' = netUp
    BY <1>6 DEF AttemptLost, OpChosen
  <2>2. AddQueue(op) \/ UNCHANGED <<queue, queueID>>
    BY <1>6, <1>a DEF AttemptLost
  <2>3. CASE delivered' = delivered
    BY <2>1, <2>2, <2>3, AddedIsAccepted DEF Promise!Next
  <2>4. CASE netUp /\ delivered' = delivered \cup {op}
    BY <2>1, <2>2, <2>4, DeliveredIsPerformed DEF Promise!Next
  <2> QED
    BY <1>6, <2>3, <2>4 DEF AttemptLost
<1>7. CASE ProcessErrorQueue
  BY <1>7, <1>s DEF ProcessErrorQueue
<1>8. CASE ProcessNext
  <2>1. UNCHANGED <<delivered, netUp>>
    BY <1>8 DEF ProcessNext
  <2>2. CASE queue' = queue
    BY <2>1, <2>2, <1>s
  <2>3. CASE i \in 1..Len(queue) /\ queue[i].id = 0 /\ queue' = RemoveAt(queue, i)
    BY <2>1, <2>3, RemovedIsNotOwed DEF Promise!vars
  <2>4. i > Len(queue) \/ i \in 1..Len(queue)
    BY DEF QueueTypeOK, RequestTypeOK
  <2> QED
    BY <1>8, <2>2, <2>3, <2>4 DEF ProcessNext
<1>9. CASE ProcessResult
  <2>1. UNCHANGED <<delivered, netUp>>
    BY <1>9 DEF ProcessResult
  <2>2. CASE pc # "ok"
    BY <1>9, <2>1, <2>2, <1>s DEF ProcessResult
  <2>3. CASE pc = "ok"
    <3>1. i \in 1..Len(queue) /\ queue[i].op \in delivered
      BY <2>3 DEF RemovesItsItem, OkDelivered, QueueTypeOK, RequestTypeOK
    <3>2. queue' = RemoveAt(queue, i)
      BY <1>9, <2>3 DEF ProcessResult
    <3> QED
      BY <2>1, <3>1, <3>2, RemovedIsNotOwed DEF Promise!vars
  <2> QED
    BY <2>2, <2>3
<1>10. ASSUME NEW num \in Sizes, SetMaxErrorQueue(num)
       PROVE  Promise!Forget \/ UNCHANGED (Promise!vars)
  BY <1>10, <1>f, <1>s DEF SetMaxErrorQueue
<1>11. CASE SaveErrorQueue
  BY <1>11, <1>s DEF SaveErrorQueue
<1>12. CASE RestoreErrorQueue
  <2> DEFINE restored == [m \in DOMAIN file |-> [op |-> file[m], id |-> 0]]
  <2>1. /\ restored \in Seq(Items) /\ \A x \in ToSet(restored) : x.id = 0
    <3>1. \A m \in 1..Len(file) : [op |-> file[m], id |-> 0] \in Items
      BY DEF QueueTypeOK, Items
    <3> QED
      BY <3>1 DEF QueueTypeOK, ToSet
  <2>2. ToSet(queue') = ToSet(queue) \cup ToSet(restored)
    BY <1>12, <2>1, ConcatSet DEF RestoreErrorQueue, QueueTypeOK
  <2>3. UNCHANGED <<delivered, netUp>>
    BY <1>12 DEF RestoreErrorQueue
  <2> HIDE DEF restored
  <2>4. Owed' = Owed
    BY <2>1, <2>2, <2>3, OwedStays
  <2> QED
    BY <2>3, <2>4 DEF Promise!vars
<1>13. CASE Network
  <2>1. UNCHANGED <<queue, delivered>> /\ netUp' = ~netUp
    BY <1>13 DEF Network
  <2>2. Owed' = Owed
    BY <2>1, OwedStays
  <2> QED
    BY <2>1, <2>2 DEF Promise!Network, Promise!Next
<1>14. CASE Restart
  BY <1>14, <1>f DEF Promise!Next
<1>15. CASE UNCHANGED vars
  BY <1>15, <1>s DEF vars
<1> QED
  BY <1>1, <1>2, <1>3, <1>4, <1>5, <1>6, <1>7, <1>8, <1>9, <1>10, <1>11, <1>12,
     <1>13, <1>14, <1>15 DEF Next, Operation, Promise!Next

\* The error queue implements OperationQueue, for every queue size, number of retries
\* and operations: what it has accepted is owed until the server performs it or the
\* device restarts (processErrorQueue, processRequest, setMaxErrorQueue,
\* mRestoreErrorQueue).
THEOREM StepsKeepPromiseCorrect == Spec => StepsKeepPromise
<1>1. Init => Promise!Init
  <2> SUFFICES ASSUME Init PROVE Promise!Init
    OBVIOUS
  <2>1. Owed = {}
    BY DEF Init, Owed
  <2> QED
    BY <2>1 DEF Init, Promise!Init
<1> QED
  BY <1>1, Invariant, PromiseStep, PTL DEF Spec, StepsKeepPromise

=============================================================================
