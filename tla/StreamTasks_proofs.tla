------------------------- MODULE StreamTasks_proofs -------------------------
(***************************************************************************)
(* Proofs about StreamTasks, for every number of objects, tasks and calls: *)
(* the types; and that, as long as no task has been deleted, the blocking  *)
(* flag has a holder, and a stream's guard a reader.                       *)
(***************************************************************************)
EXTENDS StreamTasks, SequenceLemmas, TLAPS

\* setSession(true) leaves a sequence of objects.
LEMMA UnregisterType ==
  ASSUME registry \in Seq(Objects), NEW o, Unregister(o)
  PROVE  registry' \in Seq(Objects)
<1>1. CASE Registered(o)
  <2>1. PICK k \in 1..Len(registry) : registry' = RemoveAt(registry, k)
    BY <1>1 DEF Unregister
  <2> QED
    BY <2>1, RemoveAtType
<1>2. CASE ~Registered(o)
  BY <1>2 DEF Unregister
<1> QED
  BY <1>1, <1>2

\* addSession leaves a sequence of objects.
LEMMA RegisterType ==
  ASSUME registry \in Seq(Objects), NEW o \in Objects, Register(o)
  PROVE  registry' \in Seq(Objects)
BY DEF Register

\* setStreamCallback is called for a stream.
ChosenObject == pc[Loop] \in {"set", "create"} => obj[Loop] \in Streams

\* What a task reads is a stream.
ReadsStreams ==
    \A a \in Actors : pc[a] \in {"read", "guard"} \/ IsReading(a) => obj[a] \in Streams

\* The inductive invariant behind the types and the guard.
TaskInv == TypeOK /\ ChosenObject /\ ReadsStreams

\* mRunStream reads an object of the vector.
LEMMA VectorObject ==
  ASSUME SharedTypeOK, CountTypeOK, NEW a \in Actors, ~(idx[a] > Len(registry))
  PROVE  registry[idx[a]] \in Objects
<1>1. idx[a] \in Nat \ {0} /\ registry \in Seq(Objects)
  BY DEF SharedTypeOK, CountTypeOK
<1>2. idx[a] \in 1..Len(registry)
  BY <1>1
<1> QED
  BY <1>1, <1>2

\* A call of the sketch is counted within the bound.
LEMMA CallCounted ==
  ASSUME calls \in 0..MaxCalls, Call PROVE calls' \in 0..MaxCalls
BY TaskAssumption DEF Call

\* The sketch's loop is none of the tasks.
LEMMA LoopIsNoTask == Loop \in Actors /\ Loop \notin Tasks /\ NoTask \notin Tasks
                        /\ Streams \cap Others = {} /\ NoObject \notin Streams
                        /\ MaxCalls \in Nat
BY TaskAssumption DEF Actors, Objects

\* What the tasks share keeps its type.
LEMMA SharedTypeStep == TaskInv /\ [Next]_vars => SharedTypeOK'
<1> SUFFICES ASSUME TaskInv, [Next]_vars PROVE SharedTypeOK'
  OBVIOUS
<1> USE LoopIsNoTask DEF TaskInv, TypeOK, SharedTypeOK, PlaceTypeOK, Actors
<1>1. ASSUME NEW o \in Streams, SetStreamCallback(o) PROVE SharedTypeOK'
  <2>1. registry' \in Seq(Objects)
    BY <1>1, UnregisterType DEF SetStreamCallback, Call, Go, Objects
  <2>2. callbacks' \subseteq Streams
    BY <1>1 DEF SetStreamCallback, Call, Go, ChosenObject
  <2> QED
    BY <1>1, <2>1, <2>2 DEF SetStreamCallback, Call, Go, Objects
<1>2. ASSUME NEW t \in Tasks, CreateTask(t) PROVE SharedTypeOK'
  <2>0. obj[Loop] \in Objects
    BY <1>2 DEF CreateTask, ChosenObject, Objects
  <2>1. registry' \in Seq(Objects)
    BY <1>2, <2>0, RegisterType DEF CreateTask
  <2>2. callbacks' \subseteq Streams
    BY <1>2 DEF CreateTask, ChosenObject
  <2> QED
    BY <1>2, <2>1, <2>2 DEF CreateTask, Objects
<1>3. ASSUME NEW o \in Streams, RemoveStreamCallback(o) PROVE SharedTypeOK'
  <2>1. registry' \in Seq(Objects)
    BY <1>3, UnregisterType DEF RemoveStreamCallback, Call, Go, Objects
  <2>2. callbacks' \subseteq Streams
    BY <1>3 DEF RemoveStreamCallback, Call, Go, ChosenObject
  <2> QED
    BY <1>3, <2>1, <2>2 DEF RemoveStreamCallback, Call, Go, Objects
<1>4. CASE LoopDeletes
  BY <1>4 DEF LoopDeletes, DeleteTask, Victims, Go
<1>5. CASE RunStream
  BY <1>5 DEF RunStream, Call, Go
<1>6. ASSUME NEW o \in Others, Request(o) PROVE SharedTypeOK'
  <2>1. registry' \in Seq(Objects)
    BY <1>6, RegisterType DEF Request, Call, Go, Objects
  <2>2. callbacks' \subseteq Streams
    BY <1>6 DEF Request, Call, Go, ChosenObject
  <2> QED
    BY <1>6, <2>1, <2>2 DEF Request, Call, Go, Objects
<1>7. CASE RequestWait
  BY <1>7 DEF RequestWait, Hold, Go
<1>8. CASE RequestDone
  BY <1>8 DEF RequestDone, Release, Go
<1>9. ASSUME NEW o \in Others, Message(o) PROVE SharedTypeOK'
  <2>1. registry' \in Seq(Objects)
    BY <1>9, RegisterType DEF Message, Call, Go, Objects
  <2>2. callbacks' \subseteq Streams
    BY <1>9 DEF Message, Call, Go, ChosenObject
  <2> QED
    BY <1>9, <2>1, <2>2 DEF Message, Call, Go, Objects
<1>10. CASE MessageWaited
  BY <1>10 DEF MessageWaited, shared, Go
<1>11. CASE MessageTakes
  BY <1>11 DEF MessageTakes, Hold, Go
<1>12. CASE MessageDone
  BY <1>12 DEF MessageDone, Release, Go
<1>13. CASE TokenTest
  BY <1>13 DEF TokenTest, shared, Go
<1>14. CASE TokenRequest
  BY <1>14 DEF TokenRequest, Hold, Go
<1>15. CASE TokenDone
  BY <1>15 DEF TokenDone, Release, Go
<1>16. CASE Expire
  BY <1>16 DEF Expire
<1>17. ASSUME NEW t \in Tasks, TaskEnds(t) PROVE SharedTypeOK'
  BY <1>17 DEF TaskEnds, shared, Go
<1>18. ASSUME NEW t \in Tasks, TaskEnded(t) PROVE SharedTypeOK'
  BY <1>18 DEF TaskEnded, Go
<1>19. ASSUME NEW t \in Tasks, TaskTurn(t) PROVE SharedTypeOK'
  BY <1>19 DEF TaskTurn, shared, Go
<1>20. ASSUME NEW a \in Actors, NextInVector(a) PROVE SharedTypeOK'
  <2>1. CASE idx[a] > Len(registry)
    BY <1>20, <2>1 DEF NextInVector, shared, Go, Start
  <2>2. CASE ~(idx[a] > Len(registry))
    <3>1. registry[idx[a]] \in Objects
      BY <2>2, VectorObject
    <3> QED
      BY <1>20, <2>2, <3>1 DEF NextInVector, shared, Go, Start
  <2> QED
    BY <2>1, <2>2
<1>21. ASSUME NEW a \in Actors, ReadExpired(a) PROVE SharedTypeOK'
  BY <1>21 DEF ReadExpired, shared, Go, Start
<1>22. ASSUME NEW a \in Actors, Read(a) PROVE SharedTypeOK'
  BY <1>22 DEF Read, shared, Go, NextObject
<1>23. ASSUME NEW a \in Actors, SetGuard(a) PROVE SharedTypeOK'
  <2>1. streaming' \subseteq Streams
    BY <1>23 DEF SetGuard, Go, ReadsStreams
  <2> QED
    BY <1>23, <2>1 DEF SetGuard, Go
<1>24. ASSUME NEW a \in Actors, Open(a) PROVE SharedTypeOK'
  BY <1>24 DEF Open, shared, Go
<1>25. ASSUME NEW a \in Actors, OpenFails(a) PROVE SharedTypeOK'
  BY <1>25 DEF OpenFails, shared, Go
<1>26. ASSUME NEW a \in Actors, Wait(a) PROVE SharedTypeOK'
  BY <1>26 DEF Wait, shared, Go
<1>27. ASSUME NEW a \in Actors, TakeFlag(a) PROVE SharedTypeOK'
  BY <1>27 DEF TakeFlag, Hold, Go
<1>28. ASSUME NEW a \in Actors, DataCallback(a) PROVE SharedTypeOK'
  BY <1>28 DEF DataCallback, Release, Go
<1>29. ASSUME NEW a \in Actors, CallbackReturns(a) PROVE SharedTypeOK'
  BY <1>29 DEF CallbackReturns, Hold, Go
<1>30. ASSUME NEW a \in Actors, CallbackRequestDone(a) PROVE SharedTypeOK'
  BY <1>30 DEF CallbackRequestDone, Release, Go
<1>31. ASSUME NEW a \in Actors, CallbackRemoves(a) PROVE SharedTypeOK'
  <2>1. registry' \in Seq(Objects)
    BY <1>31, UnregisterType DEF CallbackRemoves
  <2>2. callbacks' \subseteq Streams
    BY <1>31 DEF CallbackRemoves, Go, ChosenObject
  <2> QED
    BY <1>31, <2>1, <2>2 DEF CallbackRemoves, Go, Objects
<1>32. ASSUME NEW a \in Actors, CallbackDeletes(a) PROVE SharedTypeOK'
  BY <1>32 DEF CallbackDeletes, DeleteTask, Victims, Go
<1>33. ASSUME NEW a \in Actors, PayloadDone(a) PROVE SharedTypeOK'
  BY <1>33 DEF PayloadDone, Release, Go
<1>34. ASSUME NEW a \in Actors, Exit(a) PROVE SharedTypeOK'
  BY <1>34 DEF Exit, NextObject, Go
<1>35. CASE UNCHANGED vars
  BY <1>35 DEF vars, shared
<1> QED
  BY <1>1, <1>2, <1>3, <1>4, <1>5, <1>6, <1>7, <1>8, <1>9, <1>10, <1>11,
     <1>12, <1>13, <1>14, <1>15, <1>16, <1>17, <1>18, <1>19, <1>20, <1>21, <1>22,
     <1>23, <1>24, <1>25, <1>26, <1>27, <1>28, <1>29, <1>30, <1>31, <1>32, <1>33,
     <1>34, <1>35
     DEF Next, LoopCalls, LoopSteps, TaskSteps, ReadSteps, TokenSteps

\* The tasks' places and objects keep their types.
LEMMA PlaceTypeStep == TaskInv /\ [Next]_vars => PlaceTypeOK'
<1> SUFFICES ASSUME TaskInv, [Next]_vars PROVE PlaceTypeOK'
  OBVIOUS
<1> USE LoopIsNoTask DEF TaskInv, TypeOK, SharedTypeOK, PlaceTypeOK, CountTypeOK, PCs, Actors
<1>1. ASSUME NEW o \in Streams, SetStreamCallback(o) PROVE PlaceTypeOK'
  BY <1>1 DEF SetStreamCallback, Call, Go, Objects
<1>2. ASSUME NEW t \in Tasks, CreateTask(t) PROVE PlaceTypeOK'
  BY <1>2 DEF CreateTask, Objects
<1>3. ASSUME NEW o \in Streams, RemoveStreamCallback(o) PROVE PlaceTypeOK'
  BY <1>3 DEF RemoveStreamCallback, Call, Go, Objects
<1>4. CASE LoopDeletes
  <2>1. ASSUME NEW w \in {"create", "app"}, DeleteTask(Loop, w) PROVE pc' \in [Actors -> PCs]
    <3>1. CASE Go(Loop, w)
      BY <3>1 DEF Go
    <3>2. ASSUME NEW v, pc' = [b \in Actors |-> IF b = v THEN "none"
                                               ELSE IF b = Loop THEN w ELSE pc[b]]
          PROVE  pc' \in [Actors -> PCs]
      BY <3>2
    <3> QED
      BY <2>1, <3>1, <3>2 DEF DeleteTask
  <2>2. pc' \in [Actors -> PCs] /\ obj' = obj
    BY <1>4, <2>1 DEF LoopDeletes
  <2> QED
    BY <2>2
<1>5. CASE RunStream
  BY <1>5 DEF RunStream, Call, Go
<1>6. ASSUME NEW o \in Others, Request(o) PROVE PlaceTypeOK'
  BY <1>6 DEF Request, Call, Go, Objects
<1>7. CASE RequestWait
  BY <1>7 DEF RequestWait, Hold, Go
<1>8. CASE RequestDone
  BY <1>8 DEF RequestDone, Release, Go
<1>9. ASSUME NEW o \in Others, Message(o) PROVE PlaceTypeOK'
  BY <1>9 DEF Message, Call, Go, Objects
<1>10. CASE MessageWaited
  BY <1>10 DEF MessageWaited, shared, Go
<1>11. CASE MessageTakes
  BY <1>11 DEF MessageTakes, Hold, Go
<1>12. CASE MessageDone
  BY <1>12 DEF MessageDone, Release, Go
<1>13. CASE TokenTest
  BY <1>13 DEF TokenTest, shared, Go
<1>14. CASE TokenRequest
  BY <1>14 DEF TokenRequest, Hold, Go
<1>15. CASE TokenDone
  BY <1>15 DEF TokenDone, Release, Go
<1>16. CASE Expire
  BY <1>16 DEF Expire
<1>17. ASSUME NEW t \in Tasks, TaskEnds(t) PROVE PlaceTypeOK'
  BY <1>17 DEF TaskEnds, shared, Go
<1>18. ASSUME NEW t \in Tasks, TaskEnded(t) PROVE PlaceTypeOK'
  BY <1>18 DEF TaskEnded, Go
<1>19. ASSUME NEW t \in Tasks, TaskTurn(t) PROVE PlaceTypeOK'
  BY <1>19 DEF TaskTurn, shared, Go
<1>20. ASSUME NEW a \in Actors, NextInVector(a) PROVE PlaceTypeOK'
  <2>1. CASE idx[a] > Len(registry)
    BY <1>20, <2>1 DEF NextInVector, shared, Go, Start
  <2>2. CASE ~(idx[a] > Len(registry))
    <3>1. registry[idx[a]] \in Objects
      BY <2>2, VectorObject
    <3> QED
      BY <1>20, <2>2, <3>1 DEF NextInVector, shared, Go, Start
  <2> QED
    BY <2>1, <2>2
<1>21. ASSUME NEW a \in Actors, ReadExpired(a) PROVE PlaceTypeOK'
  BY <1>21 DEF ReadExpired, shared, Go, Start
<1>22. ASSUME NEW a \in Actors, Read(a) PROVE PlaceTypeOK'
  BY <1>22 DEF Read, shared, Go, NextObject
<1>23. ASSUME NEW a \in Actors, SetGuard(a) PROVE PlaceTypeOK'
  BY <1>23 DEF SetGuard, Go
<1>24. ASSUME NEW a \in Actors, Open(a) PROVE PlaceTypeOK'
  BY <1>24 DEF Open, shared, Go
<1>25. ASSUME NEW a \in Actors, OpenFails(a) PROVE PlaceTypeOK'
  BY <1>25 DEF OpenFails, shared, Go
<1>26. ASSUME NEW a \in Actors, Wait(a) PROVE PlaceTypeOK'
  BY <1>26 DEF Wait, shared, Go
<1>27. ASSUME NEW a \in Actors, TakeFlag(a) PROVE PlaceTypeOK'
  BY <1>27 DEF TakeFlag, Hold, Go
<1>28. ASSUME NEW a \in Actors, DataCallback(a) PROVE PlaceTypeOK'
  BY <1>28 DEF DataCallback, Release, Go
<1>29. ASSUME NEW a \in Actors, CallbackReturns(a) PROVE PlaceTypeOK'
  BY <1>29 DEF CallbackReturns, Hold, Go
<1>30. ASSUME NEW a \in Actors, CallbackRequestDone(a) PROVE PlaceTypeOK'
  BY <1>30 DEF CallbackRequestDone, Release, Go
<1>31. ASSUME NEW a \in Actors, CallbackRemoves(a) PROVE PlaceTypeOK'
  BY <1>31 DEF CallbackRemoves, Go
<1>32. ASSUME NEW a \in Actors, CallbackDeletes(a) PROVE PlaceTypeOK'
  BY <1>32 DEF CallbackDeletes, DeleteTask, Victims, Go
<1>33. ASSUME NEW a \in Actors, PayloadDone(a) PROVE PlaceTypeOK'
  BY <1>33 DEF PayloadDone, Release, Go
<1>34. ASSUME NEW a \in Actors, Exit(a) PROVE PlaceTypeOK'
  BY <1>34 DEF Exit, NextObject, Go
<1>35. CASE UNCHANGED vars
  BY <1>35 DEF vars, shared
<1> QED
  BY <1>1, <1>2, <1>3, <1>4, <1>5, <1>6, <1>7, <1>8, <1>9, <1>10, <1>11,
     <1>12, <1>13, <1>14, <1>15, <1>16, <1>17, <1>18, <1>19, <1>20, <1>21, <1>22,
     <1>23, <1>24, <1>25, <1>26, <1>27, <1>28, <1>29, <1>30, <1>31, <1>32, <1>33,
     <1>34, <1>35
     DEF Next, LoopCalls, LoopSteps, TaskSteps, ReadSteps, TokenSteps

\* The indices and the number of calls keep their types.
LEMMA CountTypeStep == TaskInv /\ [Next]_vars => CountTypeOK'
<1> SUFFICES ASSUME TaskInv, [Next]_vars PROVE CountTypeOK'
  OBVIOUS
<1> USE LoopIsNoTask DEF TaskInv, TypeOK, CountTypeOK
<1>1. ASSUME NEW o \in Streams, SetStreamCallback(o) PROVE CountTypeOK'
  BY <1>1 DEF SetStreamCallback, Call, Go
<1>2. ASSUME NEW t \in Tasks, CreateTask(t) PROVE CountTypeOK'
  BY <1>2 DEF CreateTask
<1>3. ASSUME NEW o \in Streams, RemoveStreamCallback(o) PROVE CountTypeOK'
  BY <1>3 DEF RemoveStreamCallback, Call, Go
<1>4. CASE LoopDeletes
  BY <1>4 DEF LoopDeletes, DeleteTask, Victims, Go
<1>5. CASE RunStream
  BY <1>5 DEF RunStream, Call, Go
<1>6. ASSUME NEW o \in Others, Request(o) PROVE CountTypeOK'
  BY <1>6 DEF Request, Call, Go
<1>7. CASE RequestWait
  BY <1>7 DEF RequestWait, Hold, Go
<1>8. CASE RequestDone
  BY <1>8 DEF RequestDone, Release, Go
<1>9. ASSUME NEW o \in Others, Message(o) PROVE CountTypeOK'
  BY <1>9, CallCounted DEF Message, Call, Go
<1>10. CASE MessageWaited
  BY <1>10 DEF MessageWaited, shared, Go
<1>11. CASE MessageTakes
  BY <1>11 DEF MessageTakes, Hold, Go
<1>12. CASE MessageDone
  BY <1>12 DEF MessageDone, Release, Go
<1>13. CASE TokenTest
  BY <1>13 DEF TokenTest, shared, Go
<1>14. CASE TokenRequest
  BY <1>14 DEF TokenRequest, Hold, Go
<1>15. CASE TokenDone
  BY <1>15 DEF TokenDone, Release, Go
<1>16. CASE Expire
  BY <1>16 DEF Expire
<1>17. ASSUME NEW t \in Tasks, TaskEnds(t) PROVE CountTypeOK'
  BY <1>17 DEF TaskEnds, shared, Go
<1>18. ASSUME NEW t \in Tasks, TaskEnded(t) PROVE CountTypeOK'
  BY <1>18 DEF TaskEnded, Go
<1>19. ASSUME NEW t \in Tasks, TaskTurn(t) PROVE CountTypeOK'
  <2>1. t \in Actors /\ idx \in [Actors -> Nat \ {0}]
    BY DEF Actors
  <2>2. idx' = [idx EXCEPT ![t] = 1] /\ calls' = calls
    BY <1>19 DEF TaskTurn, shared, Go
  <2> QED
    BY <2>1, <2>2
<1>20. ASSUME NEW a \in Actors, NextInVector(a) PROVE CountTypeOK'
  BY <1>20 DEF NextInVector, shared, Go, Start
<1>21. ASSUME NEW a \in Actors, ReadExpired(a) PROVE CountTypeOK'
  BY <1>21 DEF ReadExpired, shared, Go, Start
<1>22. ASSUME NEW a \in Actors, Read(a) PROVE CountTypeOK'
  BY <1>22 DEF Read, shared, Go, NextObject
<1>23. ASSUME NEW a \in Actors, SetGuard(a) PROVE CountTypeOK'
  BY <1>23 DEF SetGuard, Go
<1>24. ASSUME NEW a \in Actors, Open(a) PROVE CountTypeOK'
  BY <1>24 DEF Open, shared, Go
<1>25. ASSUME NEW a \in Actors, OpenFails(a) PROVE CountTypeOK'
  BY <1>25 DEF OpenFails, shared, Go
<1>26. ASSUME NEW a \in Actors, Wait(a) PROVE CountTypeOK'
  BY <1>26 DEF Wait, shared, Go
<1>27. ASSUME NEW a \in Actors, TakeFlag(a) PROVE CountTypeOK'
  BY <1>27 DEF TakeFlag, Hold, Go
<1>28. ASSUME NEW a \in Actors, DataCallback(a) PROVE CountTypeOK'
  BY <1>28 DEF DataCallback, Release, Go
<1>29. ASSUME NEW a \in Actors, CallbackReturns(a) PROVE CountTypeOK'
  BY <1>29 DEF CallbackReturns, Hold, Go
<1>30. ASSUME NEW a \in Actors, CallbackRequestDone(a) PROVE CountTypeOK'
  BY <1>30 DEF CallbackRequestDone, Release, Go
<1>31. ASSUME NEW a \in Actors, CallbackRemoves(a) PROVE CountTypeOK'
  BY <1>31 DEF CallbackRemoves, Go
<1>32. ASSUME NEW a \in Actors, CallbackDeletes(a) PROVE CountTypeOK'
  BY <1>32 DEF CallbackDeletes, DeleteTask, Victims, Go
<1>33. ASSUME NEW a \in Actors, PayloadDone(a) PROVE CountTypeOK'
  BY <1>33 DEF PayloadDone, Release, Go
<1>34. ASSUME NEW a \in Actors, Exit(a) PROVE CountTypeOK'
  BY <1>34 DEF Exit, NextObject, Go
<1>35. CASE UNCHANGED vars
  BY <1>35 DEF vars, shared
<1> QED
  BY <1>1, <1>2, <1>3, <1>4, <1>5, <1>6, <1>7, <1>8, <1>9, <1>10, <1>11,
     <1>12, <1>13, <1>14, <1>15, <1>16, <1>17, <1>18, <1>19, <1>20, <1>21, <1>22,
     <1>23, <1>24, <1>25, <1>26, <1>27, <1>28, <1>29, <1>30, <1>31, <1>32, <1>33,
     <1>34, <1>35
     DEF Next, LoopCalls, LoopSteps, TaskSteps, ReadSteps, TokenSteps

\* Every step keeps what the tasks work on.
LEMMA ChosenStep == TaskInv /\ [Next]_vars => ChosenObject' /\ ReadsStreams'
<1> SUFFICES ASSUME TaskInv, [Next]_vars PROVE ChosenObject' /\ ReadsStreams'
  OBVIOUS
<1> USE LoopIsNoTask DEF TaskInv, TypeOK, SharedTypeOK, PlaceTypeOK, Actors, ChosenObject, ReadsStreams
<1>1. ASSUME NEW o \in Streams, SetStreamCallback(o) PROVE ChosenObject' /\ ReadsStreams'
  BY <1>1 DEF SetStreamCallback, Call, Go, IsReading
<1>2. ASSUME NEW t \in Tasks, CreateTask(t) PROVE ChosenObject' /\ ReadsStreams'
  BY <1>2 DEF CreateTask, IsReading
<1>3. ASSUME NEW o \in Streams, RemoveStreamCallback(o) PROVE ChosenObject' /\ ReadsStreams'
  BY <1>3 DEF RemoveStreamCallback, Call, Go, IsReading
<1>4. CASE LoopDeletes
  BY <1>4 DEF LoopDeletes, DeleteTask, Victims, Go, IsReading
<1>5. CASE RunStream
  BY <1>5 DEF RunStream, Call, Go, IsReading
<1>6. ASSUME NEW o \in Others, Request(o) PROVE ChosenObject' /\ ReadsStreams'
  BY <1>6 DEF Request, Call, Go, IsReading
<1>7. CASE RequestWait
  BY <1>7 DEF RequestWait, Hold, Go, IsReading
<1>8. CASE RequestDone
  BY <1>8 DEF RequestDone, Release, Go, IsReading
<1>9. ASSUME NEW o \in Others, Message(o) PROVE ChosenObject' /\ ReadsStreams'
  BY <1>9 DEF Message, Call, Go, IsReading
<1>10. CASE MessageWaited
  BY <1>10 DEF MessageWaited, shared, Go, IsReading
<1>11. CASE MessageTakes
  BY <1>11 DEF MessageTakes, Hold, Go, IsReading
<1>12. CASE MessageDone
  BY <1>12 DEF MessageDone, Release, Go, IsReading
<1>13. CASE TokenTest
  BY <1>13 DEF TokenTest, shared, Go, IsReading
<1>14. CASE TokenRequest
  BY <1>14 DEF TokenRequest, Hold, Go, IsReading
<1>15. CASE TokenDone
  BY <1>15 DEF TokenDone, Release, Go, IsReading
<1>16. CASE Expire
  BY <1>16 DEF Expire, IsReading
<1>17. ASSUME NEW t \in Tasks, TaskEnds(t) PROVE ChosenObject' /\ ReadsStreams'
  BY <1>17 DEF TaskEnds, shared, Go, IsReading
<1>18. ASSUME NEW t \in Tasks, TaskEnded(t) PROVE ChosenObject' /\ ReadsStreams'
  BY <1>18 DEF TaskEnded, Go, IsReading
<1>19. ASSUME NEW t \in Tasks, TaskTurn(t) PROVE ChosenObject' /\ ReadsStreams'
  BY <1>19 DEF TaskTurn, shared, Go, IsReading
<1>20. ASSUME NEW a \in Actors, NextInVector(a) PROVE ChosenObject' /\ ReadsStreams'
  BY <1>20 DEF NextInVector, shared, Go, Start, IsReading
<1>21. ASSUME NEW a \in Actors, ReadExpired(a) PROVE ChosenObject' /\ ReadsStreams'
  BY <1>21 DEF ReadExpired, shared, Go, Start, IsReading
<1>22. ASSUME NEW a \in Actors, Read(a) PROVE ChosenObject' /\ ReadsStreams'
  BY <1>22 DEF Read, shared, Go, NextObject, IsReading
<1>23. ASSUME NEW a \in Actors, SetGuard(a) PROVE ChosenObject' /\ ReadsStreams'
  BY <1>23 DEF SetGuard, Go, IsReading
<1>24. ASSUME NEW a \in Actors, Open(a) PROVE ChosenObject' /\ ReadsStreams'
  BY <1>24 DEF Open, shared, Go, IsReading
<1>25. ASSUME NEW a \in Actors, OpenFails(a) PROVE ChosenObject' /\ ReadsStreams'
  BY <1>25 DEF OpenFails, shared, Go, IsReading
<1>26. ASSUME NEW a \in Actors, Wait(a) PROVE ChosenObject' /\ ReadsStreams'
  BY <1>26 DEF Wait, shared, Go, IsReading
<1>27. ASSUME NEW a \in Actors, TakeFlag(a) PROVE ChosenObject' /\ ReadsStreams'
  BY <1>27 DEF TakeFlag, Hold, Go, IsReading
<1>28. ASSUME NEW a \in Actors, DataCallback(a) PROVE ChosenObject' /\ ReadsStreams'
  BY <1>28 DEF DataCallback, Release, Go, IsReading
<1>29. ASSUME NEW a \in Actors, CallbackReturns(a) PROVE ChosenObject' /\ ReadsStreams'
  BY <1>29 DEF CallbackReturns, Hold, Go, IsReading
<1>30. ASSUME NEW a \in Actors, CallbackRequestDone(a) PROVE ChosenObject' /\ ReadsStreams'
  BY <1>30 DEF CallbackRequestDone, Release, Go, IsReading
<1>31. ASSUME NEW a \in Actors, CallbackRemoves(a) PROVE ChosenObject' /\ ReadsStreams'
  BY <1>31 DEF CallbackRemoves, Go, IsReading
<1>32. ASSUME NEW a \in Actors, CallbackDeletes(a) PROVE ChosenObject' /\ ReadsStreams'
  BY <1>32 DEF CallbackDeletes, DeleteTask, Victims, Go, IsReading
<1>33. ASSUME NEW a \in Actors, PayloadDone(a) PROVE ChosenObject' /\ ReadsStreams'
  BY <1>33 DEF PayloadDone, Release, Go, IsReading
<1>34. ASSUME NEW a \in Actors, Exit(a) PROVE ChosenObject' /\ ReadsStreams'
  BY <1>34 DEF Exit, NextObject, Go, IsReading
<1>35. CASE UNCHANGED vars
  BY <1>35 DEF vars, shared, IsReading
<1> QED
  BY <1>1, <1>2, <1>3, <1>4, <1>5, <1>6, <1>7, <1>8, <1>9, <1>10, <1>11,
     <1>12, <1>13, <1>14, <1>15, <1>16, <1>17, <1>18, <1>19, <1>20, <1>21, <1>22,
     <1>23, <1>24, <1>25, <1>26, <1>27, <1>28, <1>29, <1>30, <1>31, <1>32, <1>33,
     <1>34, <1>35
     DEF Next, LoopCalls, LoopSteps, TaskSteps, ReadSteps, TokenSteps

\* The types, and what the tasks work on, hold in every state.
LEMMA TaskInvariant == Spec => []TaskInv
<1>1. Init => TaskInv
  <2> SUFFICES ASSUME Init PROVE TaskInv
    OBVIOUS
  <2>1. SharedTypeOK
    <3>1. <<>> \in Seq(Objects)
      OBVIOUS
    <3> QED
      BY <3>1 DEF Init, SharedTypeOK
  <2>2. PlaceTypeOK
    BY DEF Init, PlaceTypeOK, PCs
  <2>3. CountTypeOK
    BY TaskAssumption DEF Init, CountTypeOK
  <2>4. ChosenObject /\ ReadsStreams
    BY LoopIsNoTask DEF Init, ChosenObject, ReadsStreams, IsReading
  <2> QED
    BY <2>1, <2>2, <2>3, <2>4 DEF TaskInv, TypeOK
<1>2. TaskInv /\ [Next]_vars => TaskInv'
  BY SharedTypeStep, PlaceTypeStep, CountTypeStep, ChosenStep DEF TaskInv, TypeOK
<1> QED
  BY <1>1, <1>2, PTL DEF Spec

\* Every variable keeps its type, however many objects, tasks and calls there are
\* (FB_RTDB.cpp, FB_Session.cpp).
THEOREM TaskTypeCorrect == Spec => []TypeOK
<1>1. TaskInv => TypeOK
  BY DEF TaskInv
<1> QED
  BY <1>1, TaskInvariant, PTL

\* A task that holds the flag resets it before it goes on.
LEMMA FlagStep == TaskInv /\ FlagHasHolder /\ [Next]_vars => FlagHasHolder'
<1> SUFFICES ASSUME TaskInv /\ FlagHasHolder, [Next]_vars PROVE FlagHasHolder'
  OBVIOUS
<1> USE LoopIsNoTask DEF TaskInv, TypeOK, PlaceTypeOK, FlagHasHolder, Holding, Actors
<1>1. ASSUME NEW o \in Streams, SetStreamCallback(o) PROVE FlagHasHolder'
  BY <1>1 DEF SetStreamCallback, Call, Go
<1>2. ASSUME NEW t \in Tasks, CreateTask(t) PROVE FlagHasHolder'
  BY <1>2 DEF CreateTask
<1>3. ASSUME NEW o \in Streams, RemoveStreamCallback(o) PROVE FlagHasHolder'
  BY <1>3 DEF RemoveStreamCallback, Call, Go
<1>4. CASE LoopDeletes
  BY <1>4 DEF LoopDeletes, DeleteTask, Victims, Go
<1>5. CASE RunStream
  BY <1>5 DEF RunStream, Call, Go
<1>6. ASSUME NEW o \in Others, Request(o) PROVE FlagHasHolder'
  BY <1>6 DEF Request, Call, Go
<1>7. CASE RequestWait
  BY <1>7 DEF RequestWait, Hold, Go
<1>8. CASE RequestDone
  BY <1>8 DEF RequestDone, Release, Go
<1>9. ASSUME NEW o \in Others, Message(o) PROVE FlagHasHolder'
  BY <1>9 DEF Message, Call, Go
<1>10. CASE MessageWaited
  BY <1>10 DEF MessageWaited, shared, Go
<1>11. CASE MessageTakes
  BY <1>11 DEF MessageTakes, Hold, Go
<1>12. CASE MessageDone
  BY <1>12 DEF MessageDone, Release, Go
<1>13. CASE TokenTest
  BY <1>13 DEF TokenTest, shared, Go
<1>14. CASE TokenRequest
  BY <1>14 DEF TokenRequest, Hold, Go
<1>15. CASE TokenDone
  BY <1>15 DEF TokenDone, Release, Go
<1>16. CASE Expire
  BY <1>16 DEF Expire
<1>17. ASSUME NEW t \in Tasks, TaskEnds(t) PROVE FlagHasHolder'
  BY <1>17 DEF TaskEnds, shared, Go
<1>18. ASSUME NEW t \in Tasks, TaskEnded(t) PROVE FlagHasHolder'
  BY <1>18 DEF TaskEnded, Go
<1>19. ASSUME NEW t \in Tasks, TaskTurn(t) PROVE FlagHasHolder'
  BY <1>19 DEF TaskTurn, shared, Go
<1>20. ASSUME NEW a \in Actors, NextInVector(a) PROVE FlagHasHolder'
  BY <1>20 DEF NextInVector, shared, Go, Start
<1>21. ASSUME NEW a \in Actors, ReadExpired(a) PROVE FlagHasHolder'
  BY <1>21 DEF ReadExpired, shared, Go, Start
<1>22. ASSUME NEW a \in Actors, Read(a) PROVE FlagHasHolder'
  BY <1>22 DEF Read, shared, Go, NextObject
<1>23. ASSUME NEW a \in Actors, SetGuard(a) PROVE FlagHasHolder'
  BY <1>23 DEF SetGuard, Go
<1>24. ASSUME NEW a \in Actors, Open(a) PROVE FlagHasHolder'
  BY <1>24 DEF Open, shared, Go
<1>25. ASSUME NEW a \in Actors, OpenFails(a) PROVE FlagHasHolder'
  BY <1>25 DEF OpenFails, shared, Go
<1>26. ASSUME NEW a \in Actors, Wait(a) PROVE FlagHasHolder'
  BY <1>26 DEF Wait, shared, Go
<1>27. ASSUME NEW a \in Actors, TakeFlag(a) PROVE FlagHasHolder'
  BY <1>27 DEF TakeFlag, Hold, Go
<1>28. ASSUME NEW a \in Actors, DataCallback(a) PROVE FlagHasHolder'
  BY <1>28 DEF DataCallback, Release, Go
<1>29. ASSUME NEW a \in Actors, CallbackReturns(a) PROVE FlagHasHolder'
  BY <1>29 DEF CallbackReturns, Hold, Go
<1>30. ASSUME NEW a \in Actors, CallbackRequestDone(a) PROVE FlagHasHolder'
  BY <1>30 DEF CallbackRequestDone, Release, Go
<1>31. ASSUME NEW a \in Actors, CallbackRemoves(a) PROVE FlagHasHolder'
  BY <1>31 DEF CallbackRemoves, Go
<1>32. ASSUME NEW a \in Actors, CallbackDeletes(a) PROVE FlagHasHolder'
  BY <1>32 DEF CallbackDeletes, DeleteTask, Victims, Go
<1>33. ASSUME NEW a \in Actors, PayloadDone(a) PROVE FlagHasHolder'
  BY <1>33 DEF PayloadDone, Release, Go
<1>34. ASSUME NEW a \in Actors, Exit(a) PROVE FlagHasHolder'
  BY <1>34 DEF Exit, NextObject, Go
<1>35. CASE UNCHANGED vars
  BY <1>35 DEF vars, shared
<1> QED
  BY <1>1, <1>2, <1>3, <1>4, <1>5, <1>6, <1>7, <1>8, <1>9, <1>10, <1>11,
     <1>12, <1>13, <1>14, <1>15, <1>16, <1>17, <1>18, <1>19, <1>20, <1>21, <1>22,
     <1>23, <1>24, <1>25, <1>26, <1>27, <1>28, <1>29, <1>30, <1>31, <1>32, <1>33,
     <1>34, <1>35
     DEF Next, LoopCalls, LoopSteps, TaskSteps, ReadSteps, TokenSteps

\* As long as no task has been deleted, a flag that is set is one that some task is
\* going to reset (waitResponse, sendCB, handleFCMRequest, initClient, handleTaskError).
THEOREM FlagHasHolderCorrect == Spec => []FlagHasHolder
<1>1. Init => FlagHasHolder
  BY DEF Init, FlagHasHolder
<1> QED
  BY <1>1, TaskInvariant, FlagStep, PTL DEF Spec

\* A task that reads a stream clears its guard before it goes on.
LEMMA GuardStep == TaskInv /\ GuardHasReader /\ [Next]_vars => GuardHasReader'
<1> SUFFICES ASSUME TaskInv /\ GuardHasReader, [Next]_vars PROVE GuardHasReader'
  OBVIOUS
<1> USE LoopIsNoTask DEF TaskInv, TypeOK, PlaceTypeOK, GuardHasReader, Actors
<1>1. ASSUME NEW o \in Streams, SetStreamCallback(o) PROVE GuardHasReader'
  BY <1>1 DEF SetStreamCallback, Call, Go, IsReading
<1>2. ASSUME NEW t \in Tasks, CreateTask(t) PROVE GuardHasReader'
  BY <1>2 DEF CreateTask, IsReading
<1>3. ASSUME NEW o \in Streams, RemoveStreamCallback(o) PROVE GuardHasReader'
  BY <1>3 DEF RemoveStreamCallback, Call, Go, IsReading
<1>4. CASE LoopDeletes
  BY <1>4 DEF LoopDeletes, DeleteTask, Victims, Go, IsReading
<1>5. CASE RunStream
  BY <1>5 DEF RunStream, Call, Go, IsReading
<1>6. ASSUME NEW o \in Others, Request(o) PROVE GuardHasReader'
  BY <1>6 DEF Request, Call, Go, IsReading
<1>7. CASE RequestWait
  BY <1>7 DEF RequestWait, Hold, Go, IsReading
<1>8. CASE RequestDone
  BY <1>8 DEF RequestDone, Release, Go, IsReading
<1>9. ASSUME NEW o \in Others, Message(o) PROVE GuardHasReader'
  BY <1>9 DEF Message, Call, Go, IsReading
<1>10. CASE MessageWaited
  BY <1>10 DEF MessageWaited, shared, Go, IsReading
<1>11. CASE MessageTakes
  BY <1>11 DEF MessageTakes, Hold, Go, IsReading
<1>12. CASE MessageDone
  BY <1>12 DEF MessageDone, Release, Go, IsReading
<1>13. CASE TokenTest
  BY <1>13 DEF TokenTest, shared, Go, IsReading
<1>14. CASE TokenRequest
  BY <1>14 DEF TokenRequest, Hold, Go, IsReading
<1>15. CASE TokenDone
  BY <1>15 DEF TokenDone, Release, Go, IsReading
<1>16. CASE Expire
  BY <1>16 DEF Expire, IsReading
<1>17. ASSUME NEW t \in Tasks, TaskEnds(t) PROVE GuardHasReader'
  BY <1>17 DEF TaskEnds, shared, Go, IsReading
<1>18. ASSUME NEW t \in Tasks, TaskEnded(t) PROVE GuardHasReader'
  BY <1>18 DEF TaskEnded, Go, IsReading
<1>19. ASSUME NEW t \in Tasks, TaskTurn(t) PROVE GuardHasReader'
  BY <1>19 DEF TaskTurn, shared, Go, IsReading
<1>20. ASSUME NEW a \in Actors, NextInVector(a) PROVE GuardHasReader'
  BY <1>20 DEF NextInVector, shared, Go, Start, IsReading
<1>21. ASSUME NEW a \in Actors, ReadExpired(a) PROVE GuardHasReader'
  BY <1>21 DEF ReadExpired, shared, Go, Start, IsReading
<1>22. ASSUME NEW a \in Actors, Read(a) PROVE GuardHasReader'
  BY <1>22 DEF Read, shared, Go, NextObject, IsReading
<1>23. ASSUME NEW a \in Actors, SetGuard(a) PROVE GuardHasReader'
  BY <1>23 DEF SetGuard, Go, IsReading
<1>24. ASSUME NEW a \in Actors, Open(a) PROVE GuardHasReader'
  BY <1>24 DEF Open, shared, Go, IsReading
<1>25. ASSUME NEW a \in Actors, OpenFails(a) PROVE GuardHasReader'
  BY <1>25 DEF OpenFails, shared, Go, IsReading
<1>26. ASSUME NEW a \in Actors, Wait(a) PROVE GuardHasReader'
  BY <1>26 DEF Wait, shared, Go, IsReading
<1>27. ASSUME NEW a \in Actors, TakeFlag(a) PROVE GuardHasReader'
  BY <1>27 DEF TakeFlag, Hold, Go, IsReading
<1>28. ASSUME NEW a \in Actors, DataCallback(a) PROVE GuardHasReader'
  BY <1>28 DEF DataCallback, Release, Go, IsReading
<1>29. ASSUME NEW a \in Actors, CallbackReturns(a) PROVE GuardHasReader'
  BY <1>29 DEF CallbackReturns, Hold, Go, IsReading
<1>30. ASSUME NEW a \in Actors, CallbackRequestDone(a) PROVE GuardHasReader'
  BY <1>30 DEF CallbackRequestDone, Release, Go, IsReading
<1>31. ASSUME NEW a \in Actors, CallbackRemoves(a) PROVE GuardHasReader'
  BY <1>31 DEF CallbackRemoves, Go, IsReading
<1>32. ASSUME NEW a \in Actors, CallbackDeletes(a) PROVE GuardHasReader'
  BY <1>32 DEF CallbackDeletes, DeleteTask, Victims, Go, IsReading
<1>33. ASSUME NEW a \in Actors, PayloadDone(a) PROVE GuardHasReader'
  BY <1>33 DEF PayloadDone, Release, Go, IsReading
<1>34. ASSUME NEW a \in Actors, Exit(a) PROVE GuardHasReader'
  BY <1>34 DEF Exit, NextObject, Go, IsReading
<1>35. CASE UNCHANGED vars
  BY <1>35 DEF vars, shared, IsReading
<1> QED
  BY <1>1, <1>2, <1>3, <1>4, <1>5, <1>6, <1>7, <1>8, <1>9, <1>10, <1>11,
     <1>12, <1>13, <1>14, <1>15, <1>16, <1>17, <1>18, <1>19, <1>20, <1>21, <1>22,
     <1>23, <1>24, <1>25, <1>26, <1>27, <1>28, <1>29, <1>30, <1>31, <1>32, <1>33,
     <1>34, <1>35
     DEF Next, LoopCalls, LoopSteps, TaskSteps, ReadSteps, TokenSteps

\* As long as no task has been deleted, a stream whose guard is set is one that some task
\* is reading and going to clear, however many tasks have set it (handleStreamRead,
\* exitStream).
THEOREM GuardHasReaderCorrect == Spec => []GuardHasReader
<1>1. Init => GuardHasReader
  BY DEF Init, GuardHasReader
<1> QED
  BY <1>1, TaskInvariant, GuardStep, PTL DEF Spec

=============================================================================
