# Firebase-ESP32: TLA+ specifications

Firebase-ESP32 is a client library for Google Firebase on ESP32, ESP8266 and
RP2040 boards: it signs a device in, keeps its auth token fresh, reads, writes
and streams the Realtime Database (RTDB), sends Cloud Messaging requests, and
retries operations that the network lost.  The specifications here model its
protocol logic - what is kept between two calls of the sketch, and what a server,
an outage or a restart can do to it.  They leave out what is only formatting or
transport.

Paths below are relative to the library's `src/` directory.

## 1. Inventory

### Components, their state and their operations

| Component | State it keeps | Operations | Calls / is called by |
|---|---|---|---|
| **Token manager**: `core/FirebaseCore.cpp`, `Firebase.cpp` | `config->signer` (step, JWT, flags of assigned tokens), `config->signer.tokens` (status, type, expiry), `internal` (auth and refresh token, `fb_processing`, credential checksums, timers) | `begin`, `ready`, `reset`, `refreshToken`, `setIdToken` / `setAccessToken` / `setCustomToken`; inside: `handleToken`, `tokenProcessingTask`, `createJWT`, `getIdToken`, `requestTokens` | called by the sketch and by every `FirebaseData::tokenReady`; calls the token TCP client and closes sessions |
| **Account management**: `core/FirebaseCore.cpp` | none of its own: it writes the token state | `signUp`, `deleteUser`, `sendEmailVerification`, `sendResetPassword` | the sketch; shares the token TCP client and `fb_processing` |
| **Error queue**: `rtdb/FB_RTDB.cpp`, `rtdb/QueueManager.cpp`, `rtdb/QueueInfo.*` | `_queueCollection`, `_maxQueue`, `session.rtdb.queue_ID`, the saved file | `processErrorQueue`, `setMaxErrorQueue`, `saveErrorQueue`, `restoreErrorQueue`, `getErrorQueueID`, `isErrorQueueExisted`, `clearErrorQueue`, `beginAutoRunErrorQueue`, `endAutoRunErrorQueue` | filled by the request pipeline, and sends through it |
| **RTDB request pipeline**: `rtdb/FB_RTDB.cpp` | `session.rtdb`, `session.response`, `session.con_mode` of a `FirebaseData` | the get / set / push / update / delete calls: `buildRequest`, `processRequest`, `handleRequest`, `waitResponse`, `handleResponse` | token manager, sessions, error queue |
| **RTDB streams**: `rtdb/FB_RTDB.cpp`, `rtdb/stream/` | stream path, timers, callbacks, the stream task | `beginStream`, `readStream`, `setStreamCallback`, `endStream`, `removeStreamCallback` | request pipeline; runs in a FreeRTOS task on ESP32 |
| **Sessions**: `session/FB_Session.cpp` | the registered sessions, each one's TCP client | constructor, `setSession`, `closeSession`, `tokenReady`, `reconnect`, `addQueue` | all of the above |
| **Processing flag**: `internal.fb_processing` | one Boolean for every user of the library | set and cleared by token requests, RTDB responses, FCM | shared by the loop, the stream task and the queue task |
| **FCM**: `message/FCM.cpp` | server key, payload | `send`, `subscribe`, `appInstanceInfo` | token manager, processing flag |
| **JSON**: `json/FirebaseJson.*` | the parsed tree, a search path | `set`, `get`, `remove`, iterators | everyone |
| **HTTP answers**: `FB_Utils.h` (`HttpHelper`) and the loops of FB_RTDB, FB_CM and FirebaseCore | the handler of the answer that is being read | `readLine`, `readStatusLine`, `readHeader`, `readChunkedData`, `readPayload` | request pipeline, FCM, token manager |
| **Files, TCP/SSL, utilities, addons**: `mbfs/`, `client/`, `FB_Utils.h`, `addons/` | open files, sockets | I/O and string helpers | everyone |

`json/`'s parser, BearSSL under `client/SSLClient`, the C++ string class and the
file systems are vendored code.  The `examples/` directory holds sketches: it is
read for how the calls are ordered, never modelled.

### What is hard in this code

* **A state machine cut into steps.**  `ready()` is called over and over.  The
  token's status, its expiry, five timers, six flags of assigned tokens and the
  step of the JWT decide together what one call does.  Each may be left over from
  an earlier sign-in.
* **One in-use flag, many ways out.**  `initClient` sets `fb_processing`; each
  branch that ends a request must clear it, or every later request is refused.
* **Loops that wait.**  `tokenProcessingTask` loops until something succeeds; the
  sketch's own loop, and with it the device, stands still meanwhile.
* **Partial failure.**  An outage between the claim and the connection, an answer
  that is lost after the server acted, a restart between saving and restoring.
* **Indices into a vector that changes.**  `processErrorQueue` removes by index
  after a request that may itself append to the same vector.
* **Several tasks on ESP32.**  The stream task and the queue task call the same
  functions as the sketch's loop, on shared vectors, flags and clients, unlocked.
* **Answers in pieces.**  A response arrives a few bytes at a time, on a connection
  that may still hold the rest of an earlier one; three loops read it in three ways.
* **Two clocks.**  An expiry is stored by a clock that may not be set yet and compared
  with one that is; `millis()` wraps between them.

`PROJECT.json` lists these as hazards, each at its line, with the properties that
would catch them going wrong or the reason why none does yet.

### What makes each component correct

* *Token manager*: `ready()` answers TRUE only with a token, and with the token of
  the credentials in use.  A token is replaced only when it has expired.  A
  request gives the TCP client back however it ends.  An expired
  token is eventually replaced, and the calls return.
* *Account management*: the same, with calls that write the same state.
* *Error queue*: an operation that failed for the network stays queued until the
  server has performed it, and is performed in the end.  The ID handed to the
  sketch names it.
* *Expiry*: a token is neither trusted after its end nor given up long before it, whenever
  the clock is set.
* *Request pipeline*: an answer belongs to the request that was sent; a response
  leaves the connection where the next request can use it.
* *Streams*: a lost stream is resumed and its callback catches up with the data; what
  was parsed was delivered; a stream that works is left alone.
* *Sessions and flag*: whatever several tasks make of the flag and the guards, one that is set
  has a task that will reset it; every stream is read again and again; the token is renewed.

## 2. The modules

| Module | Models | Extends |
|---|---|---|
| `TokenLease` | abstract: what the token manager promises | - |
| `TokenManager` | the token state machine; implements `TokenLease` | `Naturals`, `FiniteSets` |
| `AccountManagement` | the account calls, composed with the token state machine | `TokenManager` |
| `TokenExpiry` | the arithmetic of an expiry and the clock it is compared with | `Integers` |
| `OperationQueue` | abstract: what the error queue promises the sketch | - |
| `ErrorQueue` | the error queue and the request that fills it; implements `OperationQueue` | `Naturals`, `SequencesExt` |
| `StreamSession` | one `FirebaseData` object used as a stream, and the server | `Naturals`, `SequencesExt` |
| `StreamTasks` | the loop and the stream tasks of an ESP32 on what they share | `Naturals`, `SequencesExt` |
| `HttpResponse` | the reading of answers from a kept connection | `Integers`, `SequencesExt`, `FiniteSetsExt` |
| `SequenceLemmas` | facts about sequences that several proofs use | `SequenceTheorems`, `TLAPS` |
| `MC...` | the constants, and the server assumed for liveness, for TLC | the module named |
| `..._proofs` | theorems about `TokenManager`, `AccountManagement`, `TokenExpiry`, `ErrorQueue`, `StreamSession`, `StreamTasks`, `HttpResponse` | the module named, `TLAPS` |

How they fit together: `TokenManager` decides when a token is requested and with
which state; `TokenExpiry` is the number behind its abstract `expires`, and
`AccountManagement` the calls that write the same state.  `ErrorQueue` and
`StreamSession` are two users of the request pipeline that see of the token only whether
`tokenReady()` holds; `HttpResponse` is what one of their attempts does with the
bytes.  `StreamTasks` takes the outcome of a pass of `StreamSession` as given and puts several
of them side by side.

Each module that models code also holds a few operators marked *Mutant*: an
operation as a plausible mistake would have written it.  They are used by nothing.
They record, for every property, a change of the code that the property notices.

### TokenManager

*State.*  `account`, `hasAuth` and `known` are what `begin()` stores: the
credentials, whether `Core.auth` is set, and the two checksums that
`checkAuthTypeChanged` compares.  `flags` holds the Booleans of
`config->signer` that say a token was assigned or a user signed up.  `status`,
`type`, `expires`, `auth` and `refresh` are `config->signer.tokens` and
`internal.auth_token` / `refresh_token`.  `signer` is the JWT's step, issuer and
whether it is signed; `processing` is `internal.fb_processing`; `taskRunning` is
`tokenTaskRunning`.  `pc`, `caller`, `req` and `ret` are the control state
of the one thread.

*Data.*  A token or a JWT is the identity it was issued to: its text is told apart
by nothing else.  `expires` is unset, valid or past - the pre-refresh window and the
time after the expiry take the same branches.  Each `millis()` comparison is one
member of `open`: the interval has elapsed (or the time stamp is 0, which the code
takes for the same).

*Steps.*  A call is cut where it waits or where the network is looked at:
`handle` (`handleToken`), `task` (the head of `tokenProcessingTask`'s loop), `init`
(inside `initClient`, claimed and not connected), `await` (sent, no answer yet),
`taskNet` (the check after a request of the task), `ready` (`tokenReady`'s
reconnect) and `app` (the sketch).  Between two steps the network may go down or up,
a timer may elapse and a token may expire.  Each branch of `handleToken` is an action
`Handle...`, each step of the task an action `Task...`, each outcome of a request an
action: `ConnectFail`, `Connect`, `NoReply`, `Rejected`, `Granted`.

*Abstractions.*  `begin()` is called first, or again with the same credentials, or
(`"switch"`) with others, or with others after `reset()` with nothing requested or
assigned in between (`JustReset`), which is how the sketches change users.  The test mode and
the parsing in `mSetAuthToken` are left out: a token to assign is a record that says
what the parser would find.  Unknown certificates, an external client that was not
initialised and files that cannot be opened are left out.  After a failed exchange the
code compares the clock with the time the task began; the model lets the
comparison have either outcome.  A server may answer, refuse or stay silent, and
it refuses an empty credential (`Grantee = None`) whatever `Replies` says.

*Refinement.*  `TokenLease` leaves out the task, the JWT, the timers, the flags and the status:
the program holds a token under a lease, and at most one request for a new one is under way,
which starts only when the lease is over and ends in the token asked for or in no change at
all.  While the program waits for the library nothing else changes the token.  The mapping: `token` is
`auth`, `lease` is `expires`, `asked` is the owner a granted token would have
(`Grantee`) while `pc` is in `init` or `await` for a token request, and `inside` is
`pc # "app"`.

### AccountManagement

It adds the account calls to `TokenManager`'s `Next`.  They enter through
`InitCall`, which is `FIREBASE_CLASS::init` (it rewrites the configuration before it
looks at anything), use the token manager's `pc` and `req`, and differ from token
requests in the places the code differs: `initClient` with status *uninitialized*
claims nothing, `deleteIdToken` and `handleEmailSending` set the flag only once they
are connected, and a refused mail does not touch the token's status.

### TokenExpiry

*State.*  `expires`, `lastMillis` and `preRefresh` are `config->signer.tokens.expires`
(a 32-bit word), `tokens.last_millis` (in seconds) and `signer.preRefreshSeconds`.
`uptime` is the device's time and `ahead` what the system clock adds to it: 0 at the boot,
`Epoch` once the clock is set, and what `timeBegin()` makes of `millis()` after a
`begin()` with a time zone.  `answer` is what `isExpired()` has just said.  `token` is a
history variable: when the stored token really expires, what the clock showed when it was
stored, and whether one of the cases happened that a property exempts.

*Steps.*  `Tick`, `SetClock`, `BeginTimeZone` move the clocks; `Grant` is the
storing of a server's answer, `Assign` `setIdToken` and its siblings (`mSetAuthToken`
resets the signer first, so that what its `+=` adds to is 0; it leaves `last_millis` and
the pre-refresh interval of the token before), `Forget` whatever clears it, `IsExpired` is `isExpired` with the whole
of `adjustTime`, its shrinking of the pre-refresh interval and the cast to `int`.

*Abstractions.*  The unit is a second, and the truncation of `millis() / 1000` is
left out.  The clock is set to the right time.  A time zone is brought before the clock is
set; afterwards `timeBegin()` would set it back to the uptime.
Legacy tokens and the test mode never expire, and have no place here.

### ErrorQueue and OperationQueue

*State.*  `queue`, `maxQueue`, `queueID` and `file` are `_queueCollection`,
`_maxQueue`, `session.rtdb.queue_ID` and the saved file.  `pc`, `caller`, `op`,
`tries`, `errors` and `i` are the locals of `processRequest` and
`processErrorQueue` (`i` counts from 1).  `issued`, `reported` and `delivered` are
what the sketch asked for, the queue ID it read after each failure, and what the
server has performed; the library does not see the last.

*Steps.*  `processRequest` is `Check` (`preRequestCheck`), `ConnectOrQueue`
(`reconnect`, and the queue when it fails), then up to `Attempts` times one of
`AttemptSucceeds`, `AttemptRefused`, `AttemptLost`.  A lost attempt may or may not have
been performed by the server.  `processErrorQueue` is `ProcessErrorQueue`,
`ProcessNext` and `ProcessResult` around the same request.  `Restart` empties
everything but the file.

*What it implements.*  `OperationQueue` has no queue, no attempts and no index: an
operation that was accepted is *owed* until the server performs it, at least once; it is
forgotten by a restart only; and it is performed if the network stays up.  The mapping is
`owed` := the operations of the items with a queue ID that the server has not performed,
`performed` := `delivered`, `up` := `netUp`.

*Abstractions.*  One thread issues the operations and processes the queue.  An operation
is a model value; an asynchronous one is treated like any other.  The auth token is
valid; `tokenReady()` therefore depends on the network alone, and on nothing with a
legacy token or in test mode (`TokenAuth = FALSE`).  Saving the file is one step
and does not fail.  The queue callback issues no operation.  `clearErrorQueue` has no
action: it clears copies of the items, and changes nothing.  `setMaxErrorQueue` with a
smaller size does the same; with size 0 its `uint8_t` index wraps to 255, `at(255)`
throws, and the device restarts.  The library's default `max_retry` is 0: one attempt
is made and its error is not counted, so that only the check before the first attempt
queues an operation.

### StreamSession

*State.*  Of the session: `mode` (`con_mode`), `paused`, `stopped`, `dataTmo`,
`refused` (an HTTP error was the last answer), `pathChanged` and `seen`, the path
and the 16-bit CRC (`data_crc`) by which `parseStreamPayload` leaves out an event it has
seen.  The constant `Crc` maps a value to the CRC `handlePayload` computes of its text,
after the quotes of a string are off; two values may have one CRC, and then the second
is parsed and not delivered, in the model as in the code.  Of
the timers: `resumeDue`, `aliveDue`, `tmoDue`, and `passes`, the passes since the last
timeout.  `pc`, `caller` and `batch` are the pass under way.  `conn` and `wire`
are the connection and what the server has sent on it; `db` and `delivered` the value at
the stream's path and the one the data callback was given last.

*Steps.*  A pass of `mRunStream` over this object is cut where the network is looked at:
`open` (the request), `wait` (`waitResponse` and the reading), `parse` (one event of
the payload and its callback at a time) and `timeout` (`sendStreamToCB`).  Between two
passes the sketch begins, ends, pauses the stream or uses the object for something else; the
server answers, refuses, sends changes, keep-alives and a revocation; the token expires,
the network goes down and up, a connection dies without notice.

*Abstractions.*  Data and timeout callbacks are set.  Every put has the event path `/`;
the server sends the value when a stream is opened and after each change.  The values are
neither blobs nor files, which the code hands to the callback without comparing them.  The
other texts that are parsed with the object (`NoValue`: the body of an error, the rest of a
cut event, the answer to another request) have the CRC of no value (`OthersDiffer`): if one
had, the callback would miss a change for that reason too.  What is rare
or changes the answer to a property is a member of `Cases`: a text that ends inside an event
that follows a whole one (`cut`), a redirect when a stream is resumed, a read of the root
on the stream's own object, `endStream()` in the callback.

### StreamTasks

*State.*  `registry` is `internal.sessions`, `callbacks` the objects with a stream
callback, `streaming` those whose guard is set, `processing`, `enabled` and `handle` are
`fb_processing`, `stream_loop_task_enable` and `stream_task_handle`, `token` the
token's status.  Each task has a `pc`, an object and `mRunStream`'s index.  `killed` is a
history variable: some call has deleted a task.

*Steps.*  The loop calls `setStreamCallback`, `removeStreamCallback`, `runStream`, sends
requests and messages and renews the token; every stream task traverses the vector, reads the
objects with a callback, calls the callback - which may return, send a request of its own
or remove the stream - and goes on with its index in what is by then another vector.
The test of a flag or of the guard and the assignment that follows are two steps (`Read` and
`SetGuard`, `Wait` and `TakeFlag`, `TokenTest` and `TokenRequest`, `MessageWaited` and `MessageTakes`,
`TaskEnds` and `TaskEnded`), between which any other task may run.  `vTaskDelete` stops the task named
by the handle wherever it is; a task that deletes itself does not come to clear the handle,
and what a later deletion by that handle hits is any task or none (`Victims`).  Only the loop
renews the token: `mRunStream` and `tokenReady` return on an expired one first.

*Abstractions.*  The vector is changed and traversed in single steps: what two tasks make of a
`std::vector` that one erases from while the other reads it is undefined, and left out.  So is a
token that expires between two adjacent tests of its expiry.  The network is up, and a response has
at most one event for the callback.

### HttpResponse

*State.*  `wire` and `inbox` are the pieces (lines, parts of a line, bytes of a body)
that are under way and that have arrived; `open` and `mode` the kept connection and the
reader it was opened for; `handler` is `tcpHandler` with the parsed header;
`code`, `payload` and `ok` are what the call gives back.

*Steps.*  `Send` is a request of one of the readers (`rtdb`, `fcm`, `token`) with
what its loop does to the connection first; the server's answer has one of `Shapes` and may
be cut in the lines of `Cuts`.  `Deliver` lets pieces arrive.  `WaitEnds`,
`ReadStatus`, `ReadHeaderLine`, `ReadBlankLine`, `Redirect`, `BeginBody`,
`ReadByte`, `ReadSize`, `ReadChunk` ... are the turns of the loops, with the differences between the three as
guards; `Timeout` is one of their timeouts.

*Abstractions.*  A timeout may expire whenever its reader has nothing to read.  A body has two
bytes and a chunk one, so that the lines of a chunk are read whole: the `\r` that the end of a longer
chunk can leave in the payload is out of the model's sight.  The token requests' client of its own is closed after every answer, so
that one connection stands for both.

## 3. The runs

Every run is a `.cfg` of the same name.  The states given are the distinct states
TLC finds.

| Run | Module | States | What it asks |
|---|---|---|---|
| `token_service` | `MCTokenManager` | 597 756 | A user, a database secret, an OAuth2 and a custom-token service account, one whose key cannot sign, assigned tokens of five kinds, `begin()` again, `reset()`, `refreshToken()`, outages, every answer, no status callback: `TypeOK`, `ReadyHasToken`, `SignsOwnClaims`, `OnlyExpiredRequested`, `SentRequestReleases`, `AssignedTokenKept`, and the refinement `ImplementsLease` |
| `live_tokens` | `MCTokenManager` | 1 116 | Liveness on a stable network whose answers may be lost: `Renewed`, `CallsReturn` |
| `account_calls` | `MCAccountManagement` | 110 680 | Two users, a database secret, an anonymous one; the account calls interleaved with token handling: `ReadyIsOwnToken` |
| `error_queue` | `MCErrorQueue` | 662 156 | A write and a read, two retries, outages, resizing to 0 and 1, save, restore, one restart: `TypeOK`, `RemovesItsItem`, `KeptUntilDelivered`, and the refinement `KeepsPromise` |
| `stream` | `MCStreamSession` | 76 842 | A stream through disconnections, outages, expiry, pauses and other requests, with values that share a CRC: `SeenIsDelivered`, `ChangesDelivered`, `LiveIsKept`, `Converges` (three of them as far as a CRC tells values apart) |
| `stream_cases` | `MCStreamSession` | 118 208 | The same with all of `Cases`: `TypeOK`, `LiveIsKept`, `Resumes` |
| `tasks` | `MCStreamTasks` | 415 470 | The loop, two stream tasks, two streams and another object, preempted anywhere, up to and beyond a deletion: `TypeOK`, `FlagHasHolder`, `GuardHasReader`, `KeptReading`, `TokenRefreshed` (the last four of runs in which no task is deleted) |
| `response` | `MCHttpResponse` | 724 661 | Answers of every shape, cut anywhere, to FB_RTDB and token requests, one connection lost: `TypeOK`, `OwnAnswer` |
| `response_whole` | `MCHttpResponse` | 19 303 | The three readers, with bodies that are delayed or lost: `WholeBody`, `Returns` |
| `expiry` | `MCTokenExpiry` | 169 463 | Tokens granted and assigned at any time, the clock set or moved at any time, `millis()` that wraps: `TypeOK`, `TrustedAtMost`, `ExpiredAtMostEarly`, `StaysExpired` |
| `outage_hang` | `MCTokenManager` | violation | `RenewedAfterOutage` |
| `restored_dropped` | `MCErrorQueue` | violation | `AllKeptUntilDelivered` |

`CHECK_DEADLOCK FALSE` is given where the bounds stop everything: the disturbances of
`StreamSession`, the calls of `StreamTasks`, the requests of `HttpResponse`.

### Bounds, and why they are enough

*Token runs.*  Nothing in `TokenManager` counts, so its state space is finite without a
bound.  Two identities let a token of the previous sign-in be mistaken for the present one;
a third adds nothing, as only `auth`, `refresh`, `known` and `signer` remember
credentials, and a wrong one differs from `account` whoever it is.  `token_service` has every
kind of credentials, and two service accounts because they share the JWT.

*Error queue.*  `IDs = {1, 2}` lets two items have different or equal IDs, which
`random()` allows.  `DefaultQueue = 2`, `MaxRetry = 2` and `Sizes = {0, 1}` let the queue be
empty, partly full, full, and fuller than its maximum (after a restore or a resize).
`MaxLen = 3` bounds what repeated restores can append; `MaxRestarts = 1` is a save, a
restart and a restore.  Retries of `processErrorQueue` append an operation again,
so one write already gives queues of several items.

*Streams.*  Of the three values two have one CRC, as the string of a number and the number
have, so that a value can be changed, repeated, or changed without its CRC.  `MaxWire = 2` lets an event
follow another in one text, which is what `cut` needs; `MaxFaults = 3` lets a change, a
loss of the connection and a third disturbance fall into one pass.  After the last
disturbance the liveness properties have to hold from wherever the session is.

*Tasks.*  Two stream tasks are the least that can meet in one traversal; `MaxCalls = 3` creates
both and leaves one call to remove, delete or send meanwhile; the registration, the removal and the
creation of another task also fit, so that the vector becomes empty and a task is deleted in
every place it can be in.

*Answers.*  Two requests, so that what is left of one can be read by the next; one lost
connection; one redirect, with a limit of one, so that the limit is reached.

*Expiry.*  The real sizes are scaled (an hour is 10 units, the pre-refresh interval 5, a minute
2, a second's milliseconds 4, the wrap of `millis()` 13) such that their order and the module's
assumptions are kept.  `MaxTime = 17` is longer than a token's life and than a wrap, so that
tokens expire, and the timer wraps, before and after the clock is set.  An interval of 12 is above
the longest that may be assigned, 0 and 1 are the ones for which nothing or almost nothing is stored.  Each
bound in the properties is reached, and none holds without the cases it exempts.

The theorems of section 5 do away with these bounds.  What remains is what the modules themselves
abstract, as the two bytes of a body and the two chunks in `HttpResponse`.

### Fairness

* `TokenManager`: `WF(Library)`, the thread runs: the ESP scheduler does not stop the loop task.
  `WF(CallReady)`, the sketch keeps calling `ready()`; `Firebase.h:233` asks for
  it: "This function should be called repeatedly to handle authentication tasks."
  `WF(Elapse(t))`, time passes.
  `SF(Granted)` and `SF` of a successful clock sync: a server that is asked again
  and again answers at last.  It is an assumption about the world, made only for the
  liveness runs; without it no token could be promised.
* `ErrorQueue`: `WF` of the steps of a request and of the loop, `WF(ProcessErrorQueue)`
  (the sketch, or the scheduled callback on ESP8266, keeps processing the queue), and
  `SF` of `AttemptSucceeds` per operation, the same assumption about the server.
* `StreamSession`: `WF` of `Pass` (the runner), of the keep-alive timer, of the server's answer, of
  the token's renewal (`live_tokens` shows that) and of the end of an outage; `SF(Open)` and
  `SF(ReadEvents)`: not every request is refused and not every text cut.
* `StreamTasks`: `WF` of the steps of each task, as FreeRTOS gives tasks of one priority their
  turns; of the loop's token request, as the sketch calls `ready()`; and `SF` of `Open` per object: a server
  that is asked for a stream again and again grants it at last.
* `HttpResponse`: `WF(Read)`, `WF(Timeout)`, and in `ServedSpec` `WF` of the delivery: a server sends
  the whole of its answer, or closes the connection.
* The network is not fair in `TokenManager` and `ErrorQueue`.  `RenewedAfterOutage` and
  `OperationQueue`'s fairness (`up` is in the action's guard) assume an end of the outages themselves.

## 4. What does not hold

The passing runs show what the library does keep.  Two runs show a place where the
documentation says more than the code does.

* `outage_hang` - `initClient` sets the status and `fb_processing`, then returns FALSE
  when `reconnect` fails (`core/FirebaseCore.cpp:1766`) without `handleTaskError`.
  `getIdToken` refuses every later attempt because the flag is set; the loop of
  `tokenProcessingTask` ends on success only; `ready()` does not return even after
  the network is back.
* `restored_dropped` - restored items have `qID` 0 (`rtdb/FB_RTDB.cpp:978`), and
  `processErrorQueue` removes those unsent.

The next properties or instances were tried and do not hold either.  Those with a name are stated
in their module and belong to no run; the others say why a run has the constants it has.

*Tokens.*

* `ExchangeHasJWT`: after an error answer `requestTokens` sets the step to *encode*, "new
  jwt needed as it is already cleared".  Its caller then overwrites the step with
  *exchange* (`core/FirebaseCore.cpp:775`), and the next call sends the empty JWT.  A refresh of a
  custom token does the same (line 1809).
* `CallReleases`: `deleteIdToken` returns TRUE at line 1574 with the flag set.
* `ReadyHasToken` with the account calls: `deleteUser` empties the token and leaves the
  status *ready* (line 1563).
* `CallsReturn` with a key that cannot sign (line 1310): the task encodes and signs again for ever.
* `ReadyIsOwnToken` with two service accounts: `reset()` keeps the signed JWT.

*Expiry.*

* A token stored while the clock is unset holds the uptime in its expiry.  `adjustTime` adds
  the present time once the clock is set (line 300), so the token is trusted longer by what
  the unset clock showed, less a minute.  `TrustedAtMost` states exactly that excess (`Late`);
  it is none in the first minute after the boot.
* If `millis()` wraps (50 days) before the clock is set, 50 days are missing in what `adjustTime`
  takes off.
* `preRefreshSeconds` becomes 60 for good when a token's expiry is small once (line 304).

*Error queue.*

* `OfflineQueued`: `preRequestCheck` wants to leave the network alone so that failed
  operations reach the queue, but asks `tokenReady()`, which checks it (`rtdb/FB_RTDB.cpp:1887`).  With a
  token that can expire, an operation issued while the network is down is lost unless
  the network goes down between two of the checks.
* `ReportedIsQueued`: an operation that fails in `preRequestCheck` leaves `queue_ID` as the
  previous one set it (line 1515).

*Streams and tasks.*

* `ConvergesToValue`, and `ChangesDelivered` and `SeenIsDelivered` for the values themselves: what
  `handlePayload` compares is a 16-bit CRC of the text without its quotes
  (`rtdb/FB_RTDB.cpp:3086`).  A string of digits that becomes the number, `"true"` that becomes
  `true`, or a collision of two texts, is parsed and not handed to the callback, which
  stays with the old value until a change of the CRC; `src/README.md:2597` says
  "`dataAvailablecallback` will be called When data in the defined path changed".  TLC's shortest
  counterexample is a stream that is opened and one such change.
* `TimeoutReported`: `streamTimeout()` closes the session of a stream that has timed out
  (`session/FB_Session.cpp:494`), which clears the flag it then returns: the timeout callback of
  `runStream` is not called.
* `Converges` with `Cases = {"cut"}`: a payload whose last event is cut is parsed up to the
  cut, and the rest, which comes later, is dropped (`rtdb/FB_RTDB.cpp:2966`): the callback misses
  that value until the next change.
* `SeenIsDelivered`, `ChangesDelivered`, `Converges` with `redirect` or `root`: a redirect, or a
  read of the root with the stream's object, makes the first event after it look unchanged
  (line 3063), and the callback is not called.
* `OneReader`: `handleStreamRead` tests `streaming` and sets it in two statements
  (`rtdb/FB_RTDB.cpp:625` and 628), "prevent nested calling".  TLC's trace: `setStreamCallback`
  creates a task, the sketch calls `runStream`, the task and the loop come to the same object, both find
  its guard clear, and both read it.  The first to finish clears the guard for the other too.
* `KeptReading` for each stream where several tasks read: one may find the flag taken whenever
  it comes to a stream that the other always finds guarded (TLC's trace has two streams and two tasks).
  `KeptReading` therefore promises each stream its turn only where one stream task exists, and some
  stream a turn where there are more.
* `FlagHasHolder`, `GuardHasReader`, `KeptReading` and `TokenRefreshed` after a deletion: when no object
  is registered any more, `removeStreamCallback` deletes the stream task wherever it is (line 3360); the
  guard of the object it was reading and `fb_processing` stay set, and nothing clears them.  The token is then
  never renewed.  All four are stated of runs without a deletion.
* `HandleAlive`: a data callback that removes the only stream deletes its own task; `vTaskDelete` does not
  return, and line 3362 does not clear the handle (lines 800-803 are the same).  The next
  removal that finds no object registered calls `vTaskDelete` with the handle of a task that is gone.
* `OnePayload`: `sendCB` clears the flag for the data callback (line 2757), and the rest of
  the payload is handled without it, so that another task enters its own.  Without a callback, two
  tasks that test the flag at once (line 2215) both take it.

*Answers.*

* `WholeAnswer`: as long as no length is known FB_RTDB's loop takes "nothing has arrived" for the
  end (`rtdb/FB_RTDB.cpp:2295`): a header that arrives in two parts ends it with TRUE and no payload.
  After a redirect the handler is not initialised again, with the same effect.
* `OwnAnswer`, and the whole body, for FCM with a chunked answer: its loop ends when nothing
  has arrived and no length is known, so that it returns TRUE before the body, which the next
  message reads as its own answer (`message/FCM.cpp:912`).
* `Returns` without a server that sends everything: `handleResponse` takes the time anew
  in each of its rounds (`rtdb/FB_RTDB.cpp:2506`), and its timeout never expires.

## 5. The theorems

All are proved for every value of the constants allowed by the modules'
assumptions, by induction over the steps.  TLC never covers that: any number of
accounts and assigned tokens, of operations, retries, queue sizes and restarts, of events,
objects and tasks, of HTTP requests, redirects and lost connections, and any sizes of the
clocks' words.  Every invariant and every action property that a passing run checks is the
conclusion of a theorem.

Some theorems assume more about the constants.  Each of these assumptions leaves out a case in
which TLC shows the property to fail; they are named where they are used and listed with
the theorem below.

**`TokenManager_proofs`**

* `TypeCorrect` - `TypeOK`, which is inductive as it stands.
* `RequestReleases` - `SentRequestReleases`, an action property: all three ends
  of a sent request go through `setTokenError` / `handleTaskError`.
* `FreshCorrect`, `NoneRequestedWhileValid` - `OnlyExpiredRequested` is not inductive: a
  request is claimed several steps after the expiry was looked at.  `FreshInv` adds what
  holds in between: in the loop of the token task, and after a request of it that failed,
  the token is still not valid; a refresh asked for by `setIdToken` before `begin()` waits with an
  unset expiry, and only until the first `begin()`.  `TaskInv`, a part of it, says where the token
  task is not running: with the account calls, that no such call was made by it.
* `MarkedCorrect` - a token the sketch assigned is marked *anonymous* too (`AssignedMarked`), an
  invariant of its own that only `reset()` could break, and does not.
* `AssignedKept` - `AssignedTokenKept` follows from `FreshInv` and `AssignedMarked`: the only
  library step that writes `auth` is a grant, and a grant comes only when the token is not
  valid; `begin()` leaves the expiry because of the mark.
* `ReadyHasTokenCorrect` - `ReadyHasToken`, if no empty token is assigned
  (`NoEmptyToken`).  The invariant `HasTokenInv` relates `status = "ready"`, the assigned-token
  flags and the branch of a legacy token to `auth`.
* `ReadyIsOwnTokenCorrect` - `ReadyIsOwnToken`, if the accounts are users and database
  secrets and `begin()` gets other credentials only after a `reset()` (`UsersOnly`).  `OwnInv`
  says that the auth and refresh token are none, assigned, or the current account's, that
  after a `reset()` they are not the account's either, and that there is no signed JWT.
* `SignsOwnClaimsCorrect` - `SignsOwnClaims`, for all kinds of accounts.  `SignInv` says that between
  the encoding and the signing the task does not leave its loop, so that no call of the
  sketch can change the credentials in between.
* `LeaseImplemented` - `ImplementsLease`: every step of the token manager is one of `TokenLease` or
  changes nothing there.  `FreshInv` before the step says that the lease is over when a request
  is claimed, and after it that a grant replaces no valid token; `AskedStays` that what the
  request asks for does not change between the claim and the answer.

**`AccountManagement_proofs`** - the same properties with the account calls in the next-state
relation.  Each lemma takes the steps of `Next` from `TokenManager_proofs` and adds the eight
steps of the calls.

* `AccountTypeCorrect`, `AccountSignsOwnClaims` - `TypeOK` and `SignsOwnClaims` hold without any
  further assumption.
* `AccountNoneRequestedWhileValid` - `OnlyExpiredRequested`, if the sketch assigns no refresh token
  (`NoRefreshAssigned`).  One that was set before `begin()` waits to be exchanged, while `signUp()`
  may get a valid token; `begin()` then exchanges it all the same.
* `AccountReadyIsOwnToken` - `ReadyIsOwnToken`, if the accounts are users, database secrets and
  guests (`UsersOnly`) and no custom token is assigned (`NoCustomAssigned`), as an account call
  can change the credentials while the exchange of one is still to come.
* `AccountRequestReleases` - however a sent request ends, `fb_processing` is clear, unless it was
  the deletion of a user (`CallReleaseStep`): the one exception that `CallReleases` (section 4) meets.

**`ErrorQueue_proofs`**

* `QueueTypeCorrect`, `RemovesItsItemCorrect`, `KeptUntilDeliveredCorrect` - from one
  inductive invariant, `IInv`: the types; `OpChosen`, that an operation is under way
  wherever one is needed; `RemovesItsItem`; and `OkDelivered`, that a request of
  `processErrorQueue` that succeeded has been performed.  The argument for the index is that
  everything a request does to the queue is to append to it (`AddQueueEffect`,
  `AttemptFailsEffect`); the item at the index stays where it was.  That removing
  one element keeps the others is `RemoveAtKeeps`, from `RemoveAtType` (`SequenceLemmas`).
* `StepsKeepPromiseCorrect` - the safety half of the refinement: the initial states map to
  `OperationQueue`'s, and every step maps to one of its steps or to a stutter.  A removed item is
  not owed any more (`RemovedIsNotOwed`), an added one is an `Accept`
  (`AddedIsAccepted`), an attempt the server performed is a `Perform`.  The liveness half is TLC's.

**`TokenExpiry_proofs`**

* `ExpiryTypeCorrect`, `TrustedCorrect`, `EarlyCorrect`, `StaysExpiredCorrect` - the types and the
  three bounds, from one invariant (`ExpiryInv`).  `ClockInv` bounds what an unset clock can
  show; `UnsetInv` and `SetInv` bound an expiry counted by either clock from both
  sides in terms of the token's real end; `ZeroInv` is about tokens without an expiry, `RefusedInv` carries
  a refusal over to the next answer.  The assumptions (`ExpiryAssumption`) are those
  under which the arithmetic does not leave its word: the clock is set to a time below
  2^31, and the device does not run for so long that an unset clock looks set.

**`StreamSession_proofs`**

* `TypeCorrect` - `TypeOK`, with the shape of what is on the connection.
* `SeenCorrect`, `ChangesCorrect` - `SeenIsDelivered` and `ChangesDelivered`, if `Cases` has at most
  `cut`, for every function `Crc` that tells a value from the other texts (`OthersDiffer`): they
  compare CRCs, and speak of values only where the CRC is one to one.  `NoSurprises` adds that a pass under way is of a stream that is not stopped and that the
  path has not changed; the other three cases are those that break it.
* `LiveCorrect` - `LiveIsKept`, for all of `Cases`.  `KeptInv` says that the mode of a connection with
  a stream on it is *stream*; that before the stream, or without one, nothing but an HTTP error
  comes on it (an error would mark the stream refused); and that none of `MustReopen`'s conditions holds
  once its events arrive, a keep-alive that was missed being forgotten by the end of the payload.

**`StreamTasks_proofs`**

* `TaskTypeCorrect` - `TypeOK`; `TaskInv` adds that a chosen object and whatever is read are
  streams.
* `FlagHasHolderCorrect`, `GuardHasReaderCorrect` - as long as no task has been deleted, a set
  `fb_processing` has a task that will reset it, and a set `streaming` one that reads the stream and
  will clear it.  Both are inductive with the types.  Neither says that the holder is alone: a task may set what
  another has set, and reset it under that one, so that what matters is that every place behind
  a setting is one before a resetting.

**`HttpResponse_proofs`**

* `HttpTypeCorrect` - `TypeOK`, for any number of requests, redirects and lost connections.  Its
  strengthening is `Requested`: while a request runs there is one, whose number answers carry.
* `AnswersAreOwn` - `OwnAnswer` for FB_RTDB and FirebaseCore.  `OwnInv` relates what is on the
  connection to the requests it answers.  Between requests, what a kept connection still carries
  was not waited for, which closes it (`Closes`), or holds no status (`LeftBehind`).  Before FB_RTDB
  has read a line, only its own answer, behind what was left, holds one (`StatusAwaited`); a first
  line without a status is the payload of a request that fails, and with one, all
  that follows is its own (`StatusRead`).  FirebaseCore's client starts empty (`TokenOwn`).
  A cut line is why statuses, and not lines, are counted: half a status line is none.
* `AnswersAreOwnWithoutMessages` - `OwnAnswer` as the run checks it, if no messages are sent
  (`"fcm" \notin Readers`).  FB_CM's answers are left out because `getError` takes a
  payload without a code for a success, whosever it is (section 4).
* `WholeBodyIsRead` - `WholeBody`, if no answer is a redirect (`"moved" \notin Shapes`).  `PartsLeft`
  says what is unread at each place of FB_RTDB's loop, part by part: the answer behind what an
  earlier one left (`AnswerLeft`), the rest of the header with what has been seen of it
  (`HeaderLeft`), the bytes up to the length (`BytesLeft`), the lines of the chunks (`ChunksLeft`).  Two
  facts carry the proof: a part is a sequence of whole lines, so that the next `readLine` takes
  the first of them (`LineTaken`), and as nothing was split, a line that has begun to arrive has
  arrived.  After a redirect the second status line is read as payload, with TLC's counterexample.

**Only model-checked:** liveness (`Renewed`, `CallsReturn`, `Converges`, `Resumes`, `KeptReading`,
`TokenRefreshed`, `Returns`, and that part of `KeepsPromise`), which needs fairness and `ENABLED`.

## 6. Not modelled, and why

* *The queue task of an ESP32.*  `beginAutoRunErrorQueue` runs `processErrorQueue` beside the
  loop; `ErrorQueue` has one thread.
* *The shared token TCP client* that `reconnect()` creates and frees in every task: its life depends on
  allocations and on `delete` in places `StreamTasks` takes as one step.
* *In the token manager*: the parsing of assigned tokens, the test mode; sign-up with
  credentials other than `begin()`'s; the rules calls, which swap the global token for a while.
* *In the streams*: event paths below the stream's own, the child nodes of multi-path
  streams, blobs and files as values.
* *In the pipeline*: uploads and downloads to files, query filters, the text of requests.
* *FCM*: the payloads and the topic calls; its use of the flag and the reading of its answers are
  in `StreamTasks` and `HttpResponse`.
* *JSON editing, file systems, sockets, strings, addons*: formatting or pure I/O, without
  protocol state.

Most of the source tree is of that last kind: BearSSL, the JSON parser, the FireSense addon, the
file-system and client wrappers, and headers of overloads (`rtdb/FB_RTDB.h`, `Firebase.h`) that
forward their arguments.  What keeps state between two calls is in `core/`, `session/`,
`rtdb/FB_RTDB.cpp`, `Firebase.cpp`, `message/FCM.cpp` and the HTTP helpers of `FB_Utils.h`; those are
what the modules map.

## 7. What is left

1. `ErrorQueue` with several runners: the queue task, `endAutoRunErrorQueue` deleting it in the middle of a
   request, and the abstract queue they should still implement.
2. The shared token client in `StreamTasks`, with `reconnect()` cut at each allocation.
3. `AccountManagement` as an implementation of `TokenLease` with two more steps, the answers to a
   sign-up and to a deletion.
4. Bodies and chunks of any size in `HttpResponse`, which now fixes two.
5. The path editing of `FirebaseJson` as functions on trees, against a reference definition.

To check a run: `tlc -config <run>.cfg <module>.tla`; to check the proofs:
`tlapm <module>_proofs.tla`.
