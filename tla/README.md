# A verification project for komandgo

komandgo is a client library for LysKOM servers in Go. It speaks Protocol A over
one TCP connection: numbered requests out, numbered replies back in whatever
order the server likes, and the caller of each request gets a channel on which
the response will arrive. This directory holds TLA+ modules that
model the client and what surrounds it, TLC configurations that check them on small
instances, and theorems that TLAPS proves for every instance. Paths below are relative to `src/`; line numbers
without a file are of `pkg/protocol/client.go`.

## Inventory of the system

| component | state | operations | what makes it correct |
|---|---|---|---|
| client connection (`protocol/client.go`, `KomClient`) | `asyncMap`, `nextRequest` (under `mapLock`), the socket, the shutdown channel | the 54 `async*` methods, `registerCallback`, `getCallback`, `send`, `receiveLoop` | every reply reaches the callback of its own request, once; no reply is lost; every call returns; a request that was sent is not mixed with a later one |
| callbacks (`client.go`) | a channel each | `OK` and `Error` of eleven types | each consumes exactly its own reply, sends one response and closes its channel |
| readers (`client.go`, `utils`, `hollerith`, `types/unmarshal.go`) | the stream | `readUInt32`, `readUInt16`, `skipToNewline`, `readDelimitedList`, `hollerith.Scan`, the bit fields, `ReadUInt32Array`, `readTime`, `readError` | how far each reads |
| server sharing (`protocol/server.go`, `KomServer`) | `serverMap`, two name maps, three locks | `GetServer`, `LookupUser`, `LookupConference`, with `NewKomClient` | connecting ends, and yields a client with its connections; clients of one server share one `KomServer` |
| wire formats (`types/marshal.go`, `hollerith`) | none | `Repr`, `UInt32Array`, `TextNoArray`, `StringTime`, `Sprint`, `FromString` | what is written reads back as itself |
| protocol errors (`protocol/errors.go`) | none | `protocolError` | the caller gets the code and the status that were sent |
| `protocol/marshal.go` | none | none | |

How they interact. A caller's goroutine runs an `async*` method: it makes a
channel, registers a callback under a fresh number (one critical section of
`mapLock`), writes the request and then a line feed to the socket, and returns the
channel. One goroutine per connection runs `receiveLoop`: it polls the shutdown
channel, reads a status byte and a number, takes the callback out of the map
(`mapLock` again) and calls its `OK` or `Error` with the socket; the callback
reads the rest of the reply and starts a goroutine that sends the response and
closes the channel. The callers, the loop, the callbacks' goroutines and the
server interleave freely.

What is hard. The number, the counter and the map are shared between goroutines.
Nothing frames a reply: each callback must stop at exactly the right byte, and a
byte too few or too many breaks every later reply. `fmt.Fscanf` on a socket that
cannot take a rune back loses its look-ahead, which no test of the repository
sees because they all use a `bytes.Buffer`. Writes are made without a lock. Errors
are dropped in several places. `PROJECT.json` lists these hazards by line, each
with the properties that watch it.

## The modules

- **`Replies`**: the stream and the callbacks, as pure operators. The stream is a
  sequence of tokens, one a byte. The first half says what the server sends
  (`Reply`, `Notice`; external). The second half has one operator per reader,
  from a stream and a position to the position it ends at (`ReadUInt`,
  `AfterUInts`, `Scan`, `ReadDelimitedList`, `ReadBits`, `ReadUInt32Array`, ...),
  one per `OK` method (`MarksOK`, `PersonOK`, ...), `ErrorEnd` for the `Error`
  methods, and `Senders`, `Results` and `Closes` for what the callback does with
  its channel. The constant `Rewinds` tells a socket that can take back a rune from
  one that cannot.
- **`KomClient`**: one connection. Its variables and actions:

  | variables | in the code |
  |---|---|
  | `asyncMap`, `nextRequest` | the fields of `KomClient` |
  | `stage`, `reqID`, `kind` | how far each invocation of an `async*` method is, its `reqID`, its callback type |
  | `outgoing`, `accepted`, `verdict`, `connected`, `notices` | the network and the server (external) |
  | `incoming` | the bytes on the socket that nobody has read |
  | `shutdown`, `loop`, `head` | the shutdown channel; where `receiveLoop` is and the header it has read |
  | `ran`, `chan`, `got` | the method of each callback that ran; the goroutines at its channel, and whether it is closed; what the caller received |

  | action | in the code |
  |---|---|
  | `Register` | an `async*` method up to `send`, with `registerCallback` (724-734) |
  | `SendBody`, `SendLF` | the two writes of `send` (755-777) |
  | `Receive`, `CloseChannel` | the callback's goroutine, with the caller: `c <- resp`, `close(c)` |
  | `Poll` | the `select` of `receiveLoop` (784-788) |
  | `ReadHeader` | status, number, `getCallback`, the choice of the method (790-796) |
  | `CallOK`, `CallError` | the methods, with their effect on stream and channel |
  | `CallOKPanics` | `zConfArrayResponseCallback.OK` on a list that was cut |
  | `ServerRead`, `ServerReply`, `ServerNotice`, `Disconnect`, `ShutDown` | the environment |

- **`RequestReply`**: the abstract specification, what a client promises: each call
  is asked, answered once, and returns its own answer, while the service is up
  (`up`). An answer there is a success or a failure and nothing more: values are not
  compared, and a wrong value with a nil error counts as a success (`Seen`). Of a call that waits when the service goes down only this is known, that
  it returns at most once. `KomClient` implements it under the mapping `Phase`, where
  the service is up while the connection lives and nobody shuts the client down.
- **`Wire`**: the conversions of `hollerith`, `utils` and `types`, as pure operators
  on sequences of characters: `Sprint`, `Scan`, `FromString`, the bit fields and their
  readers, the arrays, `StringTime`, `ReadUInt32`, `ReadDelimitedList`. Readers give
  the value and the position behind it, so that a conversion and its reader can be
  put together. `Word`, `ConfWord` and `ByteWord` are the widths of `uint32`, `ConfNo`
  and `byte`.
- **`Callbacks`**: the values, the errors and the panics of the `OK` and `Error` methods
  on a whole line, from those readers: `MarksOK`, `UnreadOK`, `ZConfOK`, ... and
  `ValueError`, with `ProtocolError` for `protocol/errors.go`. Each says which responses the
  caller may get, how many goroutines send one, and whether the method runs off a slice:
  one goroutine as a rule (`Gives`), and two after the error that
  `unreadConfsCallback.OK` does not return from (`GivesTwice`, `GivesAndPanics`; 508-517).
- **`Requests`**: the 54 requests as a table: the callback of each, the kinds of its
  parameters, the order of its fields. `Line` is what `send` writes.
- **`KomServer`**: goroutines in `NewKomClient`. `serverLock` and `serverMap` are the
  globals; `at` is how far a goroutine is, `server` and `sockets` what it has by then.

  | action | in the code |
  |---|---|
  | `CallGetServer`, `LookUpServer` | `GetServer` up to its dial (`protocol/server.go:25-33`) |
  | `DialServer`, `DialServerFails` | the `KomServer`'s own client, and the deferred unlock (34-41) |
  | `DialClient`, `DialClientFails` | the connection of the client itself (48-62 of `client.go`) |

- **`Session`** composes `KomServer`, `Requests` and `Callbacks`: a goroutine connects,
  makes a call (`Ask`), the server reads the line and answers (`Answer`, external), and
  the callback's value reaches the caller (`Return`) or its `OK` method panics (`Panic`).
  `PanicAfter` is a program that ends once the caller has its response: the goroutine it
  came from closes the channel that another one is still to send on, or the method runs off
  its list only then.
  `KomClient` has the interleaving of calls and the bytes they wait for; `Session`
  has the values.
- **`MCKomClient`**, **`MCSession`**: the sets, the arguments, the answers and the symmetry
  that the configurations use.
- The proofs. About a connection, each on top of the one before it: **`RepliesProofs`**
  (every reader ends at a position, the shape of a line, where each callback ends on its
  own reply and what it gives), **`KomClientProofs`** (types and correlation),
  **`StreamProofs`** (what a response says of the answer), and from there
  **`RequestReplyProofs`** (the refinement) and **`InStepProofs`** (both directions of the
  wire). About the values: **`WireProofs`** (numbers, texts, bit fields and lists, written
  and read), **`SessionProofs`** (connecting, and what the server reads of a request) and
  **`AnswerProofs`** (what the caller gets of an answer).

## Abstractions

In `Replies` and `KomClient`:

- Numbers have one digit, lists one element (`ReadUInt32Array` reads others too, to where a
  count that is right makes it end), and the text of every string has
  `TextLen` characters, none of them a sign or a newline. What a parsed value is
  plays no part, only how far it was read and whether it is the one that was sent
  ("ok") or not ("bad"). Digits of bit fields are all 0. A number of one digit is
  never cut in the middle: it is there or missing.
- The value of a sign token names the call that is answered. It is there for the
  properties: no reader looks at it.
- A reply arrives as a whole, unless the connection breaks: then what was under way
  to the client is cut at any byte (`Disconnect`), and what is read from there on ends
  in an error, which some readers look at and some drop (`IsCut`, `FailsToRead`). The
  readers block until a byte is there, so a reply
  that comes in pieces only delays them. Only an `Error` method may want bytes of
  the next line, and then it waits (`ErrorReady`).
- Reading the header is one step with `getCallback`: up to the lookup the loop
  touches only its own variables and the socket, which nobody else reads.
- A server answers each line it gets once, in any order. A line with several
  requests on it is a request with the first one's number that it answers by an
  error. It sends an asynchronous message as `:`, the count of its parameters and
  they.
- A write fails only after the connection broke, and may vanish then too. `send`'s
  loop over short writes is one write (a `net.Conn` writes all or fails).
- A panic (`loop = "panicked"`) ends the program and everything in it.
- `receiveLoop` runs from the start. Nothing in `pkg/protocol` but its tests starts
  it.

In `Session`, `Callbacks` and `Wire`:

- A client makes one call, and its reply arrives as a whole. The number a call gets is
  any of `Numbering`.
- What the server reads and writes is external (`FieldAt`, `DataOf`): by the fields of
  the type, which for a request are those of the client's own table (`Requests`), with a count that may be too high, as in the tests of `client_test.go`
  (80), and never too low. It takes a time for a C `struct tm`.
- An argument is a value of its parameter's Go type (`Typed`) and an answer a value of the
  type that the callback's response has (`Sent`). `ArgumentsAssumption` and
  `AnswersAssumption` say so of the constants, and two things more: a time is not before
  1900, since `StringTime` would write a negative number, and texts and lists are not
  longer than a `uint32` counts.
- `fmt`, `strings.Split` and `strconv.Atoi` are modelled by what they do to the words
  that occur. An error is told from none, and an error of the protocol by its code and
  status; the wording is left out.
- The values of get-time, get-person-stat and query-async are not modelled: their
  requests are written and not answered.
- `KnownNames` is empty, because no code fills the maps of `KomServer`.

Bounds, all of them constants: `IdSpace` stands for 2^32; `Goroutines` for how many
callers are inside an `async*` method at a time; `MaxNotices`; the set `Calls`, one
per call that is made; `Talkers`, the clients of `Session` that use their connection;
`Word`, 10^6 in the runs because TLC's integers end before 2^32, and beyond every
number they send. `IdIsFree` is a guard of `Next` alone: a number is not given out
again while a call waits under it, since 2^32 requests are not made meanwhile. The
counter wraps and numbers are reused in `pipelined` (three calls, two numbers).

## The runs

| run | question | instance | states |
|---|---|---|---|
| `pipelined` | over TCP, callbacks that consume what they should | 3 calls, 2 numbers, callers taking turns, 5 kinds, successes, shutdown | 135 815 |
| `buffered` | a socket that can take a rune back, as in the tests | 3 calls, 2 goroutines, 3 kinds, both answers, shutdown | 672 857 |
| `returns` | liveness and refinement | 2 calls, a callback that looks at errors and one that does not, successes, disconnect, shutdown | 17 950 |
| `concurrent` | callers that interleave, callbacks that misbehave | 3 calls, 3 goroutines, a notice | 844 858 |
| `outcomes` | every callback that gives one response, both answers, a break at any byte; the steps of the refinement | 2 calls, 2 goroutines, 10 kinds, both answers, disconnect, shutdown | 926 811 |
| `session` | connecting, and the values of requests and replies | 2 clients, 2 hosts, one of them talking; 54 requests, up to 27 arguments each; 8 callbacks | 59 608 |
| `text_newline`, `error_overrun`, `send_error`, `async_panic`, `sharing`, `error_code` | what the comments claim and the code does not do | 2 calls or clients | |

The properties:

- `OwnReply`: a reply is dispatched to the callback its call registered, once.
- `PendingCallbacks`: `asyncMap` holds only callbacks that still wait, each under
  the number its request was sent with.
- `InStep`: between two replies the next byte starts a line.
- `NoLostReply`: an answer that was given stays in the stream, and its callback in
  the map, until the two meet.
- `TrueResult`: the caller gets an error exactly when the server reported one.
- `NoPanic`: no nil callback is called, no channel closed twice or sent on after.
- `OpenLines`: a request on a line that has no line feed yet is one whose `send` has not
  returned. `send` takes no lock between its two writes, no comment promises that it does,
  and TLC finds two bodies on one line after six steps. What can be said of the requests that
  are mixed so is that their callers were all still sending: one that has returned is
  never glued to a later one. `concurrent` checks it with three callers; that the replies
  stay in step when such requests are answered by one error is in `buffered`.
- `NoSilentCut`: a reply that a broken connection cuts off never passes for a success
  with a callback that looks at the errors of its reads (`Checking`). The callbacks of
  numbers, times, persons and conferences do not, and TLC finds them return a wrong
  value with a nil error when they are added to that set.
- `EveryCallReturns`, `ImplementsRequestReply`: a call that was sent returns, and the
  client implements `RequestReply`, under fairness.
- `ImplementsSafely`: the part of that refinement that needs no fairness. There the
  restrictions of `returns` can go: `outcomes` has errors, concurrent callers and every
  callback but that of query-async, which sends twice (`async_panic`) and so is no
  single response; `concurrent` has that one.
- `EveryChannelCloses`: a channel that a response came from is closed in the end and no
  goroutine stays behind at it, also after the connection broke.
- `StopsWhenBroken`: a client that is to shut down stops once its connection is broken,
  wherever in a reply that was. While the connection lives, the loop may stay in a read.
- `UsableClient`: a client that `NewKomClient` returned has its connections and a
  `KomServer` that is no nil pointer.
- `LockHeld`: `serverLock` is held by the goroutine that dials for a `KomServer`, and by
  nobody else, which is what `EveryConnectReturns` rests on.
- `EveryConnectReturns`: `NewKomClient` returns, whosever dial fails with the lock held.
- `RequestsReadBack`: the server reads from a line the number, the operation and each
  argument that is no name, and nothing is left. It reads by the client's own table of
  fields, so that this is about the codecs and not about the order of the fields.
- `RepliesAsSent`: the caller gets exactly the value the server sent, unless the list
  it is in is short or has a brace in a name.
- `ShortListsReported`: a list with fewer elements than its count gives an error, and
  its elements.
- `PanicsOnBrokenLists`: only a list of conferences ends the program: one of z-lookup that
  is short or has a brace in a name, while its `OK` method runs, or one of get-unread-confs
  that is short. Short by one, it ends the program after the caller has its response, by a
  send on a closed channel; short by two, before or after, by an index.
- `TypeOK`: the one type invariant.

Why the bounds are enough. Two calls suffice for a reply to meet the wrong
callback, to be swallowed by its predecessor or to share its line; three let a
number be reused while two calls wait, and let answers come in an order that is
not just reversed. A callback meets every successor there is among its kinds. The
theorems below do away with the bounds for the properties they cover. In `session`
the second client only competes for the lock: connections share nothing else. The
texts have the characters the codecs look for, the lists none, one and two elements
with counts up to two too high (in a list of get-unread-confs one too high starts a second
sender, two run off the list),
and the errors a code with a message, one that shows its status and an unknown one.

`pipelined` keeps to `ExactKinds` and to successes, `returns` to `LiveKinds` and to
successes, and `buffered` to `BufferedKinds`, because the others do not have these
properties: that is what the first four violation runs show, one for each cause.

- `text_newline`: `getTextCallback.OK` (262) stops before the newline of its reply,
  which then is read as the status of the next one. So do the callbacks of strings,
  version info, z-conf lists and persons.
- `error_overrun`: every `Error` method over TCP swallows the line after its own.
  It also waits for that line: an error reply is reported when the next one comes.
- `send_error`: `send` drops the error of the line feed.
- `async_panic`: `queryAsyncCallback.OK` sends and closes twice after an error, and
  over TCP the reading of the array always ends in one.

- `sharing`: `GetServer` never stores the `KomServer` it makes, so that two clients of
  one server have one each, against the comment at the head of `server.go`.
- `error_code`: `readError` and the `Error` methods that have its text scan the code
  into the request's number and the status into the code.

Deadlock is not checked: a connection whose calls have all returned, or whose loop
was shut down, has nothing more to do, and `receiveLoop` blocks in a read.

Fairness in `session`: weak fairness of each goroutine inside `NewKomClient`. A dial comes
back with a connection or an error (TCP's own timeout), and a lock that is free is
taken: each goroutine takes it once, so that weak fairness is enough.

Fairness in `returns`: weak fairness of `receiveLoop`, of the two writes of
each call, of each callback's goroutine together with the caller that receives, and
of each action by which the server reads and answers. The first three are what the
Go scheduler gives a goroutine that can run; the last is assumed of a server.
Nobody has to make a call, break the connection, send a notice or shut down.

## What is proved

`KomClientProofs` proves, for any set of calls, any `IdSpace`, any number of
concurrent callers, every kind of callback, both answers, any number of notices,
with and without `Rewinds`, disconnects and shutdown:

- `TypeCorrect`: `Spec => []TypeOK`. The readers are arithmetic on positions of the
  stream, so the lemmas of `RepliesProofs` first show that each of them ends at a
  position at all.
- `OwnReplyHolds`: `Spec => []OwnReply`.
- `PendingCallbacksHolds`: `Spec => []PendingCallbacks`.

Neither of the last two is inductive: a reply in the stream names a number, and
that it is the number of the call it answers, that this call still waits, that no
other waiting call has the number and that no second answer is under way must all
be known before the step that dispatches it. The inductive invariant is `IInv`,
`TypeOK` with `Correlation`: `Known` (only registered calls are sent, only sent
ones answered, only answered ones run), `OpenIds` (waiting calls have different
numbers), `PendingCallbacks`, `Answers` (what follows the sign of an answer in the
stream), `AnsweredOnce` and `Dispatched`. There is one lemma per action. They need
that the only sign in a line is its first token (`LineShape`, `ReplyShape`,
`NoticeShape`), and not that the stream is in step: a callback that stops short or
reads on leaves a tail of the stream, of which `Answers` still holds. A header that
is read out of step has no sign in front of its number and dispatches nothing. A broken
connection can cut an answer off: `Answers` asks for what follows the sign only where
the number is still there (`HasNumber`), and a header that was cut before its number
is the last thing in the stream and goes to request 0 (`CutHeader` in `Dispatched`),
which is why `OwnReply` excepts it.

The second half of `RepliesProofs` turns from where a reply is to what is read of it. A reply without its
sign and number is `Remainder(k, sign)`, the fields of its kind and a newline, and a
stream `Begins` with it. `OwnReplyRead` says of every kind but that of get-person-stat and,
without `Rewinds`, of query-async, that its `OK` method finds its own reply long enough,
and of the kinds in `ExactKinds` that it ends where the next line begins; `OwnErrorRead`
says the same of the `Error` methods, where the socket takes back a rune. The text of strings has any length (`TextLen`).

`StreamProofs` proves, with no more hypotheses than the theorem names:

- `NoSilentCutHolds`: `Spec => []NoSilentCut`. Neither this nor `TrueResult` is inductive:
  a response is made two steps before the caller has it, from bytes the stream may
  have lost meanwhile. `SInv` adds to `IInv` that each answer in the stream is whole
  while the connection lives, and so is what the dispatched callback is to read
  (`WholeReplies`), and that every response that is under way or was received is
  `Sound`, that is, agrees with the answer (`SoundResponses`, `Silent`).
- `TrueResultHolds`: `Spec => []TrueResult`, if nobody breaks the connection and no call is
  one of get-person-stat, whose callback reads its fields a number too early (the hazard
  at 434), or, without `Rewinds`, of query-async, whose callback reports an error for
  every success. `TrueResult` is false of each of these three: a break is an error the
  server did not report.

`RequestReplyProofs` proves `ClientImplementsRequestReply`, `Spec => ImplementsSafely`, for
the calls that are not, without `Rewinds`, of query-async. The initial states are
mapped by `InitAbstract`; each action has a lemma that says which step of which call it
is in `RequestReply`, or that it is none: `SendBody` of a caller whose write fails is
the failure of its call (which `NoneFailed` says happens only once the service is down),
`Receive` its return, `ServerReply` its answer, `Disconnect` and `ShutDown` the end of the
service. That an answer is given to a call that was asked, and
that the result which `Receive` takes agrees with it while the service is up, come from
`SInv`.

`InStepProofs` has the two directions of the wire. `OpenLinesHolds` proves
`Spec => []OpenLines` for any number of callers that mix their writes; with the types it is
inductive, and there is one lemma for each write and one for the server's read. That requests are
whole is a lemma for callers that do take turns (`WholeRequestsHolds`, `TakingTurns`),
with the invariant `LInv`: one caller at a time is between its writes (`OneSender`), and
bodies and line feeds take turns in `outgoing` (`Turns`). The other three are about replies, and about an `ExactSetting`:
every callback in use reads the answers it may get exactly (`Exact`), the server sends no
messages of its own (`MaxNotices = 0`: `receiveLoop` leaves their parameters in the stream),
and callers that are not known to take turns use callbacks that read errors exactly too,
because two requests on one line are answered by one. `pipelined`, where callers take turns,
and `buffered`, where they do not, are instances of it, and the violation runs show that the property
is lost with a callback that is not exact. The inductive invariant is
`Aligned`, said of a connection that lives: behind each answer in the stream another one
or the end of the stream follows (`Chained`); a call that was answered and still waits
has its answer in the stream (`Waits`) and its callback in the map (`InMap`); and each
channel has one sender or one closer at a time and no sender once it is closed (`OneUser`).

- `InStepHolds` and `NoPanicHolds`: `Spec => []InStep` and `Spec => []NoPanic`, if nobody
  breaks the connection. A break cuts a reply anywhere, and a header that is cut goes
  to request 0, which may have no callback.
- `NoLostReplyHolds`: `Spec => []NoLostReply`, also with a connection that may break.

`SessionProofs` proves, for any goroutines and hosts:

- `ServerTypeCorrect`: `ServerSpec => []ServerTypeOK`.
- `UsableClientHolds`: `ServerSpec => []UsableClient`. The inductive invariant
  `ServerInv` ties `at` to what the goroutine has by then (`HasServer`, `HasClient`), and
  says that nothing is found in `serverMap` (`NothingShared`): with a `KomServer` from
  the map, whose connection may be to no one, the rest would not be inductive.
- `LockHeldHolds`: `ServerSpec => []LockHeld`, which is inductive with the types.
- `SessionImplementsServer`: a session implements `KomServer`, so that `UsableClient`
  and `LockHeld` hold in every session (`SessionUsableClient`, `SessionLockHeld`).

The values. TLC reads back a few texts, numbers and lists; the theorems say it of all of
them, of any width of a number and of any length. What is written is a line of words with
one byte between them, and everything rests on where a word stands in it (`Holds`):

- `WireProofs` has a lemma for each conversion and its reader. `DecimalReads`: the digits of
  a number give that number back, whatever of no digits stands before it. `ScanReads`:
  `Scan` gives back what `Sprint` wrote, whatever characters the text has, and ends just
  past it. `ReadFlagsReads` and `FlagsOfBits` are that for the bit fields.
- `RequestsReadBackHolds`: `SessionSpec => []RequestsReadBack`. Each kind of parameter has a
  lemma by which the server finds the field where the one before it ends (`Reads`), and
  an induction over the fields puts them together, for any of the 54 requests.
- `RepliesAsSentHolds`, `ShortListsReportedHolds` and `PanicsOnBrokenListsHolds`, in
  `AnswerProofs`, from `ReadsReply`, which says what a callback makes of a successful answer.
  A single value is read word for word. A list is first cut off behind its first closing
  brace. In a list of numbers that is its last word; what `strings.Split` gives are then the
  words that were written, of which `IsNumber` takes all but the braces. In a list of
  conferences it may be in a name: `StopsAt` is the item the loop cannot read, the one
  with the brace or the one behind the last, and `ZConfRuns` says that the loop reads all
  that come before it as they were sent, and panics if the count lets it come so far.

The invariant that ties these to the steps is `ExchangeInv`: a line is what the call's
arguments, or the answer, make of it, a response is one the callback can give, with what
is left at its channel, and a program that stopped has a client whose callback can end it
(`Fatal`). The four properties alone are not
inductive, because they do not mention the line between the two ends.

These proofs need inductions: over the digits of a number, the words of a line, the
fields of a request, the items of a list. The induction theorems of the library take an
operator and cannot be instantiated here, but that a set of numbers has a least element
(`LeastNumber`, from `WFMin`) can, with the set of all numbers up to which the claim
holds; and a recursive function is equal to one that is given outright if both begin and go
on alike (`SameRecursion`).

The assumptions are `RepliesAssumption`, `KomClientAssumption`, `KomServerAssumption`,
`WireAssumption`, `SessionAssumption`, `ArgumentsAssumption` and `AnswersAssumption`, which
type the constants, and the guard `IdIsFree`.

Only model-checked: `EveryCallReturns`, `EveryChannelCloses`, `StopsWhenBroken`,
`EveryConnectReturns` and what `ImplementsRequestReply` adds to `ImplementsSafely`. They are
about liveness under fairness, which the prover does not treat. Every other property of the
passing runs is a theorem.

## Not modelled

- The values of get-time, get-person-stat and query-async. The first two are wrong for
  a known reason (the hazards at 408 and 434) that no comment speaks about, and the
  third ends the program over TCP (`async_panic`).
- Short writes in `send`: a `net.Conn` writes all or fails.
- Replies that are malformed other than by a wrong count, and numbers beyond `uint32`.
- `hollerith.Fprint` and `Fprintf`, which nothing calls, the structs of `types.go` that no
  code uses, the wording of `protocolError`, and logging. `protocol/marshal.go` has no
  code that runs.
- Memory: the entries that a failed `send` leaves in `asyncMap`, the connection that a
  failed second dial leaves open.

## Plan

Done: all modules, runs and theorems above. What is left:

1. Safety lemmas under the liveness properties: that a channel whose caller has its
   response has exactly one goroutine left that closes it, for the kinds that do.
2. The values of get-time, get-person-stat and query-async, once the code reads them right.
