# A verification project for rsocket-go

TLA+ modules of the concurrent core of rsocket-go, TLC configurations that check
them on small instances, and proofs that TLAPS checks for every value of the
constants. Every definition is translated from the source; paths below are
relative to the repository (`src/` in PROJECT.json), and PROJECT.json maps each
definition to its lines.

    tlc -workers 2 -config WriteLoop_simple.cfg MCWriteLoop.tla
    tlapm WriteLoop_proofs.tla

## The system

An RSocket connection carries many streams over one transport. Each side has a
*socket* that can request and respond.

| part | state | operations | files |
|---|---|---|---|
| write path | send queue (a channel of 64), backlog, transport, `ready`, `closed`, `writeDone` | `sendFrame`, `LoopWrite`, `SetTransport`, `clearTransport`, `Close` | `internal/socket/duplex.go` |
| transport reader | two unbounded buffers, error channel, read deadline | `Start`, `DispatchFrame`, `loopReadBuffer` | `core/transport/transport.go` |
| unbounded buffer | channel of one, backlog, `disposed` | `Put`, `Load`, `Dispose` | `internal/buffer/unbounded.go` |
| fragmentation | joiners by stream | `SplitSkip`, `doFragment`, `deleteFragment` | `internal/fragmentation`, `duplex.go` |
| interactions | callbacks by stream, processors, subscriptions, request n | `RequestResponse`, `RequestStream`, `RequestChannel`, `FireAndForget`, the `onFrame...` handlers, the subscribers | `duplex.go`, `internal/socket/subscriber_*.go`, `callback.go` |
| stream ids | a counter | `Next`, `nextStreamID` | `internal/socket/stream_id.go` |
| leases | deadline, tickets; a channel of leases | `refresh`, `allow`, `simpleLease.Next` | `internal/socket/leaser.go`, `lease/lease.go` |
| client sockets | count of connects, setup, transport | `Setup`, `connect`, `Close` | `internal/socket/*_client_socket.go` |
| server | sessions by token and by deadline | accept, `doSetup`, `doResume`, pause, the cleaner | `server.go`, `internal/session` |
| balancers | clients and labels, a condition, groups by name | `Put`, `Next`, `remove`, `Close`, `Group.Get` | `balancer`, `internal/common/cond.go` |
| payload memory | reference counts, `toBeReleased` | `IncRef`, `Release`, `Done`, `DoFinally` | `duplex.go`, `callback.go`, `payload` |
| lock-free queue | linked nodes | `Enqueue`, `Dequeue` | `internal/queue/LKQueue.go` |
| listeners and connections | open transports | `Listen`, `Accept`, `Close`, `Read`, `Write`, `Flush` | `core/transport/tcp_*.go`, `websocket_*.go` |
| frames on the wire | two counters, a scanner's buffer | encoders, accessors, `Validate`, the length decoder | `core/framing`, `core/header.go`, `core/transport/*_conn.go`, `decoder.go` |
| extensions | none | composite metadata, routing, authentication | `extension` |

How they meet. A request registers a callback under its stream, builds frames,
splits them to the mtu and hands them to `sendFrame`, a channel send. `LoopWrite`
receives from that channel, from the lease channel and from the keepalive
ticker, and writes to the transport, which buffers until a flush. On the other
side the reader of the transport puts each frame into the buffer of its
parity; two goroutines take them out and call the handlers of the socket, which
join fragments, find the callback and push a processor or a subscription. The
owner of a socket attaches a transport, detaches it when `Start` returns (if it can
resume) or closes the socket.

What is hard: the write loop works on the queue, the backlog and the transport
without a common lock while `Close`, `SetTransport` and `clearTransport` change
them; a caller waits for `Done` of its own frame; a disconnect may fall
between any two steps; the reader, two dispatchers and their buffers must end
together; a fragment is recognised only by what came before it on its stream;
requests are cancelled by one side while the other answers; a frame in the queue
points into a payload whose owner may let go of it; a length that does not fit
its field is written all the same. The places where this bites are listed under
"hazards" in PROJECT.json, each with the properties that cover it.

What makes each part correct:

- write path: a frame is in one place and finished once; order per sender; nothing
  written twice or lost in a buffer; `Close` and every caller return; the
  teardown never runs beside the loop.
- reader: order per stream, nothing skipped, a drained stop, no send on a closed channel.
- fragmentation: frames that fit and that the receiver accepts; what is dispatched is
  what was sent; nothing left behind.
- interactions: one terminal signal, no frame for a forgotten stream, credit
  respected, no entry left in the table, no handler that blocks its dispatcher.
- server: one owner per token, a resumed session is not reaped, a paused one is.
- resumable client: one live transport, no reconnect after `Close`.
- balancer: labels and clients in step, turns fair, no caller asleep beside a client, a
  closed client gone.
- requests: no more than the lease allows, no id of a living stream, a payload neither
  released under a frame that waits nor kept for ever.
- lock-free queue: first in, first out, one taker for each value, no goroutine waits for another.
- frames: read as they were written, however the stream is cut; both sides count the same
  bytes, since these are the positions of a RESUME.

## Modules

| module | models | role |
|---|---|---|
| `WriteLoop` | the write path | component |
| `MCWriteLoop` | | values for TLC |
| `WriteLoop_proofs` | | theorems |
| `FifoQueue` | what a buffer promises | abstract specification |
| `Unbounded` | `internal/buffer` | component, implements `FifoQueue` |
| `TransportReader` | `Transport.Start` | composes two instances of `Unbounded` |
| `TransportReader_proofs` | | theorems |
| `Fragmentation` | splitter, joiner and their callers | component |
| `Fragmentation_proofs` | | theorems |
| `RequestStream` | one request-response or request-stream | component |
| `RequestStream_proofs` | | theorems |
| `RequestChannel` | one request-channel | component |
| `MCRequestChannel` | | values for TLC |
| `RequestChannel_proofs` | | theorems |
| `ServerSessions` | the server's connections, `internal/session` | component |
| `ResumeClient` | the resumable client socket | component |
| `Requester` | a caller's requests: lease, id, callback, memory | component |
| `MCRequester` | | values for TLC |
| `Requester_proofs` | | theorems |
| `LKQueue` | `internal/queue` | component, implements `FifoQueue` |
| `ReleaseQueue` | `toBeReleased` of a channel | composes readers and a finisher over `LKQueue` |
| `MCReleaseQueue` | | values for TLC |
| `ReleaseQueue_proofs` | | theorems |
| `Balancer` | `balancer`, `internal/common/cond.go` | component |
| `MCBalancer` | | values for TLC |
| `Clients_proofs` | | theorems about `Balancer`, `ResumeClient` and `ServerSessions` |
| `Framing` | headers, frames, their encoders and accessors | operators |
| `Extensions` | composite metadata, routing, authentication | operators |
| `FrameStream` | a connection that carries them | composes `Framing` and `Extensions` |
| `MCFrameStream` | | values for TLC |

Definitions preceded by `\* fault:` are not part of any specification. Each is a
plausible mistake in the definition that follows it; PROJECT.json pairs it with
a property that notices it.

### WriteLoop

The variables bear the names of the fields (`closed`, `ready`, `tp`, `writeDone`,
`queue` for `sndQueue`, `backlog` for `sndBacklog`; `sealed` is the closed state of
the channel). Each goroutine has a pc: `lpc` for `LoopWrite`, `spc` for a caller of
`sendFrame`, `kpc` for the owner that sets transports, `cpc` for `Close`. An
action is what happens between two accesses to state that another goroutine
can change: `drainOne` is `PickTransport` (under the lock) and `Write` (after it);
`ready.CAS` and the assignment of `tp` are two actions; the test of `ready`
and the wait on the condition are `CheckReady` and `Park`; `Close` is seven.

A frame is its origin and its number. `done` counts calls of `Done`,
`dropped` is what `drainBacklog` discards without it, when it finds no transport: only a
resumable socket can be in that state. A connection is `up`, `broken`
(may take bytes into its buffer, or report an error) or `failed` (repeats the
error, as `bufio.Writer` does); `wire` is what it took and `flushed` how much of it
the peer can see. `Tick` sends its frame in the same step as the receive from the
ticker: nothing depends on what happens between.

`drainWithKeepaliveAndLease` is part of `Select`. Its lease branch cannot run: a
server socket has leases and no keepaliver, a client socket the reverse
(`newDuplexConnection`'s two callers), and the runs have that shape.

### Unbounded, FifoQueue and TransportReader

`Put`, `Load` and `Dispose` hold the mutex from beginning to end and are one action
each; the receive from the channel does not take it, so it is an action of its
own, with `reader = "loading"` until the `Load` that follows. `FifoQueue` says
what the pair promises, with the refinement `items <- c \o backlog`,
`open <- ~disposed`.

`TransportReader` has the reading goroutine (`rpc`), two instances of `Unbounded`
with their dispatchers, the error channel of one (`err`), the context and the
channel `done` of one from which `Start` receives twice. `Select` is the
`select` with a default at the head of the loop: any ready case, else a read. A read
returns an odd or an even frame, a frame of stream 0 (dispatched at once, and
its error ends the loop), or an end. Handlers return nil or an error.

### Fragmentation

A byte is its position in the metadata or in the data, so joining wrongly gives a
sequence that is not `1..n`. `Fragment` is an iteration of the loop of `SplitSkip`
with the frame its callback hands to `sendFrame`; `Read` is `Transport`'s read with
`Validate`, then the handler: for a payload `doFragment` and the dispatch of what it returns. `kind` is what
the stream carries: request-response, request-stream, a channel's requester, the payloads that
answer a request-response or a stream ("reply"), or those of a channel's responder ("answer"). Three
other frames of the same stream go down the same line, and each of their handlers deletes the joiner
when it finds no callback (duplex.go:844-867, 869-897, 899-919): `CANCEL` (from `DoFinally` of a request-stream,
or of a channel's receiver, on another goroutine than the split), `REQUEST_N` (`Demand`: a
channel's receiver asks while its own payload is being split, a stream's subscriber while its request is) and
`ERROR` (`Fail`), which ends the stream and so follows the last fragment. `callback` is the receiver's entry in
`messages`: a channel's requester registers late (`Register`), and any receiver may unregister
early (`Unregister`). `cut` remembers the payloads of which a handler has deleted a part.
The two cursors advance together in `Room` and `DataCursor`, which give in one step what
the inner loop of `SplitSkip` counts byte by byte. A negative room counts as none: the
inner loop does not run.

### RequestStream and RequestChannel

One stream between a requester and a responder, over two sequences of frames that keep
their order: `SenderOrder` of `WriteLoop`, `InOrder` of `TransportReader` and `Whole` of
`Fragmentation` are what these modules take for granted. `areg`, `breg` (`reg` of a
side) say whether the stream's callback is in `messages`; every handler begins with that
question and drops a frame that has none. `apc` and `bpc` (`pc`) follow the call, the
subscription on a scheduler and the publisher; an action is what happens between two
accesses that another goroutine can interleave: the test of `closed`, the registration,
the send with its `killCallback`, `OnSubscribe`, each signal of the publisher, the
two steps of `DoFinally`.

What is external is reactor-go, as the code uses it: a processor accepts one terminal
signal and ignores what follows, `DoFinally` runs once after it (for a flux, if
someone has subscribed), a publisher emits no more than was demanded, and a cancelled
subscription ends with `OnError`, from which the code expects its `unregister`. The
completion of an empty response is passed to `Success` as an empty payload; `got` keeps
items only.

The kinds differ where the code does. A response and a stream register before the request
is sent, a channel's requester in `OnSubscribe`, on a scheduler, after it. `DoFinally` of a
response or a stream sends `CANCEL`, that of a channel's requester does not. The channel's
responder blocks its dispatcher until it has registered, counts the ends of its
two halves in `calls`, and counts a `FinalPayload` once more than its completion.
`unheard` is an observer: it remembers what was dropped because it came before, or after,
the callback that needed it, and the properties name it where the code gives no more. The demand that comes
while the first one is still sending the request (the compare-and-swap, duplex.go:332, 364) is `AskMore` before `apc = "sent"`;
`RequestChannel` has it from `apc = "sent"` on only. A channel whose request was not sent is refused if it was
one frame, and goes on to subscribe its sending flux if it was split (duplex.go:509-537); both are in `Request`.

In `RequestStream` a `Close` is the flag (`Close`) and later the stop of the callbacks
(`SweepA`, `SweepB`); in `RequestChannel` the two are one step. Either side's close
ends the connection for both.

### ServerSessions

Each accepted connection has a pc (`cpc`) for its goroutine in `Serve`: first frame,
acceptor, `SetTransport` in two steps (`TryReady` is the compare-and-swap, `Attach` the
assignment), the transport's `Start` ("serving"), and the deferred function, which is
`Release` or `Pause` and then `Store`. `held` is what the goroutine put into its
`socketChan`. A socket bears the name of the connection that set it up and a session
that of the connection that pushed it; so `held[x]` is the socket of session `x`.

`heap` and `map` are the two indexes of the `Manager`: `Pop` takes a session of the
earliest deadline and deletes the map's entry of its token, whichever session that entry
has. Time is relative: `left[x]` is what remains until the deadline of `x`, `Tick`
takes one from each, and sessions that are dead may be popped in any order.
`doCleanSession` pops, looks at the session, and pushes it back or hands it to the
goroutine that closes; that channel has no buffer, so the next dead session waits
until the goroutine is free (`busy`), while a slow close of an earlier sweep goes on
(`dying`).

`Close` is one step here; its inside is `WriteLoop`'s. It may be called by the
application or by the write loop at any time after the socket was accepted
(`CloseSocket`). An acceptor that closes the socket before it returns is left out.

### ResumeClient

Connections are numbered in the order of their creation. `conpc[i]` is the connect that
creates connection `i`, `conn[i]` the connection and `rpc[i]` the goroutine it starts for it; the goroutine calls the
next connect, so the two families of pcs interleave and a connect may still wait for the
answer to its RESUME when the next one runs. A connect that failed to get a transport
left nothing behind and is retried under its number. `RejectResume` and `Rejected` are the two
ends of the channel `resumeErr`, which has no buffer; `resumed[i]` counts its closes by RESUME_OK, the second of
which panics (`Panicked`). A rejection after RESUME_OK is recovered in the handler and ends `Start`, as
`EndReading` does. A rejection that finds `connect` gone, or whose `connect` times out before it receives, leaves the handler
at its send (`Stranded`).
`once` is the `sync.Once` that `Close` and `close(false)` share; only `Close` marks the
client as closing. Delays and the ten seconds are fair steps without a clock. `isReady` and `attached` are
the `ready` and `tp` of its `DuplexConnection`: `Clients_proofs` extends this module, `ServerSessions` and
`Balancer` together, so the three use different names.

### Requester

Each caller is a goroutine with one request of any of the five kinds, split into fragments or not (a metadata
push is never split). It asks the leaser (`Start`, `TestDeadline`,
`TakeTicket`: each field of `leaser` is read or changed by itself, as `refresh` writes
them one after the other), takes an id, registers its callback, counts a reference and
sends. `refs` is the reference count of its payload; the caller's own reference is given back when the
call has returned, the one that the frames hold by `Done` of the frame that carries
the hook. `answer` counts the references to the payload that answers a request-response: it is
released by `onFinally` and by `stopWithError`, which works on a copy of the callback
(`copy`), so that the two may meet. A stream and a channel send their request at the subscriber's first
demand (`Demand`), with the same `IncRef`, fragments and hook as a request-response (duplex.go:376-419, 486-528);
the caller keeps its own reference until then. A stream's callback is registered before, and ends with the frame that ends the
stream; a channel's is registered by its sending flux after the request (`RequestChannel`), and is not here. `seed` counts ids; it is folded after the second lap, in
which every id is looked up as in all later ones. `_halfSeed` is a constant, so that a lap is
short.

A CANCEL frame, and what the other side does, is `RequestStream`'s. What a lap has free is
an assumption (`Situation`): 2^30 requests at the same time are out of reach.

### LKQueue and ReleaseQueue

Each load and each compare-and-swap of `Enqueue` and `Dequeue` is an action. A node is
named by its value. `chain` and `taken` are histories: the nodes in the order in which they were linked
and how many have been taken; `Linked` says that `next`, `head` and `tail` are what
the histories say, and `Contents`, the refinement to `FifoQueue`, is what lies in
the chain behind the values taken.

`ReleaseQueue` is the use that `duplex.go` makes of the queue: a reader takes out
the payload before this one and puts this one in, and the goroutine on which the channel
ends drains what is there. Only the finisher has fairness: the queue being lock-free, the
drain must end although a reader has stopped between two of its steps.

### Balancer

`slots` is the array behind the slice `sockets`, with what lies beyond its length, because
`remove` shifts it in place while `Balancer.Close` copies from it without the lock
(`TakeSlice`, `CopyOne`, `view`, `size`, `clone`). `Cond`'s channel is the set of the callers that wait on it: a broadcast
swaps the channel and closes the old one. `PutLabel` holds the lock over the insertion and
the broadcast and registers its `OnClose` after it; `late` remembers the clients that had closed
by then, `told` the entries that `OnLeave` was called for. `bpc` is the pc of `Balancer.Close` and `gpc` that of
`Group.Close`. `round` is a history: the clients handed out since someone last came, left or `seq` began anew.

### Framing, Extensions and FrameStream

Bytes are a sequence of pieces: what a piece holds is one value, where it lies and
how long it is are numbers. So every length and offset is computed as in the code, with
its width, and a slice at a wrong offset yields other pieces than were written. A duration is a number
of microseconds and how often 2^32 milliseconds were in it, which the encoders drop. Both encoders
of a frame are there, `New...Frame` with its buffer (`Buffered`) and the writeable's `WriteTo` with
`Len`, and the accessors a receiver uses (`Decode`). `Extensions` has the same for metadata.

In `FrameStream` a TCP stream is the sequence of bytes written with three positions in it, flushed,
arrived and scanned; `Fill` is a read of the scanner's buffer, which may end at any
of several cuts inside a frame, and `DoSplit` the scanner's split function. Over TLS the
last bytes may arrive together with the end of the stream. A websocket carries messages, and may
carry one that is not binary. `wcount` and `rcount` are the counters of the two `Conn`s. Once the link is broken a write or a
flush may fail, and over TCP it goes on failing (the error of a `bufio.Writer` stays); `refused` are the frames whose write failed or panicked.

## Runs

| run | configuration | shows | states |
|---|---|---|---|
| `write_simple` | a server socket; a sender of two frames and one of a single frame, queue of 2, one lease, one transport | types, exclusion of teardown and loop, order and flush before waiting (`PeerSees`), `Close` returns, every frame finished | 230 382 |
| `write_resume` | a resumable client socket; two frames, queue of 1, two transports one after the other, one tick | one place per frame, finished once, written once across transports (`EachOnce`); flush before waiting, whatever transport is attached by then; `Close` hangs in one way only | 683 392 |
| `reader` | up to four frames of any parity | order, drain, late reads, channels, termination, refinement of `FifoQueue` | 25 249 |
| `fragments` | mtu 14 or 16; 0, 1 or 6 bytes of metadata, 0, 2, 5 or 7 of data; two payloads; one REQUEST_N under way at a time | frames that fit and are valid (`Splits`), joined whole with the end of the stream seen (`Joined`), nothing dispatched after a cut (`CutIsLost`) | 1 626 403 |
| `request_stream` | up to two items, two demands of one or two | items whole and demand kept (`Delivered`), every request answered, tables emptied | 199 919 |
| `request_channel` | up to two items one way, one the other; demands of one | items whole, the responder keeps the channel until both halves end, which frames end the process (`Delivered`); both halves end | 995 316 |
| `resume_client` | three connections, with and without a token | one connection open, the set up or resumed one attached, reconnecting until closing, then everything ends but what is named | 294 210 |
| `sessions` | three connections, two tokens, a duration of one tick | no socket forgotten, map and heap agree, only a resumed session is reaped alive (`InStep`); writes go to the current connection; paused sockets end | 306 772 |
| `frames` | two frames of some seventy kinds and sizes over TCP, TLS and websocket | fields and metadata read as written (`Faithful`), counters agree also when writes fail, no frame waits in the decoder | 91 479 |
| `requester` | two callers in six situations; a lap of three ids; two leases of one ticket | lease and ids (`Admitted`), payloads not released under a frame (`Memory`) nor kept (`GivenBack`) | 773 646 |
| `balancer` | three clients, two of which want one label; a caller of `Next`; one `Group.Close`; `seq` modulo 4 | labels, clients and turns (`Balanced`), everybody closed, callers and leavers go on | 550 380 |
| `release_queue` | two readers with two and one payloads, a finisher | pointers and payloads (`Releases`), refinement of `FifoQueue`, the drain ends | 85 953 |

Each run checks at most a few properties, some of which are conjunctions of named
parts; the parts are stated and commented one by one in the module.

Why the bounds are enough. *Queue*: with capacity 1 or 2 a sender blocks, and is
blocked while `Close` seals the channel; 64 adds nothing but more of the same.
*Senders*: order is between two frames of one sender, with a second one
between them. *Transports*: two, so that a frame taken by the first may meet the
second. *Frames*: four arrivals give one parity a frame in the channel, one in
hand and two in the backlog. *Sizes*: an mtu of 14 leaves one byte in the first
fragment of a request-stream with metadata, 16 leaves three; payloads take from one
to nine fragments, with metadata that ends at, before and after a fragment's
end. *REQUEST_N*: one under way, which may come before, between and after the fragments of either payload. *Payloads*: two, so that what the first leaves behind meets the second.
*Items and demands*: two of each, so that an item waits for a demand that is sent after
the request, and so that order can be wrong. *Connections*: three, for a setup, a resume and a second resume of the same session, or two
setups of one token and a resume. *Tokens*: two, so that the heap holds sessions that do not
share a map entry. *Connections of a client*: three, so that one is lost while the connect of the one
before is still waiting, and one more follows. *Duration*: one tick, so that a session is alive or dead when it is
looked at, and several with different deadlines wait together. *Frames on the wire*: of each type
those whose optional parts are absent or present, and those at and one beyond the limit of a length
field (a byte, two bytes less 14, three bytes); two in a row, so that the second can be found in the wrong
place. *Cuts*: after one byte (inside the length), four (inside the header) and eight, besides
the frames' ends. *Situations of a requester*: the lease with fresh ids, and the ids and the memory
without a lease, because the two touch no common state; each kind of request is split in one of them, but a metadata push; a lap of three ids, one of
which lives on, so that the next lap meets it. *Clients of a balancer*: three, so that a removal shifts one and
a label is refused; one caller, because callers share no state but the condition, and
`EachInTurn` speaks of calls, not of callers. *Payloads*: two of one reader and one of another, so that
two enqueues and a dequeue meet and the tail lags behind.

`CHECK_DEADLOCK FALSE` everywhere: a connection whose peer has nothing more to
send, and a socket that has been closed, legitimately stop.

### Fairness

`WriteLoop`: weak fairness for the write loop, for a caller inside the channel
send, inside `SetTransport` and inside `Close`: goroutines that can run do.
Nothing obliges anyone to start a request, to disconnect, to reconnect or to
cancel. The owner calls `Close` once its write loop has stopped, because `Start` of the
server sockets does so in a `defer` and because the simple client's transport ends
with the same context (`simple_client_socket.go`); the resumable client reconnects
instead and is exempt.

`TransportReader`: weak fairness for the three goroutines; handlers are assumed to
return. A read ends only if a deadline is set, and `DispatchFrame` is what sets it, so
`Deadline /\ ReadEnds` is fair and a read before any dispatch is not. That is
why `StartReturns` begins with a handler's error or with the end of reading.

`Fragmentation` has safety properties only, and no fairness.

`RequestStream` and `RequestChannel`: goroutines run, frames under way arrive, a `Close` that
has begun goes on. Nobody is obliged to ask, to cancel or to close; a publisher that has
demand uses it.

`ResumeClient`: goroutines run, timers fire, and a read of a connection that the client has
closed ends. A peer may be silent for ever, and nobody has to call `Close`.

`Requester`: the callers, the write loop, the handlers of an answer and a `Close` that has begun go on.
No lease has to come, nobody has to answer, to cancel or to close.

`Balancer`: goroutines that can run do. Nobody has to put, to ask or to close a client.

`ReleaseQueue`: only the goroutine that drains is fair. `FrameStream` has no fairness: what it says about
waiting, `NoFrameWaiting`, is an invariant.

`ServerSessions`: time passes, the cleaner's ticker fires and goroutines run. The acceptor
returns. A transport whose connection was closed under it ends (`~open[c] /\ End(c)`); one
that is open ends only if its peer so wishes, so a client may stay for ever.

`ManagerAgrees` exempts two cases that the code allows: two sockets of one token
(`doSetup` looks for paused sessions only), and the moment in which the cleaner holds
the session.

## What the properties except

### Known divergences

What the code does here differs from what a comment or a name in it says, or from what its
callers rely on. The properties hold with these cases named as exceptions.

- **`Close` may wait for ever.** `LoopWrite` tests `ready` and then locks and waits
  (duplex.go:1343-1346). If `Close` broadcasts (duplex.go:105) between the two, on a socket
  that has lost its transport, the loop sleeps and `Close` stays at `<-dc.writeDone`
  (duplex.go:126). `CloseReturnsUnlessMissed` shows that there is no other way for it to hang.
- **A frame may be discarded, and its `Done` never called.** `SetTransport` makes `ready` true before it stores the
  transport (duplex.go:1043-1045). A loop that starts in between finds no transport, and the deferred reset of
  `drainBacklog` (duplex.go:1255-1259) empties the backlog without a `Done`; who waits for one (duplex.go:371)
  waits for ever. `EachOnce` counts this as one of the ways a frame can end. It happens on resumable sockets only.
- **A frame kept for the next transport may overtake or be overtaken.** The loop takes frames from the queue while the backlog
  holds earlier ones: a resumable client may send a sender's second frame, and then its first from the backlog.
  `SenderOrder` is violated there, and is stated of sockets with one transport.
- **Fragments are lost, or dispatched as a payload, when a frame falls between them.** `onFrameRequestN` (duplex.go:904-905), like
  `onFrameCancel` and `onFrameError`, deletes the joiner of a stream for which there is no callback. A split request of a
  stream or a channel whose subscriber asks for more while it is being sent is lost (`CutIsLost`). The answer of a channel whose
  responder asks before the requester has registered is cut, and what arrives of it later is dispatched as
  a payload without its first bytes; `Whole` shows that this is all that can be wrong with one.
- **A late rejection strands a client.** After the ten seconds nobody receives from `resumeErr`, and the handler of
  REJECTED_RESUME blocks the reading goroutine for ever (resumable_client_socket.go:124): `Start` does not return, the connection is not
  closed, and the client does not connect again. A second RESUME_OK closes `resumeErr` twice and panics
  (resumable_client_socket.go:110). `GoesOnOrEnds` names both (`Stranded`, `Panicked`).
- **A dispatcher may stay in `respondRequestChannel`.** It waits for the subscriber to register (duplex.go:693); when the context is
  done, `OnSubscribe` returns without closing the channel (subscriber_request_channel.go:119-121), and the dispatcher, with
  `Start`, waits for ever.
- **The TCP counter counts frames that were not written.** `TCPConn.Write` adds to the position before it writes
  (tcp_conn.go:82-84): a frame whose write fails is counted, and again when it is sent from the backlog, while the peer counts
  what it reads; the websocket counts after the write. `CountersAgree` says by how much the two differ.
- **The end of a stream is lost with a split final payload.** `sendPayload` puts the
  complete flag on the last fragment (duplex.go:1107), `onFramePayload` reads the flags of the
  first (duplex.go:984). `Joined` shows that the end is seen in every other case.
- **A responder's cancel ends the requester's process.** The receiving flux of
  `respondRequestChannel` sends `CANCEL` (duplex.go:617-619); `onFrameCancel` of the requester has
  no case for a channel's callback and panics with "unreachable: should never occur" (duplex.go:863),
  on a dispatcher goroutine that does not recover. `OnlyCancelCrashes`, a part of `Delivered`,
  shows that nothing else reaches that line.
- **A resumed socket is closed when its old session dies.** `doResume` finds the session with
  `Load` and leaves it in the manager (server.go:301). When the deadline of the earlier pause
  passes, the cleaner closes the socket of a client that is connected again, although
  `doCleanSession` says "Push back if session is still alive." (server.go:366-372).
  `ReapedOnlyResumed`, a part of `InStep`, shows that only a resumed session is reaped in this way.

### Requests

`Answered` of `RequestStream`
excepts a `REQUEST_N` that the responder's dispatcher handles before `OnSubscribe` has
registered the stream on its scheduler, or that has overtaken the request because a second demand came while the first
was still sending it: that demand is lost and the stream may wait for
ever. `CancelStops` excepts a `CANCEL` in the same windows. `Answered` of `RequestChannel`
excepts an answer that arrives before the requester's `OnSubscribe`, demand that comes when
the end of the requester's receiving flux has already removed the callback of both
halves, and a final payload, after which the responder may forget a channel whose
receiving half still runs. A channel's requester that is refused by `sendFrame` has no
callback for `killCallback` to find, so its flux gets no signal; if its request was split it subscribes the sending
flux all the same, whose frames are refused in turn (duplex.go:525-537). `OneConnection` of
`ResumeClient` excepts a connection that ended before its own connect attached it: it
holds `ready` and the next one is not attached. Its premise `once = "free"` and the premise of
`GoesOnOrEnds` except what `close(false)` does: it closes the socket for good but leaves
`connects` counting, so a client whose setup could not be written (`Setup` returned the
error) or whose RESUME was not answered in time keeps connecting, and a later `Close` finds
`once` taken. A timeout may even close a socket that a later connect has resumed.

### Memory of payloads

`Memory` excepts three frames that may point into a payload already released: that of a
metadata push, which takes no reference (duplex.go:234-240); the last fragment of a split
fire-and-forget, which gives its reference up before that fragment is sent (duplex.go:226);
and the first fragments of another split request whose last one was refused because the socket had
closed, while they still wait in the queue (duplex.go:294-316, 401-419, 509-528). An answer may be released twice when
`stopWithError` (callback.go:33), which has a copy of the callback, meets `onFinally`. An answer
that is cached after `onFinally` has run for a cancel is never released, so `Memory` bounds the
references from below and speaks of successful answers only. A payload that a channel's reader puts
in after the drain is over stays in the queue: `ReleasedOnce` allows one for each reader.

### Requesters

A fire-and-forget that the lease refuses is logged and sent all the same
(base_socket.go:37-40), so `WithinLease` counts the calls that `allow` allowed. The test for zero in
`serverStreamIDs.Next` looks at the value before the mask (stream_id.go:26): at the end of a lap a server
gives out the id 0, which `IdOf` does too.

### Balancers

A client that has closed before `PutLabel` registers its handler is never removed
(round_robin.go:58; `late`). `Close` copies the sockets without the lock (round_robin.go:91), and may
miss one that is shifted under it (`torn`). `Close` on an empty balancer uses its `once` up without
effect, `Put` still works after it, and it wakes nobody. `Group.Close` holds its lock while it closes
the clients; a client's handler that calls `Group.Get` would wait for that lock (group.go:38).

### Frames

`FitsMtu` holds from an mtu of 14 on: with 10 to 13, which `IsValidFragment` accepts, the first fragment of
a request-stream or channel with metadata has the metadata flag and no metadata length, and
the receiver's `Validate` refuses it. `Faithful` reads every
field exactly `WithinLimits`: the accessors of SETUP and RESUME add 14 to the token's
length in sixteen bits, so a token of 65522 bytes or more is read wrongly, and a mime type of 256
bytes has a length of zero. `NewResumeFrame` panics on a token of more than 65535 bytes (resume.go:30), its writeable twin
truncates the length. Durations are cut to 32 bits of milliseconds (setup.go:60, 65; writeable_setup.go:51-52; lease.go:37). A frame longer than 2^24 - 1 bytes panics in `TCPConn.Write`, which
has counted it by then; metadata of that length panics on any connection. When TLS returns the
last data together with the end of the stream, `doSplit` drops the frames in it. A well-known authentication without
a payload is one byte, which its reader refuses, and a custom mime type of length zero reads as a
well-known one.

## Proofs

All leaves are checked by Z3, Zenon and LS4 (PTL steps).

**WriteLoop_proofs.** `TypeCorrect`: `TypeOK` is not inductive as it stands;
it is strengthened with what each pc knows of the loop's hand, of the transport it
picked and of the queue it drains. `CloseExcludesLoop`: the strengthening
relates three pcs: once `Close` has sealed the channel, `closed` is true and
stays so; `writeDone` is "nil" only while the loop is at "start", and "closed" only
when it has stopped; so a `Close` that read "nil" leaves a loop that meets
`closed` at its first check, and one that waited leaves a loop that has ended.
`EachFrameOnce` rests on `OnceInv`: the places of a frame are counted (`Balanced`), the loop's hand is empty outside `drainOne` and so is what
`Close` is through with (`Emptied`), and what is on a wire is done with
(`WrittenDone`), so that no frame in the queue, in the backlog or in a hand has been written. `SimplePeerSees`
assumes what a simple socket is (`Attached # NoTp`, `~Resumable`): it has one connection (`OneConnection`), a cycle of `drain` that has written finds frames enough in the queue not to wait before
its flush (`FlushDue`), and what a sender hands over follows, in the wire, the loop's hand, the queue and
the sender's own hand, in its order (`LineOrder`). Both hold for any number of senders and frames.
Assumptions: `WriteLoopAssumption`.

**TransportReader_proofs.** `Half` is the invariant of one buffer with its dispatcher:
what has been dispatched, what is in hand, in the channel and in the backlog are, in
this order, the numbers `1..arrived`. Each step of a half is a lemma without primes
(`HalfPut`, `HalfTake`, `HalfDispatch`, `HalfLoad`, `HalfEnd`), used once for the odd and
once for the even side. `Joins` counts the receives from `done` against the dispatchers
that have ended, and gives `StartDrains`; `Lates` ties the late reads to `err` and to
`rpc`, and gives `OneLateRead`. `OddSteps` maps the steps of the whole reader to
steps of `Unbounded`, whose own invariant (`BufferInv`) is `TypeOK`, "the channel is closed only
when disposed and drained" and "a reader that waits on an empty channel has nothing
behind it". `OddImplementsFifo` is its step simulation of `FifoQueue`: `Put` appends to `c \o backlog`, a receive
takes its head, `Load` and a second `Dispose` stutter. `StopsCleanly` joins the three theorems that `CleanStop` consists of. Assumption: `MaxFrames \in Nat`, the
bound that makes the model finite; it may be any number.

**Clients_proofs.** Three models that share no variable, in one module; each theorem is about the specification
that it names.

*The balancer.* `AlwaysBalanced` proves `Balanced`, `CloseClosesAll` proves `ClosesAll`. Neither is inductive. `Turns` says
which values of `seq` the last calls of `Next` had: consecutive ones, each taken modulo the length. `round` is no longer than the balancer, so
two entries that agree would be two values less than the length apart with one remainder (`TurnsEach`). `Copying`
holds of the array that `Balancer.Close` copies from, whether it is still the balancer's own or one that an append left behind: it
holds a client at each index still to be copied, so that what a leave shifts under the copy is a client all the same. `Copy`
adds, for a copy under which nothing was shifted, that each client of `atClose` is in the array copied from or, later, in the
copy; `AllClosed` then waits for all of them. `Running` gives a client that runs its handlers one left to run, which keeps `todo`
a natural number. Assumption: `BalancerAssumption`, that the calls of `PutLabel` are pairs and `Nobody` is not a client.

*The resumable client.* `OneLiveConnection`: the connects form a chain. A connect with number
`j` has begun only when the goroutines of all smaller numbers are done, and a goroutine
that has left `Start` has closed its connection; so every other connection is closed, which is the first half
of `OneConnection`. The second half is `Placed`: `isReady` is set only beside a connect that attaches, or
has attached, a connection, and it stays set while the connection of a connect that has tried is open. What is
attached is then that connection or a closed one, which is the exception `Stale` names. Assumption:
`ResumeClientAssumption`.

*The server's sessions.* `SessionTypes` needs one addition to `TypeOK`: the cleaner has a
session in its hand when it looks at one, so what is pushed back is a session.
`WritesToCurrent` rests on `HeldIsOwned`: a socket belongs to the connection that set
it up, whoever resumes it, and a connection that has neither set one up nor resumed
one has none; so the connection that `Resume` gives a socket to is not yet
anybody's transport. `SessionsInStep` proves `InStep`. That the cleaner reaps nobody under its first connection follows from
`NeverBack`: a socket that was paused never writes to that connection again. That the map agrees with the heap, from two directions: each entry of
the map names a session of the heap (`MapInHeap`) and a session of the heap is found under its token but in the
cases that `ManagerAgrees` names (`MapFinds`). `ServerBasics` says whose a socket is and what a
connection that has not come yet cannot have left behind. Assumption: `SessionAssumption`.

**Fragmentation_proofs.** `SplitsFit`: while a split runs its cursors lie inside the payload, their
sum has not reached the payload's size, and each fragment so far took a byte at least, which bounds the number
of fragments; every frame on the wire fits and is valid. The room of a fragment is at least one byte
because the mtu is 14 or more (`LongEnough`): with less, the first fragment may be refused (see Frames above).
`PayloadsJoined` and `CutStaysLost` are about both ends and the wire between them. The sender stands at a *place* of the
stream (which payload, how far in its metadata and data, or past the end), the receiver at another, and the invariant
`JInv` is that the frames on the wire are a line of steps that leads from the receiver's place to the sender's (`Line`): a
frame is exactly the step from its place to the next, and a `CANCEL` or a `REQUEST_N` a step in place. The sender adds a step at the one end and the receiver takes one off at the other, so
each action is a lemma about one end of the line. When the wire is empty the two
places are the same, which is `NothingLeft` and `EndSeen`. Sizes, mtu and the number of payloads are arbitrary.
Assumptions: `MtuAssumption`, `SizeAssumption`, and `LongEnough` as a hypothesis of the three theorems.

**ReleaseQueue_proofs.** `ListHolds` is the inductive invariant: `next` links the nodes in the order of
`chain`, `head` is the last node taken, `tail` lies at or behind head's place, a node that an
enqueuer has not yet linked belongs to it alone, and each register (`lh`, `lt`, `ln`) holds
a node whose place in the list, once it has one, never changes (`Grows`). A compare-and-swap
that succeeds therefore finds the list as its loads left it: the node that `next` of the tail is swapped into
is the last, and the value read before the swap of `head` is the first behind it. `ListIsFifo` is the
refinement of `FifoQueue`, for any number of readers and payloads. `PayloadsReleasedOnce` proves `Releases`: what each
goroutine knows of its call (`Calls`) and which payloads of a reader lie in the queue, in a hand or have been
released (`OwnInv`, `LateInv`, `KeptInv`), the late ones being those put in when the drain is over, one for each reader at most. It takes
finitely many readers as a hypothesis, since otherwise the number of payloads left behind
(`Cardinality`) is not a number. Assumptions: `LKQueueAssumption`, `ReleaseQueueAssumption`.

**Requester_proofs.** `RequestsAdmitted` proves `Admitted`. For the lease the invariant adds the tickets that are left to
the calls allowed (`LeaseInv`). For the ids, the hard case is a caller that has picked an id and has not yet registered it: nothing in
the table guards that id, and other callers may go round a whole lap. `Window` says that the ids that were passed since are all in use,
by a stream that lives or by the pick of another caller; were the seed to come round to the id before it is registered,
every other id of the lap would be in use, and there are fewer streams than ids (`OneIsFree`, from the pigeonhole
theorem). `FirstIds` covers the first lap, in which the table is not asked. `PayloadsHeld` proves `Memory`. A
payload has a reference for its caller (`owned`), and one more while its call goes on (`Holding`) or its last frame waits
in the queue (`Waiting`), and never another (`Counted`); frames lie in the queue in the order of their fragments, so the
frame with the hook is behind the others of its call (`Queued`), and the first fragment of a split request is covered
by its call or by its last frame (`Covered`). `AnswerInv` counts the releases of an answer by the stage of
`onFinally` and by what `stopWithError` copied. Assumptions: `RequesterAssumption`, which has a `Situation` with fewer streams than
ids, and `NamesAssumption`, that the two names which are no callers are none.

**RequestStream_proofs.** `StreamsDelivered` proves `Delivered`. What is under way continues what was received: while
the subscriber has had no terminal signal its items are numbered from the last one received (`InSequence`), an end comes
behind all of them, and nothing is missing before a socket closes (`NothingLost`). The request is sent
once, and what may be under way before it is a `CANCEL` or a `REQUEST_N` (`NothingYet`, `OneRequest`); a `REQUEST_N` that does not follow it is remembered in `unheard` when it arrives
(`Demanded`, which also counts the demand of a request that is still to be sent). The demand under way is a sum over the frames (`UpTo`, a recursive function). The
prover has no induction to show that such a function exists; it is an invariant instead (`Summed`): the empty sequence has
one, and a frame put at the end, taken off the front or cut off changes it by that frame (`SumAppend`, `SumTail`,
`SumPrefix`). For that to hold of a tail, `Counts` says it of every stretch of the sequence. Assumptions: `RequestAssumption`.

**RequestChannel_proofs.** `ChannelDelivered` proves `Delivered`, for both directions at once. The two sides are not alike:
the responder knows the channel from its first frame, which is the request (`Unsent`, `FirstRequest`), and forgets
it after two ends, which `EndsCounted` counts where they happen: `OnComplete` or `OnError` of its
publisher, `DoFinally` of its receiving flux, and a last item that goes as a final payload. `Owed` and `Possible` follow the frames under way: the
demands on their way to a publisher, over the credit it still has, are within what its peer asked for and the one the request
carries; the items on their way to a subscriber, over those it has, are within those sent. Both count frames of some kinds in
a queue (`Counts`), by a function whose existence is the invariant, as `Summed` in `RequestStream_proofs`; appending, taking the head and
losing the queue each change it in one way. `InSequence` is the order: the items under way to a subscriber that still
listens are numbered from the last one received (`Numbered`), completion comes behind all of them, and while frames arrive none is missing. `Cancels`
is the origin of the crash: a CANCEL reaches the requester only when the responder's subscriber has cancelled. Assumption:
`ChannelAssumption`.

Only model-checked: liveness (`CloseReturns`, `EveryFrameDone`, `StartReturns`,
`CloseReturnsUnlessMissed`, `PausedEnds`, `Answered`, `Forgotten`, `GoesOnOrEnds`, `GivenBack`,
`GoesOn`, `DrainReturns`), which is beyond the prover; what `Framing` and
`Extensions` compute, which is recursion over data, and with it `FrameStream` (`Faithful`, `CountersAgree`,
`NoFrameWaiting`).

## Not modelled

- `reactor-go` (processors, schedulers, subscriptions) is outside the repository; its promises, as the
  code uses them, are external definitions of `RequestStream` and `RequestChannel`.
  `rx/mono` and `rx/flux` delegate to it. (`mono.CreateFromChannel` has two goroutines that may both
  finish its processor, rx/mono/utils.go:92-117; a processor takes the first.)
- The options of the client and server builders, the command line, the logger, the fuzz targets and the
  examples hold no protocol state. The printed forms of frames are left out.
- The server's own end: `destroySessions` runs once, and a connection that ends after it pushes a session
  nobody pops. The accept loops of the listeners; a connection accepted while a listener closes is
  neither served nor closed (tcp_transport.go:90).
- A peer that connects and stays silent before its first frame: no read deadline is set until
  `DispatchFrame` runs (transport.go:308), so `StartReturns` promises nothing for it.
- The responder's side of a lease: `simpleLease` sends its leases to a channel, which
  is an input of `WriteLoop`. Its goroutine stays at that send when the loop has ended (lease.go:66-78).
  A resumable client ignores leases.
- Two goroutines that write to one connection at a time. `simpleClientSocket.Setup` sends its SETUP beside the write loop that it has just
  started (simple_client_socket.go:49-53), and the server sends RESUME_OK after `SetTransport` has woken the write
  loop (server.go:303, 315); neither `TCPConn` nor `WebsocketConn` has a mutex. What a race on `bufio.Writer`, or
  a concurrent write of a websocket, does to the bytes is left out: a write is one step (`Put`, `Resume`),
  and the first frame of a connection is not one of `WriteLoop`.
- `GetError` and the error that `Close` returns are left out, as are the accessors and the closers of the simple sockets.
- The references to payloads are followed in `Requester` (what a caller sends, of whatever kind, and what answers a request-response) and in
  `ReleaseQueue` (what a channel receives), not for what a responder sends.

## Plan

1. The server's end and the listeners, with `ServerSessions`.
2. References to the payloads of a responder.
