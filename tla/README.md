# A verification of p2p-rtc-tunnel

Two peers behind NATs meet at a signaling server, set up a WebRTC connection and
carry HTTP and CONNECT traffic of their browsers over one DataChannel. This
directory holds TLA+ models of that program, the TLC configurations that check
them, and proofs about them checked by TLAPS.

## 1. The system

| Part | Source | State | Operations |
|---|---|---|---|
| Reliable channel | `protocol/reliable.py`, `protocol/frames.py` | `_send_seq`, `_send_window`, `_window_available`, `_recv_next_seq`, `_recv_buffer`, `_reassembly`, `_closed` | `send`, `close`, `handle_frame` (DATA, ACK, FIN), `retransmit_loop` |
| Multiplexer | `protocol/multiplexer.py` | `_channels`, `_next_channel_id`, `on_channel` | `open_channel`, `handle_raw`, `close_all` |
| Tunnel | `transport/rtp_channel.py` | `_dc`, `_ready`, `on_receive` | `bind_datachannel` and its callbacks, `wait_ready`, `send` |
| Peer connection | `transport/peer.py` | `_pc`, `_closed` | `connect_as_offerer`, `connect_as_answerer`, `close`, state callbacks |
| Signaling server | `signaling/server.py` | `_rooms` | `_websocket_handler`: join, relay, leave |
| Signaling client | `signaling/client.py` | `_receive_queue`, `_connected` | `connect`, `_reader`, `send`, `receive`, `close` |
| Local proxy | `proxy/http_server.py` (`HTTPProxyServer`) | per connection: channel, future, relay queue, `closed` | `_handle_http`, `_handle_connect` and its two relay tasks |
| Remote handler | `proxy/http_server.py` (`RemoteRequestHandler`) | per channel: `on_message`, relay queue, `closed` | `setup`, `_dispatch`, `_handle_http_request`, `_handle_connect` and its two relay tasks |
| Life of a peer | `main.py` | what exists already | `run_peer`: start-up in order, shut-down |
| Crypto pipeline | `crypto/` | none after construction | `process`, `unprocess` |
| Flow control | `protocol/flow_control.py` | `_tokens`, `_last_refill` | `TokenBucket.consume`; used by nothing |

One asyncio event loop runs per peer, so what looks concurrent is interleaved at
`await`s, and only at those that really suspend. Each message of the DataChannel
starts a task that goes through `tunnel.on_receive` = `mux.handle_raw`, the
channel's `handle_frame` and, for a complete message, `channel.on_message`, which
is awaited inside the delivery loop: a CONNECT relay runs to its end inside the
delivery of its first message, while later frames of the same channel are
delivered by loops of their own.

What is hard here: delivery loops of one channel that suspend half way, several
tasks waiting for the same window, retransmission racing acknowledgement,
callbacks that are not registered yet when a message arrives, timeouts on both
sides of an exchange, and shutting down while others are still at work. The
hazards are listed with their lines in `PROJECT.json`.

What makes each part correct:

- *Reliable channel*: messages reach `on_message` whole, once and in order; the
  window is never overfilled; a sender waits only while it is full; what is
  acknowledged was received.
- *Multiplexer*: channels of the two peers never share a number; a channel has its
  handler before its first message; `close_all` closes every channel.
- *HTTP exchange*: a client is given the response to its own request; a request is
  made on the internet at most once; it is answered while both peers serve.
- *CONNECT relay*: bytes pass in both directions without gap or reordering, from
  the first to the last; each side ends when its application leaves.
- *Signaling*: the offer reaches the other peer, the answer comes back, a third
  peer never gets into a room, and a room is empty once its peers have left.

## 2. The modules

| Module | Models | Built on |
|---|---|---|
| `ReliableChannel` | one direction of a channel: sender, receiver, the transport between | |
| `MessageStream` | what a channel promises: an ordered stream of whole messages | |
| `MCReliableChannel` | constants for TLC and the refinement mapping to `MessageStream` | `ReliableChannel`, instance of `MessageStream` |
| `ReliableChannelProofs` | proofs: type correctness, the window, the buffer, the wake-ups | `ReliableChannel` |
| `ReliableChannelOrder` | proof: delivery in order | `ReliableChannelProofs` |
| `ReliableChannelAcks` | proof: over the DataChannel, what is acknowledged was received | `ReliableChannelOrder` |
| `ReliableChannelStream` | proof: the channel implements `MessageStream` | `MCReliableChannel`, `ReliableChannelOrder` |
| `ConnectRelay` | one CONNECT end to end, both `_handle_connect` | instances of `BytePipe` |
| `BytePipe` | what one direction of a CONNECT promises: an ordered pipe | |
| `ConnectRelayProofs` | proofs: types, both directions of the relay, the refinement of the pipes | `ConnectRelay` |
| `PeerLife` | both peers from the open DataChannel to the end of the processes: `run_peer`, the table of channels, HTTP exchanges | |
| `PeerLifeProofs` | proofs: types, each request made once, each answer the client's own | `PeerLife` |
| `Signaling` | one room of the server and the peers that meet in it, up to the open DataChannel | |
| `SignalingProofs` | proofs: types, the size of the room, who holds a place, where answers go | `Signaling` |

A peer's life is cut in two at the open DataChannel: `Signaling` ends where
`PeerLife` begins. `ReliableChannel` is the detailed model of the protocol. The two
system modules above it do not carry its state: `ConnectRelay` uses a channel as the ordered
stream of messages that it was shown to implement, and `PeerLife` keeps of it what
the life cycle of the table can get at (numbers, window, ACK, retransmission,
`_closed`), with messages of one frame.

### ReliableChannel

A step runs from one `await` that may suspend to the next. `Send`, `Close`,
`WindowCheck` and `RawSend` are `send` and `_send_frame` cut at the wait for the
window and at `_send_raw`; `ReceiveAck` is `_process_ack`; `RetransmitPass` and
`RetransmitSend` are `retransmit_loop` cut at its `_send_raw`. On the other side
`ReceiveFrame` is the arrival up to the `await` of `_send_ack`, `ProcessData` the
rest of `_process_data` up to the first `await` of `on_message`, and
`HandlerReturns` continues a delivery loop from there, over whatever the buffer
holds by then. `Attach` is the moment `run_peer` sets `on_receive`. The delivery
loop is one operator, `Deliver`, which takes frames up to the end of a message or
the first gap. `_window_available` is cleared right before every wait and has no
reader but its waiters, so the event is the set of tasks waiting. Time is left
out: any set of outstanding frames may be due in a retransmission pass. `sent`,
`dropped` and `delivered` are history. `CanTake` is a bound of the model, `MaxTransit`:
`tunnel.send` hands over any number of messages once it is ready, and a `_send_raw`
that waits for room stands here for one that waits for `_ready`.

The transport does what `Faults` allows: nothing, losing, reordering. The
DataChannel of the program is created with `ordered=True` and is reliable, so
`Faults = {}` or `{"late"}` is the program as it runs; the others are what the
protocol says of itself ("Reliability layer over unreliable RTP transport.").

### ConnectRelay

`main`, `reader`, `writer` and `closed` of a side are the three coroutines of
`_handle_connect` and their event; `handler` is `channel.on_message`, which is
replaced twice (`on_first_msg` or `_dispatch`, then `on_relay` or `on_data`), and
`Deliver` gives a message to whichever is there. `AppWrites` and `AppLeaves` are
client and target, which are not part of the program. The relay loops are the same
code at both ends, so one set of actions serves both sides. `ToTarget` and
`ToClient` map the two directions to `BytePipe`: what has gone in is `taken` at one
side, what has come out is `got` at the other.

### PeerLife

`phase` is how far `run_peer` is: `connecting` (no `on_receive`: messages are
discarded), `starting` (no `on_channel` yet), `serving`, `stopping` (in
`remote_handler.close()`), `closing` (in `close_all`), `leaving` (table cleared, in
`peer.close()`), `over`. `HandleRaw` is `handle_raw` with all that follows it, one
step since an event that is set is awaited without suspending. For the same reason
`CloseAll` closes channel after channel in one step until it must wait, for the
window of a channel or for a tunnel that is not ready; `CloseResumes` goes on from
there, or ends the process if the table has grown, as the iteration then raises.
The table is cleared when all are closed, but the tasks of its channels live until the
process ends: `cleared` keeps these channels for the one pass that a `retransmit_loop`
makes after `close()` (`LastPass`) and for the response of a request that was in
progress (`Respond` with a job that is no longer `listed`), while `peer.close()` is
awaited.
`Disconnect` is `on_close` of the DataChannel. `jobs` are the calls of
`_handle_http_request`; `made` tells whether the session was open, and `listed`
whether their channel is still in the table.

### Signaling

A peer of the model is one run of the program, so a restart is another peer and a
third process is a third peer. `at` is where `run_peer` is: in `ws_connect` and the
wait for its role (`joining`), about to send (`offering`, `answering`), in
`receive()` (`awaiting`), in `wait_ready` (`connecting`), in `stop.wait()`
(`ready`). `handler` is the coroutine of `_websocket_handler` for the peer's
WebSocket: not started, before its first test, in its loop, or past its `finally`.
`Admit` is the handler up to the loop, `Relay` one turn of the loop, `Notice` the
end of the loop; `send_json` does not suspend for messages of this size, so each is
one step. `Relay` has the failing send: it ends the handler of the *sender*, whose
place in the room is given up although it is the other one that is gone. `HearRole`
is the rest of `SignalingClient.connect`, `Receive` is `receive()` with
`setRemoteDescription`, which raises on a description of the wrong kind, and
`SendOffer` and `SendAnswer` are the sends of `peer.py`, which raise once the reader
has seen the WebSocket end. `OpenTunnel` is ICE, which is external: it connects two
peers that hold each other's descriptions. `Crash` is a host or network that is
lost without a word: the server has no heartbeat, so it may never notice.
`ServerStops` is a stop and a new start, which forgets all rooms.

## 3. What is checked

| Run | Specification, bounds | Properties |
|---|---|---|
| `channel_fifo` | no faults; one sender, one closer, window 2, 2 messages of up to 2 fragments, 1 retransmission, one message in transit each way, with fairness | `TypeOK`, `WindowBound`, `AckedWasReceived`, `NoLostWakeup`, `EveryFrameArrives`, `SendReturns`, `CloseReturns` |
| `channel_faulty` | loss, reordering, late peer; one sender, same sizes | `DeliveredInOrder`, `NoStrandedFrame`, `ImplementsStream` |
| `channel_ack_hole` | loss | `AckedWasReceived`: violated |
| `channel_lost_wakeup` | loss, window 1, fair, all timers fire | `SendReturns`: violated |
| `connect_relay` | 2 chunks each way, with fairness | `TypeOK`, `TargetGetsAll`, `ClientGetsRun`, `ImplementsPipes`, `ClientLeaveEnds`, `TargetLeaveEnds` |
| `connect_early_bytes` | 2 chunks each way | `ClientGetsAll`: violated |
| `life_exchange` | one client, window 2, both peers start up and may shut down, with fairness | `AnswerArrives` |
| `life_shutdown` | a client at each peer, window 1, both peers start up and one shuts down | `TypeOK`, `FetchedOnce`, `OwnAnswer` |
| `life_startup` | one client | `HandlerFirst`: violated |
| `life_close` | two clients, the connection may fail, with fairness | `AllGetClosed`: violated |
| `signaling_rooms` | two offerers and two answerers, one of each may lose its host, one restart of the server, with fairness | `TypeOK`, `AnswerReachesAsker`, `RoomHolders`, `OfferLeadsToTunnel`, `RoomFreed` |
| `signaling_early_offer` | one offerer, one answerer, nothing fails, with fairness | `RoommatesMeet`: violated |

Why the bounds are enough. Two fragments make a message that can be cut; two
messages of two fragments over a window of two make a sender that waits, is woken
and waits again, frames of two messages outstanding at once, and, with two
messages in transit, a frame overtaken by its successor. A closer in the same
window makes two tasks that one ACK wakes. Over the DataChannel, which is ordered,
one message in transit is enough, since the sender holds the rest. One retransmission makes a duplicate
and a frame that is given up. In `connect_relay` two chunks are the least that can
be reordered, and of which one can be lost and the other not. In `PeerLife` a
client at each peer lets numbers collide and gives the peer that shuts down a channel
of its own and one of the other's, so that its table may grow while `close_all` waits;
a window of one frame makes it wait. Two messages in transit each way let a request
and its copy, or a response and a FIN, be under way together, and one retransmission
makes the copy. One client is enough for `AnswerArrives`, since the channels of two
share nothing but the transport. In `signaling_rooms` two of each role let a third peer find the room
full, let two peers of one role share the room, and let one take the place of a peer
that was lost, in the middle of its offer; one restart of the server splits the peers
of each role into those it knows and those it does not. A larger bound adds repetitions
of these cases: no guard of a module tells more of them apart.

Fairness. asyncio runs every task that can run, so each task step is weakly fair.
The DataChannel is reliable and ordered, so the first message in transit arrives
(not in the runs with faults). Handlers return. In `Signaling` the server learns of
the end of a process (its socket is closed) but need not learn of a lost host, and ICE
connects two peers that hold each other's descriptions and do not stop. Timers fire: in `ConnectRelay`
`wait_for` of 30 s and 120 s, in `PeerLife` the retransmission of a request; in
`ReliableChannel` they fire only in `TimerSpec`, which the run of a disagreement
uses. No one is obliged to dial, to send, to close, to stop or to leave, targets owe nothing
but an answer to a connection attempt within its timeout, and the 60 s timeout of
a client is never assumed, so that `AnswerArrives` is about answers.

Deadlock is not checked: a peer may have nothing to do, and processes end.

### Where code and comments disagree

1. `channel_ack_hole`: ACKs say `seq + 1` of whatever arrived, and are processed as
   cumulative. A lost frame is taken for received once its successor arrives. It
   needs a lossy transport or a frame discarded before `on_receive` is set.
2. `channel_lost_wakeup`: a frame that is given up makes room in the window, but no
   waiter is woken.
3. `connect_early_bytes`: what the target sends right after the connection is up is
   dropped at the local side by `on_first_msg`, which stays registered until the
   200 has been written.
4. `life_startup`: a request that arrives between `tunnel.on_receive = ...` and
   `remote_handler.setup()` is acknowledged and never handled; its client gets 504
   after 60 s.
5. `life_close`: `close_all` after the loss of the connection never returns.
6. `signaling_early_offer`: an offer is forwarded to whoever is in the room when it
   comes and is never sent again. If the offerer was first, both peers wait for ever.

`OfferLeadsToTunnel` begins where 6 has been avoided: with an offer that is first in
the queue of an answerer that waits for it. `AnswerArrives` excuses the requests of 4, and the requests given up while the
other peer discards them. That 3 has no counterpart in the other direction is read off
the code, and `TargetOpens` is one step for that reason: between `connect_ok` and the
registration of `on_data` no `await` suspends, since the window has room and the tunnel
is ready. `TargetGetsAll` checks what follows from it.

Several hazards listed in `PROJECT.json` are behaviours that the models have and that no
property forbids, because neither the code nor its documents promise otherwise: what is
sent after FIN, a relay left running for a client that has gone, an answer that comes
after its asker, exchanges that a restart of the server cuts in two. Each says so in its
note, with the property that excuses it.

## 4. What is proved

Each theorem holds for every value of the constants, under the assumptions its module
names. Every invariant that a passing run checks is also a theorem, and so are the two
refinements. What is assumed of the constants beyond their types is said with the
theorem that needs it.

For `ReliableChannel` the theorems are about any number of sending and closing tasks,
any window, any number of retransmissions, messages and fragments, and any set of
faults (`ChannelAssumption` gives the constants their types).

- `ChannelTypeOK`, `WindowStaysBounded`, `NothingStranded` and `NoWakeupIsLost`
  (`ReliableChannelProofs`). The window bound is inductive with `TypeOK` alone since
  the window test and the insertion have no suspending `await` between them: whoever
  was woken tests again. A stranded frame is excluded because every delivery loop
  runs on to the first gap or to a message, and a loop that stops at a message is
  counted in `inHandler`.
- `DeliveryInOrder` (`ReliableChannelOrder`): with one sending task the messages that
  `on_message` is given are those sent, in order, whole and once. `DeliveredInOrder`
  says nothing of frames still on their way and is not inductive. `InOrderInv` adds:
  every copy of a frame, wherever it is, is the one in the history `sent`
  (`Authentic`); successive frames of that history are successive fragments
  (`SentInOrder`), and the sender's position continues it (`SenderCursor`); what
  `reassembly` and every delivered message hold is a run of consecutive fragments
  (`Runs`) that ends where `_recv_next_seq` points (`ReceiverCursor`). A delivery loop
  then extends a run by a run. Loss, repetition and reordering change only which copies
  exist, which `Authentic` does not mind.

- `ChannelImplementsStream` (`ReliableChannelStream`): with one sending task,
  `Spec => ImplementsStream`. The mapping takes the sizes of the messages submitted
  from the frames sent, so `StreamInv` adds to `InOrderInv` that all data frames of a
  message tell one size (`SizesAgree`), that no message was skipped but the one whose
  first fragment waits (`NoneSkipped`), and that the receiver holds only what the
  sending task sent (`FromSender`). `SentInOrder` would not do: it links frames with no
  FIN between them, and the task goes on submitting after another has called
  `close()`. `Send` then submits a message, a delivery loop that reaches the end of one
  delivers the next, and every other step leaves the stream alone.
- `AcksAreHonest` (`ReliableChannelAcks`): with one sending task and `Faults = {}`,
  which is the DataChannel of the program with a peer that listens in time,
  `AckedWasReceived` holds. `channel_ack_hole` shows that it needs `Faults = {}`: an
  ACK speaks of all numbers below it, though the peer saw one frame. `AckInv` says why
  that is harmless here. A data frame is received, in transit or being sent
  (`NothingLost`), and the one being sent is the last (`SendsTheLast`), so what goes out,
  a retransmitted copy included, goes behind a copy of every data frame below it that
  the peer has not got (`WireInOrder`). What arrives then finds all data frames below it
  received (`AckingInOrder`), and so do the ACKs (`AcksHonest`). Only a FIN may overtake,
  and a FIN is not acknowledged.

`OneSender` is what the proxy does: each direction of a channel has one task that
sends. Two tasks that send on one channel do mix their fragments. `Senders # {}`, in
the refinement, is the sender that the mapping is about.

For `ConnectRelay` the only assumption is `ChunksAssumption`, a number of chunks.

- `ConnectTypeOK`, `TargetGetsEverything`, `ClientGetsNoGap` and
  `RelayImplementsPipes` (`ConnectRelayProofs`). `TargetGetsAll` alone is not
  inductive: it needs that no chunk comes before `on_data` is registered. `IInv` is
  `TypeOK` with: how far each side can be, given where the other is (`Dialogue`); a
  side that does not relay has read, queued and written nothing (`NotYet`); before
  `on_data` only the request can be on its way to the remote side (`RemoteBox`);
  before `on_relay`, what is on its way to the local side is the reply, then the
  latest chunks in series (`LocalBox`); and of a side that relays, what it has written
  and what is ahead of it make one series that ends with what the other side read
  last, at the target's side from 1 on (`Flows`). Every property is read off `Flows`;
  for the pipes, `WriteChunk` takes the chunk that follows the last one written and
  `ReadChunk` puts the next one in, and no other action touches them.

For `Signaling` it is `SignalingAssumption`: the roles are disjoint. There may be any
number of peers, of lost hosts and of restarts.

- `SignalingTypeOK`, `RoomIsHeldByTheServed` and `AnswersReachTheirAsker`
  (`SignalingProofs`). The room holds at most two since its test and the entry have no
  `await` between them that suspends. `RoomHolders` needs that a handler before its
  loop belongs to a peer that has nothing in the room or under way (`Fresh`).
  `AnswerReachesAsker` needs that handlers in their loop have their entry
  (`ServedInRoom`) and that a message names a peer that was served (`Origins`): the
  answerer and the asker, both served, are two in a room of two, so that a third,
  whom the answer would reach instead, finds no place (lemma `NoThird`).

For `PeerLife` it is the assumption that gives its constants their types, and the
theorems are about any set of clients at either peer, any window and any number of
retries.

- `LifeTypeOK`, `RequestMadeOnce` and `AnswerIsOwn` (`PeerLifeProofs`). `TypeOK`
  bounds how far a channel can count, which depends on what may still arrive for it and
  on who may still send on it, so it is part of a larger invariant. `LifeInv` has four
  parts: `Types`; `Numbers` (a client that has opened a channel has a number that its
  peer allotted, of that peer's parity and below its `_next_channel_id`, and no other
  client has it); `Tables` (what is in transit, and what a channel, a job or
  `close_all` holds, is valid for the peer it is for, and each channel has left what
  its jobs, its client and its FIN still need); `Leftovers` (the same of the channels that
  `close_all` has cleared, which have at most their response still to send, and of which
  there are none to send on before `leaving`). The operators of the table, and
  `CloseOn`, whose loop over the channels sends a sequence of FINs in one step, have a
  lemma each. `MadeOnce` adds that a request made was heard: either its channel
  is still in the table with `_recv_next_seq` past the request, or the peer is too late
  in its life to fetch (`Late`). That either holds for good is what keeps a copy that
  arrives after `close_all` has cleared the table from being fetched again, though the
  table has forgotten it. `OwnAnswers` adds that what a future was given is the
  response that names its client; that it is the right client is `Numbers`, since a
  response goes to whoever waits on its channel.

Only model-checked: the liveness properties (`EveryFrameArrives`, `SendReturns`,
`CloseReturns`, `ClientLeaveEnds`, `TargetLeaveEnds`, `AnswerArrives`,
`OfferLeadsToTunnel`, `RoomFreed`), which rest on `ENABLED` of the actions under
fairness and are out of the prover's reach. The properties of the runs that expect a
violation are not theorems, of course.

## 5. What is not modelled

- The content of messages: encryption and compression (pure functions without
  state), JSON, HTTP heads and bodies. Malformed input is left out with it.
- The binary layout of frames and the width of their fields; channel numbers and
  sequence numbers do not overflow.
- PING, PONG and the RTT estimate of a channel: nothing sends or reads them.
- Configuration, which is read once. `flow_control.py`: nothing uses it. `srtp_wrapper.py` and the cover track: no state
  that anything depends on.
- ICE, and what `/health` reports; a connection that fails before it was open is a
  `wait_ready` that never returns. That a loop of the server over a room suspends in a
  send, which takes a full write buffer, and a `mtu` too small for a frame's head.
- In `PeerLife`, messages of several frames and CONNECT; `ReliableChannel` and
  `ConnectRelay` have them. Frames that wait in `_recv_buffer` are left out there: a
  frame can only wait behind a FIN, and what it brings comes to a future already done.

## 6. Plan

Done: `ReliableChannel`, `ConnectRelay`, `Signaling` and `PeerLife`, their abstract
specifications, and proofs of all their invariants and refinements.

1. Action properties worth a proof beside the invariants: a frame that left the window
   does not return; a peer's `phase` only moves on; a room entry is only removed by the
   handler that made it.
2. The safety part of the liveness properties, such as that a waiting sender always has a
   frame outstanding that an ACK or the retransmission loop will take out of the window.
3. Messages of several frames in `PeerLife`, if the state space allows.
