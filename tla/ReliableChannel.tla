--------------------------- MODULE ReliableChannel ---------------------------
(***************************************************************************)
(* One direction of protocol/reliable.py: the sending half of the          *)
(* ReliableChannel of one peer, the receiving half of the ReliableChannel  *)
(* with the same id at the other peer, and the transport between them.     *)
(* The two directions of a channel share only _closed and the id.          *)
(*                                                                         *)
(* asyncio is cooperative, so a step of this model runs from one await     *)
(* that may suspend to the next.  The awaits that may suspend are          *)
(* _window_available.wait(), _send_raw() (tunnel.send waits for _ready)    *)
(* and on_message(); _send_lock is held over no await, hence never waited  *)
(* for.                                                                    *)
(***************************************************************************)
EXTENDS Integers, FiniteSets, Sequences, SequencesExt

CONSTANTS
    Senders,        \* tasks that call send()
    Closers,        \* tasks that call close()
    WindowSize,     \* window_size
    MaxRetransmits, \* max_retransmits
    MaxMessages,    \* bound: messages each sender submits
    MaxFragments,   \* bound: fragments of one message
    MaxTransit,     \* bound: messages in transit each way, and tasks in _send_ack
    Faults          \* what goes wrong: "loss" and "reorder" of the transport,
                    \* "late": the peer sets tunnel.on_receive late

ASSUME ChannelAssumption ==
    /\ Senders \cap Closers = {}
    /\ WindowSize \in Nat \ {0}
    /\ MaxRetransmits \in Nat
    /\ MaxMessages \in Nat
    /\ MaxFragments \in Nat \ {0}
    /\ MaxTransit \in Nat \ {0}
    /\ Faults \subseteq {"loss", "reorder", "late"}

Tasks == Senders \cup Closers

(* A payload is known by where it comes from: fragment frag of the of      *)
(* fragments of the msg-th message of a task.  FIN carries no payload.     *)
Payload == [from : Tasks, msg : Nat, frag : Nat, of : Nat]
Frame   == [type : {"DATA", "FIN"}, seq : Nat, more : BOOLEAN, payload : Payload]

NoFragment(t) == [from |-> t, msg |-> 0, frag |-> 0, of |-> 0]

(* MORE_FRAGMENTS.  Mutant: is_last is computed one fragment early.        *)
MoreButOne(p) == p.frag + 1 < p.of
More(p) == p.frag < p.of

MakeFrame(t, seq, p) ==
    [type |-> IF t \in Closers THEN "FIN" ELSE "DATA",
     seq |-> seq, more |-> More(p), payload |-> p]

VARIABLES
    pc,         \* where each task is in _send_frame
    frame,      \* the frame it builds; its number is final once it has not to wait
    sendSeq,    \* _send_seq
    sendWindow, \* _send_window: seq -> [frame, retries]
    closed,     \* _closed
    loop,       \* where retransmit_loop is
    resend,     \* its local variable frames_to_resend, not yet sent
    attached,   \* the receiving peer has set tunnel.on_receive
    acking,     \* data frames whose handler is in _send_ack
    recvNext,   \* _recv_next_seq
    recvBuffer, \* _recv_buffer: seq -> frame
    reassembly, \* _reassembly[channel_id]
    inHandler,  \* number of delivery loops suspended in on_message
    wire,       \* frames in transit
    ackWire,    \* ACK frames in transit on the way back
    sent,       \* history: the frame with number s is sent[s + 1]
    dropped,    \* history: frames given up after MaxRetransmits
    delivered   \* history: messages handed to on_message

senderVars   == <<pc, frame, sendSeq, sendWindow, sent>>
loopVars     == <<loop, resend, dropped>>
receiverVars == <<recvNext, recvBuffer, reassembly, inHandler, delivered>>
vars == <<senderVars, closed, loopVars, attached, acking, receiverVars, wire, ackWire>>

Init ==
    /\ pc = [t \in Tasks |-> "idle"]
    /\ frame = [t \in Tasks |-> MakeFrame(t, 0, NoFragment(t))]
    /\ sendSeq = 0
    /\ sendWindow = [s \in {} |-> 0]
    /\ closed = FALSE
    /\ loop = "asleep"
    /\ resend = {}
    /\ attached \in BOOLEAN /\ (attached <=> "late" \notin Faults)
    /\ acking = <<>>
    /\ recvNext = 0
    /\ recvBuffer = [s \in {} |-> 0]
    /\ reassembly = <<>>
    /\ inHandler = 0
    /\ wire = <<>>
    /\ ackWire = <<>>
    /\ sent = <<>>
    /\ dropped = {}
    /\ delivered = <<>>
-----------------------------------------------------------------------------
(* The sending half.                                                       *)

Put(f, k, v) == [x \in DOMAIN f \cup {k} |-> IF x = k THEN v ELSE f[x]]

WindowFull == Cardinality(DOMAIN sendWindow) >= WindowSize

(* The window test, repeated by a task that was woken.  Mutant: "if" for   *)
(* "while", it is not repeated.                                            *)
MustWaitOnce(t) == pc[t] # "woken" /\ WindowFull
MustWait(t) == WindowFull

(* _send_frame from the window test to the await of _send_raw, or to the   *)
(* await of _window_available.  The event is cleared right before every    *)
(* wait, so it is its waiters and nothing else.                            *)
SendFrame(t, p) ==
    LET f == MakeFrame(t, sendSeq, p)
    IN  /\ frame' = [frame EXCEPT ![t] = f]
        /\ \/ /\ MustWait(t)
              /\ pc' = [pc EXCEPT ![t] = "waiting"]
              /\ UNCHANGED <<sendSeq, sendWindow, sent>>
           \/ /\ ~MustWait(t)
              /\ pc' = [pc EXCEPT ![t] = "sending"]
              /\ sendSeq' = sendSeq + 1
              /\ sendWindow' = Put(sendWindow, sendSeq, [frame |-> f, retries |-> 0])
              /\ sent' = Append(sent, f)

(* send(data): data is cut into n fragments and the first is sent.         *)
Send(t, n) ==
    /\ pc[t] = "idle"
    /\ frame[t].payload.msg < MaxMessages
    /\ SendFrame(t, [from |-> t, msg |-> frame[t].payload.msg + 1, frag |-> 1, of |-> n])
    /\ UNCHANGED <<closed, loopVars, attached, acking, receiverVars, wire, ackWire>>

(* close(): no test that the channel is open, and FIN takes a number.      *)
Close(t) ==
    /\ pc[t] = "idle"
    /\ closed' = TRUE
    /\ SendFrame(t, NoFragment(t))
    /\ UNCHANGED <<loopVars, attached, acking, receiverVars, wire, ackWire>>

(* A task that _window_available has woken.                                *)
WindowCheck(t) ==
    /\ pc[t] = "woken"
    /\ SendFrame(t, frame[t].payload)
    /\ UNCHANGED <<closed, loopVars, attached, acking, receiverVars, wire, ackWire>>

(* Bound of the model, not of the program: tunnel.send, once ready, hands  *)
(* over any number of messages.                                            *)
CanTake(q) == Len(q) < MaxTransit

(* _send_raw completes; send() goes on to the next fragment or returns.    *)
RawSend(t) ==
    /\ pc[t] = "sending" /\ CanTake(wire)
    /\ wire' = Append(wire, frame[t])
    /\ \/ /\ frame[t].more
          /\ SendFrame(t, [frame[t].payload EXCEPT !.frag = @ + 1])
       \/ /\ ~frame[t].more
          /\ pc' = [pc EXCEPT ![t] = IF t \in Closers THEN "done" ELSE "idle"]
          /\ UNCHANGED <<frame, sendSeq, sendWindow, sent>>
    /\ UNCHANGED <<closed, loopVars, attached, acking, receiverVars, ackWire>>

(* The position of a message a transport step may take.                    *)
Takes(i, q) == i \in DOMAIN q /\ ("reorder" \in Faults \/ i = 1)

(* The numbers that an ACK leaves in the window.  Mutant: "<=" for "<".    *)
UnackedAbove(ack) == {s \in DOMAIN sendWindow : s > ack}
Unacked(ack) == {s \in DOMAIN sendWindow : s >= ack}

(* _window_available.set(): every waiter is made ready.  Mutant: left out. *)
WakeNobody == pc
WakeWaiters == [t \in Tasks |-> IF pc[t] = "waiting" THEN "woken" ELSE pc[t]]

ProcessAck(ack) ==
    /\ sendWindow' = Restrict(sendWindow, Unacked(ack))
    /\ pc' = IF Cardinality(Unacked(ack)) < WindowSize THEN WakeWaiters ELSE pc

ReceiveAck(i) ==
    /\ Takes(i, ackWire)
    /\ ackWire' = RemoveAt(ackWire, i)
    /\ ProcessAck(ackWire[i])
    /\ UNCHANGED <<frame, sendSeq, sent, closed, loopVars, attached, acking, receiverVars, wire>>

(* retransmit_loop reads _closed only before it sleeps.                    *)
LoopTop == IF closed THEN "ended" ELSE "asleep"

(* Out of retries.  Mutant: ">" for ">=".                                  *)
ExpiredLate(s) == sendWindow[s].retries > MaxRetransmits
Expired(s) == sendWindow[s].retries >= MaxRetransmits

(* One pass over the window.  Time is left out: any set of outstanding     *)
(* frames may be due.  Those out of retries are dropped, nobody is woken.  *)
RetransmitPass(due) ==
    LET expired == {s \in due : Expired(s)}
    IN  /\ loop = "asleep"
        /\ sendWindow' = [s \in DOMAIN sendWindow \ expired |->
                            IF s \in due THEN [sendWindow[s] EXCEPT !.retries = @ + 1]
                                         ELSE sendWindow[s]]
        /\ dropped' = dropped \cup expired
        /\ resend' = {sendWindow[s].frame : s \in due \ expired}
        /\ loop' = IF due \subseteq expired THEN LoopTop ELSE "sending"
        /\ UNCHANGED <<pc, frame, sendSeq, sent, closed, attached, acking, receiverVars, wire, ackWire>>

(* The frames collected are sent in the order of the window.               *)
RetransmitSend ==
    /\ loop = "sending" /\ CanTake(wire)
    /\ \E f \in resend :
        /\ \A g \in resend : f.seq <= g.seq
        /\ wire' = Append(wire, f)
        /\ resend' = resend \ {f}
        /\ loop' = IF resend = {f} THEN LoopTop ELSE "sending"
    /\ UNCHANGED <<senderVars, closed, dropped, attached, acking, receiverVars, ackWire>>
-----------------------------------------------------------------------------
(* The receiving half.                                                     *)

(* The peer's run_peer sets tunnel.on_receive.                             *)
Attach ==
    /\ ~attached
    /\ attached' = TRUE
    /\ UNCHANGED <<senderVars, closed, loopVars, acking, receiverVars, wire, ackWire>>

(* A frame arrives.  Without on_receive it is discarded; handle_frame does *)
(* nothing with FIN; a data frame's task awaits _send_ack first.           *)
ReceiveFrame(i) ==
    /\ Takes(i, wire) /\ CanTake(acking)
    /\ wire' = RemoveAt(wire, i)
    /\ acking' = IF attached /\ wire[i].type = "DATA" THEN Append(acking, wire[i]) ELSE acking
    /\ UNCHANGED <<senderVars, closed, loopVars, attached, receiverVars, ackWire>>

(* Frames recvNext .. k-1 are what the delivery loop takes out of buf up   *)
(* to the end of a message, or to the first gap.                           *)
TakenUpTo(buf, k) ==
    /\ recvNext .. k - 1 \subseteq DOMAIN buf
    /\ \A s \in recvNext .. k - 2 : buf[s].more
    /\ k \in DOMAIN buf => k > recvNext /\ ~buf[k - 1].more

(* What _reassembly holds after a message.  Mutant: it is not reset.       *)
KeepReassembly(data) == data
ResetReassembly(data) == <<>>

(* The delivery loop, up to its end or its next await of on_message; n     *)
(* other loops are suspended there.                                        *)
Deliver(buf, n) ==
    \E k \in recvNext .. recvNext + Cardinality(DOMAIN buf) :
        LET data == reassembly \o [i \in 1 .. k - recvNext |-> buf[recvNext + i - 1].payload]
        IN  /\ TakenUpTo(buf, k)
            /\ recvNext' = k
            /\ recvBuffer' = Restrict(buf, DOMAIN buf \ (recvNext .. k - 1))
            /\ \/ /\ k > recvNext /\ ~buf[k - 1].more
                  /\ delivered' = Append(delivered, data)
                  /\ reassembly' = ResetReassembly(data)
                  /\ inHandler' = n + 1
               \/ /\ k > recvNext => buf[k - 1].more
                  /\ reassembly' = data
                  /\ inHandler' = n
                  /\ UNCHANGED delivered

(* The duplicate check.  Mutants: left out; "<=" for "<".                  *)
NoDuplicates(seq) == FALSE
DuplicateOrNext(seq) == seq <= recvNext
Duplicate(seq) == seq < recvNext

(* _process_data after its first await: duplicates are recognised only now.*)
ProcessData(i) ==
    LET f == acking[i]
    IN  /\ i \in DOMAIN acking /\ CanTake(ackWire)
        /\ acking' = RemoveAt(acking, i)
        /\ ackWire' = Append(ackWire, f.seq + 1)
        /\ \/ Duplicate(f.seq) /\ UNCHANGED receiverVars
           \/ ~Duplicate(f.seq) /\ Deliver(Put(recvBuffer, f.seq, f), inHandler)
        /\ UNCHANGED <<senderVars, closed, loopVars, attached, wire>>

(* on_message returns and the delivery loop that awaited it goes on.       *)
HandlerReturns ==
    /\ inHandler > 0
    /\ Deliver(recvBuffer, inHandler - 1)
    /\ UNCHANGED <<senderVars, closed, loopVars, attached, acking, wire, ackWire>>
-----------------------------------------------------------------------------
(* The transport drops a message in transit.                               *)
Lose ==
    /\ "loss" \in Faults
    /\ \/ \E i \in DOMAIN wire : wire' = RemoveAt(wire, i) /\ UNCHANGED ackWire
       \/ \E i \in DOMAIN ackWire : ackWire' = RemoveAt(ackWire, i) /\ UNCHANGED wire
    /\ UNCHANGED <<senderVars, closed, loopVars, attached, acking, receiverVars>>

Next ==
    \/ \E t \in Senders, n \in 1 .. MaxFragments : Send(t, n)
    \/ \E t \in Closers : Close(t)
    \/ \E t \in Tasks : WindowCheck(t) \/ RawSend(t)
    \/ \E i \in DOMAIN ackWire : ReceiveAck(i)
    \/ \E due \in SUBSET DOMAIN sendWindow : RetransmitPass(due)
    \/ RetransmitSend
    \/ Attach
    \/ \E i \in DOMAIN wire : ReceiveFrame(i)
    \/ \E i \in DOMAIN acking : ProcessData(i)
    \/ HandlerReturns
    \/ Lose

Spec == Init /\ [][Next]_vars

(* What asyncio and the event loop guarantee: a task that can run runs, a  *)
(* message in transit arrives, a handler of a message returns.  Nothing    *)
(* obliges anyone to send or to close, or a retransmission to happen.      *)
Fairness ==
    /\ \A t \in Tasks : WF_vars(WindowCheck(t)) /\ WF_vars(RawSend(t))
    /\ WF_vars(ackWire # <<>> /\ ReceiveAck(1))
    /\ WF_vars(wire # <<>> /\ ReceiveFrame(1))
    /\ WF_vars(acking # <<>> /\ ProcessData(1))
    /\ WF_vars(HandlerReturns)
    /\ WF_vars(RetransmitSend)
    /\ WF_vars(Attach)

(* The timer of retransmit_loop also fires, for every frame outstanding.   *)
TimerFairness ==
    WF_vars(sendWindow # <<>> /\ RetransmitPass(DOMAIN sendWindow))

FairSpec == Spec /\ Fairness
TimerSpec == FairSpec /\ TimerFairness
-----------------------------------------------------------------------------
(* Properties.                                                             *)

(* Every variable has its type; the history of sent frames is indexed by   *)
(* sequence number (_send_frame allots them one by one).                   *)
TypeOK ==
    /\ pc \in [Tasks -> {"idle", "waiting", "woken", "sending", "done"}]
    /\ frame \in [Tasks -> Frame]
    /\ sendSeq \in Nat
    /\ DOMAIN sendWindow \subseteq 0 .. sendSeq - 1
    /\ sendWindow \in [DOMAIN sendWindow -> [frame : Frame, retries : 0 .. MaxRetransmits]]
    /\ closed \in BOOLEAN
    /\ loop \in {"asleep", "sending", "ended"}
    /\ resend \subseteq Frame
    /\ attached \in BOOLEAN
    /\ acking \in Seq(Frame)
    /\ recvNext \in Nat
    /\ DOMAIN recvBuffer \subseteq Nat
    /\ recvBuffer \in [DOMAIN recvBuffer -> Frame]
    /\ reassembly \in Seq(Payload)
    /\ inHandler \in Nat
    /\ wire \in Seq(Frame)
    /\ ackWire \in Seq(Nat)
    /\ sent \in Seq(Frame)
    /\ Len(sent) = sendSeq
    /\ dropped \subseteq Nat
    /\ delivered \in Seq(Seq(Payload))

(* Never more than window_size frames are outstanding, however the tasks   *)
(* that one ACK woke interleave with tasks that come to _send_frame anew.  *)
WindowBound == Cardinality(DOMAIN sendWindow) <= WindowSize

(* With one sending task per channel, which is how proxy/ uses channels,   *)
(* the i-th message given to on_message is the i-th message sent, whole,   *)
(* once and in order, whatever is lost, duplicated or reordered and at     *)
(* whatever points the delivery loops suspend.                             *)
DeliveredInOrder ==
    \A i \in DOMAIN delivered : \A j \in DOMAIN delivered[i] :
        LET p == delivered[i][j]
        IN  p.msg = i /\ p.frag = j /\ p.of = Len(delivered[i])

(* The delivery loop of _process_data leaves nothing behind: a buffered    *)
(* frame is never below _recv_next_seq, where no loop looks again, and the *)
(* next frame is in the buffer only while a suspended loop is to come back.*)
NoStrandedFrame ==
    \A s \in DOMAIN recvBuffer : s >= recvNext /\ (s = recvNext => inHandler > 0)

(* "_process_ack: all frames with seq < ack_seq are confirmed": a data     *)
(* frame leaves the sender's window only if it was received or given up.   *)
AckedWasReceived ==
    \A s \in 0 .. sendSeq - 1 :
        \/ s \in DOMAIN sendWindow \cup dropped \cup DOMAIN recvBuffer
        \/ s < recvNext
        \/ sent[s + 1].type = "FIN"
        \/ \E i \in DOMAIN acking : acking[i].seq = s

(* No lost wake-up of _window_available: a task stays in wait() only while *)
(* the window is full, if no frame was given up.                           *)
NoLostWakeup ==
    dropped = {} => \A t \in Tasks : pc[t] = "waiting" => WindowFull

(* The frames of numbers below s are all DATA: the channel was open.       *)
OpenUpTo(s) == \A i \in 1 .. s : sent[i].type = "DATA"

(* Every data frame sent before close() is delivered.                      *)
EveryFrameArrives ==
    \A s \in 0 .. MaxMessages * MaxFragments * Cardinality(Senders) :
        (s < sendSeq /\ OpenUpTo(s + 1)) ~> (recvNext > s)

(* send() returns while the channel is open, and close() returns: no task  *)
(* waits for the window for ever.  (FIN is never acknowledged, so a send() *)
(* still waiting when close() is called may find the window full for good.)*)
SendReturns == \A t \in Senders : pc[t] # "idle" ~> pc[t] = "idle" \/ closed
CloseReturns == \A t \in Closers : pc[t] # "idle" ~> pc[t] = "done"
=============================================================================
