------------------------- MODULE ReliableChannelOrder -------------------------
(***************************************************************************)
(* Proof that a channel with one sending task delivers in order, whole and *)
(* at most once, whatever the transport does to its frames.                *)
(***************************************************************************)
EXTENDS ReliableChannelProofs

-----------------------------------------------------------------------------
(* The inductive invariant.                                                *)

(* proxy/ has one task at a time send on a channel.                        *)
OneSender == \A t, u \in Senders : t = u

(* A frame that was sent, and was not altered since.                       *)
Genuine(f) == f.seq < sendSeq /\ sent[f.seq + 1] = f

(* Every frame anywhere is one that was sent; only data gets past          *)
(* handle_frame; the buffer files a frame under its number.                *)
Authentic ==
    /\ \A s \in DOMAIN sendWindow : Genuine(sendWindow[s].frame)
    /\ \A t \in Tasks : pc[t] = "sending" => Genuine(frame[t])
    /\ \A f \in resend : Genuine(f)
    /\ \A i \in DOMAIN wire : Genuine(wire[i])
    /\ \A i \in DOMAIN acking : Genuine(acking[i]) /\ acking[i].type = "DATA"
    /\ \A s \in DOMAIN recvBuffer :
        /\ Genuine(recvBuffer[s])
        /\ recvBuffer[s].type = "DATA"
        /\ recvBuffer[s].seq = s

(* The payload of the s-th frame sent; before the first one, nothing of no *)
(* message, so that what follows is the first fragment of message 1.       *)
Nothing == [msg |-> 0, frag |-> 0, of |-> 0]
PayloadAt(s) == IF s = 0 THEN Nothing ELSE sent[s].payload
DataAt(s) == s = 0 \/ sent[s].type = "DATA"

SamePlace(p, q) == p.msg = q.msg /\ p.frag = q.frag /\ p.of = q.of

(* q is the fragment that send() produces after p.                         *)
Follows(p, q) ==
    /\ 1 <= q.frag /\ q.frag <= q.of
    /\ IF p.frag < p.of
       THEN q.msg = p.msg /\ q.frag = p.frag + 1 /\ q.of = p.of
       ELSE q.msg = p.msg + 1 /\ q.frag = 1

(* Data frames with nothing else between them carry successive fragments.  *)
SentInOrder ==
    \A s \in 1 .. sendSeq :
        sent[s].type = "DATA" =>
            /\ sent[s].more <=> sent[s].payload.frag < sent[s].payload.of
            /\ DataAt(s - 1) => Follows(PayloadAt(s - 1), sent[s].payload)

(* Where the sending task is, relative to the last frame sent.             *)
CursorOf(t) ==
    DataAt(sendSeq) =>
        IF pc[t] \in {"waiting", "woken"}
        THEN Follows(PayloadAt(sendSeq), frame[t].payload)
        ELSE /\ SamePlace(frame[t].payload, PayloadAt(sendSeq))
             /\ pc[t] = "idle" => ~(frame[t].payload.frag < frame[t].payload.of)

SenderCursor ==
    \A t \in Senders :
        /\ pc[t] # "done"
        /\ frame[t].more <=> frame[t].payload.frag < frame[t].payload.of
        /\ CursorOf(t)

(* A run of data frames that all announce more is one message.             *)
IsRun(a, b) ==
    /\ a <= b
    /\ \A s \in a .. b : sent[s].type = "DATA"
    /\ \A s \in a .. b - 1 : sent[s].more

Runs ==
    \A a, b \in 1 .. sendSeq :
        IsRun(a, b) =>
            /\ sent[b].payload.msg = sent[a].payload.msg
            /\ sent[b].payload.of = sent[a].payload.of
            /\ sent[b].payload.frag = sent[a].payload.frag + (b - a)

(* seq holds the fragments of message m, of n, from the first on.          *)
FragmentsOf(seq, m, n) ==
    \A j \in DOMAIN seq : seq[j].msg = m /\ seq[j].frag = j /\ seq[j].of = n

(* Where the receiver is: what it reassembles is what was sent last before *)
(* recvNext, and it has delivered all messages before that.                *)
ReceiverCursor ==
    LET p == PayloadAt(recvNext)
    IN  /\ recvNext <= sendSeq
        /\ OpenUpTo(recvNext)
        /\ IF p.frag < p.of
           THEN /\ p.msg = Len(delivered) + 1
                /\ Len(reassembly) = p.frag
                /\ FragmentsOf(reassembly, p.msg, p.of)
           ELSE /\ p.msg = Len(delivered)
                /\ reassembly = <<>>

InOrderInv ==
    /\ TypeOK
    /\ OneSender
    /\ Authentic
    /\ SentInOrder
    /\ SenderCursor
    /\ Runs
    /\ ReceiverCursor
    /\ DeliveredInOrder
-----------------------------------------------------------------------------
(* The history of sent frames only grows.                                  *)

SentGrows ==
    /\ sendSeq' \in Nat /\ sendSeq <= sendSeq'
    /\ \A s \in 1 .. sendSeq : sent'[s] = sent[s]

LEMMA SendFrameGrows ==
    ASSUME SenderTypeOK, NEW t \in Tasks, NEW p \in Payload, SendFrame(t, p)
    PROVE  SentGrows
<1> DEFINE f == MakeFrame(t, sendSeq, p)
<1>1. f \in Frame
  BY MakeFrameType DEF SenderTypeOK
<1>2. \/ UNCHANGED <<sendSeq, sent>>
      \/ sendSeq' = sendSeq + 1 /\ sent' = Append(sent, f)
  BY DEF SendFrame
<1> HIDE DEF f
<1> QED
  BY <1>1, <1>2, AppendType DEF SenderTypeOK, SentGrows

(* Genuine(f)' of a frame f whose value is that before the step.           *)
StillGenuine(f) == f.seq < sendSeq' /\ sent'[f.seq + 1] = f

LEMMA GenuineStays ==
    ASSUME SenderTypeOK, SentGrows, NEW f \in Frame, Genuine(f)
    PROVE  StillGenuine(f)
<1>1. f.seq \in Nat
  BY DEF Frame
<1>2. f.seq + 1 \in 1 .. sendSeq
  BY <1>1 DEF Genuine, SenderTypeOK
<1> QED
  BY <1>1, <1>2 DEF Genuine, StillGenuine, SentGrows, SenderTypeOK

(* Everything that holds frames holds frames.                              *)
LEMMA FramesTyped ==
    ASSUME TypeOK
    PROVE  /\ \A s \in DOMAIN sendWindow : sendWindow[s].frame \in Frame
           /\ \A t \in Tasks : frame[t] \in Frame
           /\ \A f \in resend : f \in Frame
           /\ \A i \in DOMAIN wire : wire[i] \in Frame
           /\ \A i \in DOMAIN acking : acking[i] \in Frame
           /\ \A s \in DOMAIN recvBuffer : recvBuffer[s] \in Frame
  BY DEF TypeOK

(* Authentic', in terms of StillGenuine.                                   *)
LEMMA AuthenticNext ==
    ASSUME \A s \in DOMAIN sendWindow' : StillGenuine(sendWindow'[s].frame),
           \A t \in Tasks : pc'[t] = "sending" => StillGenuine(frame'[t]),
           \A f \in resend' : StillGenuine(f),
           \A i \in DOMAIN wire' : StillGenuine(wire'[i]),
           \A i \in DOMAIN acking' : StillGenuine(acking'[i]) /\ acking'[i].type = "DATA",
           \A s \in DOMAIN recvBuffer' :
             /\ StillGenuine(recvBuffer'[s])
             /\ recvBuffer'[s].type = "DATA"
             /\ recvBuffer'[s].seq = s
    PROVE  Authentic'
  BY DEF Authentic, Genuine, StillGenuine

(* Frames on their way stay genuine as more frames are sent.               *)
LEMMA AuthenticStays ==
    ASSUME TypeOK, Authentic, SentGrows,
           \A s \in DOMAIN sendWindow' :
             s \in DOMAIN sendWindow /\ sendWindow'[s].frame = sendWindow[s].frame,
           \A t \in Tasks : pc'[t] = "sending" => pc[t] = "sending" /\ frame'[t] = frame[t],
           \A f \in resend' : f \in Frame /\ Genuine(f),
           \A i \in DOMAIN wire' : wire'[i] \in Frame /\ Genuine(wire'[i]),
           \A i \in DOMAIN acking' :
             acking'[i] \in Frame /\ Genuine(acking'[i]) /\ acking'[i].type = "DATA",
           \A s \in DOMAIN recvBuffer' :
             /\ recvBuffer'[s] \in Frame /\ Genuine(recvBuffer'[s])
             /\ recvBuffer'[s].type = "DATA"
             /\ recvBuffer'[s].seq = s
    PROVE  Authentic'
<1>1. \A f \in Frame : Genuine(f) => StillGenuine(f)
  BY GenuineStays, TypeOKParts
<1>2. \A s \in DOMAIN sendWindow' : StillGenuine(sendWindow'[s].frame)
  BY <1>1, FramesTyped DEF Authentic
<1>3. \A t \in Tasks : pc'[t] = "sending" => StillGenuine(frame'[t])
  BY <1>1, FramesTyped DEF Authentic
<1> QED
  BY <1>1, <1>2, <1>3, AuthenticNext

LEMMA AuthenticSendFrame ==
    ASSUME TypeOK, Authentic, NEW t \in Tasks, NEW p \in Payload, SendFrame(t, p),
           UNCHANGED <<resend, acking, recvBuffer>>,
           \A i \in DOMAIN wire' : wire'[i] \in Frame /\ Genuine(wire'[i])
    PROVE  Authentic'
<1> DEFINE f == MakeFrame(t, sendSeq, p)
<1>1. SentGrows
  BY SendFrameGrows, TypeOKParts
<1>2. \A g \in Frame : Genuine(g) => StillGenuine(g)
  BY <1>1, GenuineStays, TypeOKParts
<1>3. f \in Frame /\ f.seq = sendSeq
  BY MakeFrameType, TypeOKParts DEF SenderTypeOK, MakeFrame
<1>4. /\ \A g \in resend' : g \in Frame /\ Genuine(g)
      /\ \A i \in DOMAIN acking' :
            acking'[i] \in Frame /\ Genuine(acking'[i]) /\ acking'[i].type = "DATA"
      /\ \A s \in DOMAIN recvBuffer' :
            /\ recvBuffer'[s] \in Frame /\ Genuine(recvBuffer'[s])
            /\ recvBuffer'[s].type = "DATA"
            /\ recvBuffer'[s].seq = s
  BY FramesTyped DEF Authentic
<1>5. \A u \in Tasks : frame'[u] = IF u = t THEN f ELSE frame[u]
  BY TypeOKParts DEF SendFrame, SenderTypeOK
<1> HIDE DEF f
<1>6. CASE MustWait(t)
  <2>1. pc' = [pc EXCEPT ![t] = "waiting"] /\ UNCHANGED <<sendSeq, sendWindow, sent>>
    BY <1>6 DEF SendFrame
  <2>2. \A u \in Tasks : pc'[u] = "sending" => pc[u] = "sending" /\ frame'[u] = frame[u]
    BY <1>5, <2>1, TypeOKParts DEF SenderTypeOK
  <2> QED
    BY <1>1, <1>4, <2>1, <2>2, AuthenticStays
<1>7. CASE ~MustWait(t)
  <2>1. /\ pc' = [pc EXCEPT ![t] = "sending"]
        /\ sendSeq' = sendSeq + 1
        /\ sendWindow' = Put(sendWindow, sendSeq, [frame |-> f, retries |-> 0])
        /\ sent' = Append(sent, f)
    BY <1>7 DEF SendFrame, f
  <2>2. StillGenuine(f)
    BY <1>3, <2>1, TypeOKParts DEF StillGenuine, SenderTypeOK
  <2>3. \A u \in Tasks : pc'[u] = "sending" => StillGenuine(frame'[u])
    <3>1. \A u \in Tasks : u # t => pc'[u] = pc[u]
      BY <2>1, TypeOKParts DEF SenderTypeOK
    <3> QED
      BY <1>2, <1>5, <2>2, <3>1, FramesTyped DEF Authentic
  <2>4. \A s \in DOMAIN sendWindow' : StillGenuine(sendWindow'[s].frame)
    <3>1. \A s \in DOMAIN sendWindow' :
            \/ sendWindow'[s].frame = f
            \/ s \in DOMAIN sendWindow /\ sendWindow'[s].frame = sendWindow[s].frame
      BY <2>1 DEF Put
    <3> QED
      BY <1>2, <2>2, <3>1, FramesTyped DEF Authentic
  <2> QED
    BY <1>2, <1>4, <2>3, <2>4, AuthenticNext
<1> QED
  BY <1>6, <1>7

(* What a delivery loop leaves in the buffer was in it.                    *)
LEMMA DeliverKeeps ==
    ASSUME NEW buf, NEW n, Deliver(buf, n)
    PROVE  \A s \in DOMAIN recvBuffer' : s \in DOMAIN buf /\ recvBuffer'[s] = buf[s]
  BY DEF Deliver, Restrict

LEMMA AuthenticStep == TypeOK /\ Authentic /\ [Next]_vars => Authentic'
<1> SUFFICES ASSUME TypeOK, Authentic, [Next]_vars
             PROVE  Authentic'
  OBVIOUS
<1> USE DEF vars, senderVars, loopVars, receiverVars
<1>a. UNCHANGED <<sendSeq, sent>> => SentGrows
  BY TypeOKParts DEF SentGrows, SenderTypeOK
<1>b. /\ \A f \in resend : f \in Frame /\ Genuine(f)
      /\ \A i \in DOMAIN wire : wire[i] \in Frame /\ Genuine(wire[i])
      /\ \A i \in DOMAIN acking :
            acking[i] \in Frame /\ Genuine(acking[i]) /\ acking[i].type = "DATA"
      /\ \A s \in DOMAIN recvBuffer :
            /\ recvBuffer[s] \in Frame /\ Genuine(recvBuffer[s])
            /\ recvBuffer[s].type = "DATA"
            /\ recvBuffer[s].seq = s
      /\ \A s \in DOMAIN sendWindow :
            sendWindow[s].frame \in Frame /\ Genuine(sendWindow[s].frame)
      /\ \A t \in Tasks : frame[t] \in Frame
  BY FramesTyped DEF Authentic
<1>c. acking \in Seq(Frame) /\ wire \in Seq(Frame)
  BY DEF TypeOK
<1>d. ASSUME NEW f \in Frame, Genuine(f), wire' = Append(wire, f)
      PROVE  \A i \in DOMAIN wire' : wire'[i] \in Frame /\ Genuine(wire'[i])
  BY <1>b, <1>c, <1>d, AppendType
<1>1. ASSUME NEW t \in Senders, NEW n \in 1 .. MaxFragments, Send(t, n)
      PROVE  Authentic'
  <2> DEFINE p == [from |-> t, msg |-> frame[t].payload.msg + 1, frag |-> 1, of |-> n]
  <2>1. t \in Tasks /\ p \in Payload /\ SendFrame(t, p)
    BY <1>1, <1>b DEF Send, Tasks, Frame, Payload
  <2>2. UNCHANGED <<resend, acking, recvBuffer, wire>>
    BY <1>1 DEF Send
  <2> HIDE DEF p
  <2> QED
    BY <1>b, <2>1, <2>2, AuthenticSendFrame
<1>2. ASSUME NEW t \in Closers, Close(t)
      PROVE  Authentic'
  <2>1. t \in Tasks /\ NoFragment(t) \in Payload /\ SendFrame(t, NoFragment(t))
    BY <1>2 DEF Close, Tasks, Payload, NoFragment
  <2>2. UNCHANGED <<resend, acking, recvBuffer, wire>>
    BY <1>2 DEF Close
  <2> QED
    BY <1>b, <2>1, <2>2, AuthenticSendFrame
<1>3. ASSUME NEW t \in Tasks, WindowCheck(t)
      PROVE  Authentic'
  <2>1. frame[t].payload \in Payload /\ SendFrame(t, frame[t].payload)
    BY <1>3, <1>b DEF WindowCheck, Frame
  <2>2. UNCHANGED <<resend, acking, recvBuffer, wire>>
    BY <1>3 DEF WindowCheck
  <2> QED
    BY <1>b, <2>1, <2>2, AuthenticSendFrame
<1>4. ASSUME NEW t \in Tasks, RawSend(t)
      PROVE  Authentic'
  <2>1. \A i \in DOMAIN wire' : wire'[i] \in Frame /\ Genuine(wire'[i])
    BY <1>4, <1>b, <1>d DEF RawSend, Authentic
  <2>2. UNCHANGED <<resend, acking, recvBuffer>>
    BY <1>4 DEF RawSend
  <2>3. CASE frame[t].more
    <3> DEFINE p == [frame[t].payload EXCEPT !.frag = @ + 1]
    <3>1. p \in Payload
      <4>1. frame[t].payload \in Payload
        BY <1>b DEF Frame
      <4> QED
        BY <4>1 DEF Payload
    <3>2. SendFrame(t, p)
      BY <1>4, <2>3 DEF RawSend
    <3> HIDE DEF p
    <3> QED
      BY <2>1, <2>2, <3>1, <3>2, AuthenticSendFrame
  <2>4. CASE ~frame[t].more
    <3>1. UNCHANGED <<frame, sendSeq, sendWindow, sent>>
      BY <1>4, <2>4 DEF RawSend
    <3>2. \A u \in Tasks : pc'[u] = "sending" => pc[u] = "sending"
      BY <1>4, <2>4, TypeOKParts DEF RawSend, SenderTypeOK
    <3> QED
      BY <1>a, <1>b, <2>1, <2>2, <3>1, <3>2, AuthenticStays
  <2> QED
    BY <2>3, <2>4
<1>5. ASSUME NEW i \in DOMAIN ackWire, ReceiveAck(i)
      PROVE  Authentic'
  <2>1. UNCHANGED <<frame, sendSeq, sent, resend, acking, recvBuffer, wire>>
    BY <1>5 DEF ReceiveAck
  <2>2. \A s \in DOMAIN sendWindow' : s \in DOMAIN sendWindow /\ sendWindow'[s] = sendWindow[s]
    BY <1>5 DEF ReceiveAck, ProcessAck, Unacked, Restrict
  <2>3. \A t \in Tasks : pc'[t] = "sending" => pc[t] = "sending"
    BY <1>5, TypeOKParts DEF ReceiveAck, ProcessAck, WakeWaiters, SenderTypeOK
  <2> QED
    BY <1>a, <1>b, <2>1, <2>2, <2>3, AuthenticStays
<1>6. ASSUME NEW due \in SUBSET DOMAIN sendWindow, RetransmitPass(due)
      PROVE  Authentic'
  <2>1. UNCHANGED <<pc, frame, sendSeq, sent, acking, recvBuffer, wire>>
    BY <1>6 DEF RetransmitPass
  <2>2. ASSUME NEW s \in DOMAIN sendWindow'
        PROVE  s \in DOMAIN sendWindow /\ sendWindow'[s].frame = sendWindow[s].frame
    <3>1. s \in DOMAIN sendWindow
      BY <1>6, <2>2 DEF RetransmitPass
    <3>2. sendWindow[s] \in Entry
      BY <3>1, TypeOKParts DEF SenderTypeOK
    <3>3. \/ sendWindow'[s] = [sendWindow[s] EXCEPT !.retries = @ + 1]
          \/ sendWindow'[s] = sendWindow[s]
      BY <1>6, <2>2, <3>1 DEF RetransmitPass
    <3> QED
      BY <3>1, <3>2, <3>3 DEF Entry
  <2>3. \A f \in resend' : f \in Frame /\ Genuine(f)
    BY <1>6, <1>b DEF RetransmitPass
  <2> QED
    BY <1>a, <1>b, <2>1, <2>2, <2>3, AuthenticStays
<1>7. CASE RetransmitSend
  <2>1. PICK f \in resend : wire' = Append(wire, f) /\ resend' = resend \ {f}
    BY <1>7 DEF RetransmitSend
  <2>2. UNCHANGED <<pc, frame, sendSeq, sendWindow, sent, acking, recvBuffer>>
    BY <1>7 DEF RetransmitSend
  <2>3. \A i \in DOMAIN wire' : wire'[i] \in Frame /\ Genuine(wire'[i])
    BY <1>b, <1>d, <2>1
  <2> QED
    BY <1>a, <1>b, <2>1, <2>2, <2>3, AuthenticStays
<1>8. ASSUME NEW i \in DOMAIN wire, ReceiveFrame(i)
      PROVE  Authentic'
  <2>1. UNCHANGED <<pc, frame, sendSeq, sendWindow, sent, resend, recvBuffer>>
    BY <1>8 DEF ReceiveFrame
  <2>2. \A j \in DOMAIN wire' : wire'[j] \in Frame /\ Genuine(wire'[j])
    BY <1>8, <1>b, <1>c, RemoveAtType DEF ReceiveFrame
  <2>3. \A j \in DOMAIN acking' :
          acking'[j] \in Frame /\ Genuine(acking'[j]) /\ acking'[j].type = "DATA"
    <3>1. \/ acking' = acking
          \/ wire[i].type = "DATA" /\ acking' = Append(acking, wire[i])
      BY <1>8 DEF ReceiveFrame
    <3> QED
      BY <1>b, <1>c, <3>1, AppendType
  <2> QED
    BY <1>a, <1>b, <2>1, <2>2, <2>3, AuthenticStays
<1>9. ASSUME NEW i \in DOMAIN acking, ProcessData(i)
      PROVE  Authentic'
  <2> DEFINE f == acking[i]
             buf == Put(recvBuffer, f.seq, f)
  <2>1. UNCHANGED <<pc, frame, sendSeq, sendWindow, sent, resend, wire>>
    BY <1>9 DEF ProcessData
  <2>2. \A j \in DOMAIN acking' :
          acking'[j] \in Frame /\ Genuine(acking'[j]) /\ acking'[j].type = "DATA"
    BY <1>9, <1>b, <1>c, RemoveAtType DEF ProcessData
  <2>3. \A s \in DOMAIN buf :
          /\ buf[s] \in Frame /\ Genuine(buf[s])
          /\ buf[s].type = "DATA"
          /\ buf[s].seq = s
    BY <1>b DEF Put
  <2>4. recvBuffer' = recvBuffer \/ Deliver(buf, inHandler)
    BY <1>9 DEF ProcessData
  <2> HIDE DEF buf
  <2>5. \A s \in DOMAIN recvBuffer' :
          /\ recvBuffer'[s] \in Frame /\ Genuine(recvBuffer'[s])
          /\ recvBuffer'[s].type = "DATA"
          /\ recvBuffer'[s].seq = s
    BY <1>b, <2>3, <2>4, DeliverKeeps
  <2> QED
    BY <1>a, <1>b, <2>1, <2>2, <2>5, AuthenticStays
<1>10. CASE HandlerReturns
  <2>1. UNCHANGED <<pc, frame, sendSeq, sendWindow, sent, resend, acking, wire>>
    BY <1>10 DEF HandlerReturns
  <2>2. \A s \in DOMAIN recvBuffer' : s \in DOMAIN recvBuffer /\ recvBuffer'[s] = recvBuffer[s]
    BY <1>10, DeliverKeeps DEF HandlerReturns
  <2> QED
    BY <1>a, <1>b, <2>1, <2>2, AuthenticStays
<1>11. CASE Lose
  <2>1. UNCHANGED <<pc, frame, sendSeq, sendWindow, sent, resend, acking, recvBuffer>>
    BY <1>11 DEF Lose
  <2>2. \A j \in DOMAIN wire' : wire'[j] \in Frame /\ Genuine(wire'[j])
    <3>1. wire' = wire \/ \E i \in DOMAIN wire : wire' = RemoveAt(wire, i)
      BY <1>11 DEF Lose
    <3> QED
      BY <1>b, <1>c, <3>1, RemoveAtType
  <2> QED
    BY <1>a, <1>b, <2>1, <2>2, AuthenticStays
<1>12. CASE Attach \/ UNCHANGED vars
  <2>1. UNCHANGED <<pc, frame, sendSeq, sendWindow, sent, resend, acking, recvBuffer, wire>>
    BY <1>12 DEF Attach
  <2> QED
    BY <1>a, <1>b, <2>1, AuthenticStays
<1> QED
  BY <1>1, <1>2, <1>3, <1>4, <1>5, <1>6, <1>7, <1>8, <1>9, <1>10, <1>11, <1>12
  DEF Next
-----------------------------------------------------------------------------
(* The sending half.                                                       *)

SenderInv == SentInOrder /\ SenderCursor /\ Runs

(* MORE_FRAGMENTS says what the payload says.                              *)
MoreIsRight(f) == f.more <=> f.payload.frag < f.payload.of

(* One more frame in the history, in the order of send().                  *)
LEMMA SentOneMore ==
    ASSUME SenderTypeOK, SentInOrder, Runs,
           NEW f \in Frame, MoreIsRight(f),
           f.type = "DATA" /\ DataAt(sendSeq) => Follows(PayloadAt(sendSeq), f.payload),
           SentGrows, sendSeq' = sendSeq + 1, sent'[sendSeq + 1] = f
    PROVE  SentInOrder' /\ Runs'
<1>1. /\ sendSeq \in Nat
      /\ \A s \in 1 .. sendSeq : sent'[s] = sent[s] /\ sent[s] \in Frame
      /\ sent'[sendSeq + 1] = f
  BY DEF SenderTypeOK, SentGrows
<1>2. SentInOrder'
  <2> SUFFICES ASSUME NEW s \in 1 .. sendSeq + 1, sent'[s].type = "DATA"
               PROVE  /\ MoreIsRight(sent'[s])
                      /\ DataAt(s - 1)' => Follows(PayloadAt(s - 1), sent[s].payload)'
    BY DEF SentInOrder, MoreIsRight
  <2>1. CASE s \in 1 .. sendSeq
    <3>1. s - 1 = 0 \/ s - 1 \in 1 .. sendSeq
      BY <1>1, <2>1
    <3>2. sent'[s] = sent[s] /\ (s - 1 # 0 => sent'[s - 1] = sent[s - 1])
      BY <1>1, <2>1, <3>1
    <3>3. MoreIsRight(sent[s]) /\ (DataAt(s - 1) => Follows(PayloadAt(s - 1), sent[s].payload))
      BY <2>1, <3>2 DEF SentInOrder, MoreIsRight
    <3> QED
      BY <3>2, <3>3 DEF DataAt, PayloadAt
  <2>2. CASE s = sendSeq + 1
    <3>1. sent'[s] = f /\ s - 1 = sendSeq
      BY <1>1, <2>2
    <3>2. sendSeq # 0 => sent'[sendSeq] = sent[sendSeq]
      BY <1>1
    <3> QED
      BY <3>1, <3>2 DEF DataAt, PayloadAt
  <2> QED
    BY <1>1, <2>1, <2>2
<1>3. Runs'
  <2> SUFFICES ASSUME NEW a \in 1 .. sendSeq + 1, NEW b \in 1 .. sendSeq + 1, IsRun(a, b)'
               PROVE  /\ sent'[b].payload.msg = sent'[a].payload.msg
                      /\ sent'[b].payload.of = sent'[a].payload.of
                      /\ sent'[b].payload.frag = sent'[a].payload.frag + (b - a)
    BY DEF Runs
  <2>1. /\ a <= b
        /\ \A s \in a .. b : sent'[s].type = "DATA"
        /\ \A s \in a .. b - 1 : sent'[s].more
    BY DEF IsRun
  <2>2. ASSUME NEW c \in 1 .. sendSeq, a <= c, c <= b
        PROVE  /\ sent[c].payload.msg = sent[a].payload.msg
               /\ sent[c].payload.of = sent[a].payload.of
               /\ sent[c].payload.frag = sent[a].payload.frag + (c - a)
    <3>1. a \in 1 .. sendSeq
      BY <1>1, <2>2
    <3>2. \A s \in a .. c : s \in a .. b /\ s \in 1 .. sendSeq
      BY <1>1, <2>2, <3>1
    <3>3. \A s \in a .. c - 1 : s \in a .. b - 1 /\ s \in 1 .. sendSeq
      BY <1>1, <2>2, <3>1
    <3>4. IsRun(a, c)
      BY <1>1, <2>1, <2>2, <3>2, <3>3 DEF IsRun
    <3> QED
      BY <3>1, <3>4 DEF Runs
  <2>3. CASE b \in 1 .. sendSeq
    <3>1. a \in 1 .. sendSeq
      BY <1>1, <2>1, <2>3
    <3> QED
      BY <1>1, <2>1, <2>2, <2>3, <3>1
  <2>4. CASE b = sendSeq + 1 /\ a = b
    <3>1. f.payload.frag \in Nat /\ sent'[a] = f /\ b - a = 0
      BY <1>1, <2>4 DEF Frame, Payload
    <3> QED
      BY <2>4, <3>1
  <2>5. CASE b = sendSeq + 1 /\ a # b
    <3>1. a \in 1 .. sendSeq /\ sendSeq \in 1 .. sendSeq /\ a <= sendSeq /\ sendSeq <= b
      BY <1>1, <2>1, <2>5
    <3>2. sendSeq \in a .. b /\ b \in a .. b /\ sendSeq \in a .. b - 1
      BY <1>1, <2>5, <3>1
    <3> DEFINE g == sent[sendSeq]
    <3>3. sent'[b] = f /\ sent'[sendSeq] = g /\ sent'[a] = sent[a]
      BY <1>1, <2>5, <3>1
    <3>4. f.type = "DATA" /\ g.type = "DATA" /\ g.more
      BY <2>1, <3>2, <3>3
    <3>5. g.payload.frag < g.payload.of
      BY <3>1, <3>4 DEF SentInOrder
    <3>6. Follows(g.payload, f.payload)
      BY <1>1, <3>1, <3>4 DEF DataAt, PayloadAt
    <3>7. /\ g.payload.msg = sent[a].payload.msg
          /\ g.payload.of = sent[a].payload.of
          /\ g.payload.frag = sent[a].payload.frag + (sendSeq - a)
      BY <2>2, <3>1
    <3>8. sent[a].payload.frag \in Nat
      BY <1>1, <3>1 DEF Frame, Payload
    <3> HIDE DEF g
    <3> QED
      BY <1>1, <2>5, <3>1, <3>3, <3>5, <3>6, <3>7, <3>8 DEF Follows
  <2> QED
    BY <1>1, <2>3, <2>4, <2>5
<1> QED
  BY <1>2, <1>3

(* What SendFrame does to what the invariant is about.                     *)
LEMMA SendFrameCases ==
    ASSUME SenderTypeOK, NEW t \in Tasks, NEW p \in Payload, SendFrame(t, p)
    PROVE  /\ \A u \in Tasks \ {t} : pc'[u] = pc[u] /\ frame'[u] = frame[u]
           /\ frame'[t] = MakeFrame(t, sendSeq, p)
           /\ \/ pc'[t] = "waiting" /\ UNCHANGED <<sendSeq, sent>>
              \/ /\ pc'[t] = "sending"
                 /\ sendSeq' = sendSeq + 1
                 /\ sent'[sendSeq + 1] = MakeFrame(t, sendSeq, p)
<1> DEFINE f == MakeFrame(t, sendSeq, p)
<1>1. f \in Frame
  BY MakeFrameType DEF SenderTypeOK
<1>2. /\ frame' = [frame EXCEPT ![t] = f]
      /\ \/ pc' = [pc EXCEPT ![t] = "waiting"] /\ UNCHANGED <<sendSeq, sent>>
         \/ /\ pc' = [pc EXCEPT ![t] = "sending"]
            /\ sendSeq' = sendSeq + 1
            /\ sent' = Append(sent, f)
  BY DEF SendFrame
<1> HIDE DEF f
<1>3. sent' = Append(sent, f) => sent'[sendSeq + 1] = f
  BY <1>1, AppendType DEF SenderTypeOK
<1>4. f = MakeFrame(t, sendSeq, p)
  BY DEF f
<1> QED
  BY <1>2, <1>3, <1>4 DEF SenderTypeOK

LEMMA HistoryStays ==
    ASSUME SenderInv, UNCHANGED <<sendSeq, sent>>
    PROVE  SentInOrder' /\ Runs'
  BY DEF SenderInv, SentInOrder, Runs, IsRun, DataAt, PayloadAt

(* The sending task comes to _send_frame with the fragment after its last. *)
LEMMA SendFrameInOrder ==
    ASSUME SenderTypeOK, OneSender, SenderInv,
           NEW t \in Senders, NEW p \in Payload, SendFrame(t, p),
           DataAt(sendSeq) => Follows(PayloadAt(sendSeq), p)
    PROVE  SenderInv'
<1> DEFINE f == MakeFrame(t, sendSeq, p)
<1>1. f \in Frame /\ f.type = "DATA" /\ f.payload = p /\ MoreIsRight(f)
  <2>1. t \notin Closers /\ t \in Tasks
    BY ChannelAssumption DEF Tasks
  <2> QED
    BY <2>1, MakeFrameType DEF SenderTypeOK, MakeFrame, More, MoreIsRight
<1>2. /\ frame'[t] = f
      /\ \/ pc'[t] = "waiting" /\ UNCHANGED <<sendSeq, sent>>
         \/ pc'[t] = "sending" /\ sendSeq' = sendSeq + 1 /\ sent'[sendSeq + 1] = f
  BY SendFrameCases DEF Tasks
<1>3. SentGrows
  BY SendFrameGrows DEF Tasks
<1> HIDE DEF f
<1>4. SentInOrder' /\ Runs'
  <2>1. CASE UNCHANGED <<sendSeq, sent>>
    BY <2>1, HistoryStays
  <2>2. CASE sendSeq' = sendSeq + 1 /\ sent'[sendSeq + 1] = f
    BY <1>1, <1>3, <2>2, SentOneMore DEF SenderInv
  <2> QED
    BY <1>2, <2>1, <2>2
<1>5. pc'[t] # "done" /\ MoreIsRight(frame'[t]) /\ CursorOf(t)'
  <2>1. CASE pc'[t] = "waiting" /\ UNCHANGED <<sendSeq, sent>>
    BY <1>1, <1>2, <2>1 DEF CursorOf, DataAt, PayloadAt
  <2>2. CASE pc'[t] = "sending" /\ sendSeq' = sendSeq + 1 /\ sent'[sendSeq + 1] = f
    <3>1. sendSeq + 1 # 0
      BY DEF SenderTypeOK
    <3> QED
      BY <1>1, <1>2, <2>2, <3>1 DEF CursorOf, DataAt, PayloadAt, SamePlace
  <2> QED
    BY <1>1, <1>2, <2>1, <2>2
<1> QED
  BY <1>4, <1>5 DEF SenderInv, SenderCursor, OneSender, MoreIsRight

(* A closing task puts a frame that is not data between those of send().   *)
LEMMA CloserInOrder ==
    ASSUME SenderTypeOK, SenderInv,
           NEW t \in Closers, NEW p \in Payload, SendFrame(t, p)
    PROVE  SenderInv'
<1> DEFINE f == MakeFrame(t, sendSeq, p)
<1>1. f \in Frame /\ f.type # "DATA" /\ MoreIsRight(f)
  BY MakeFrameType DEF SenderTypeOK, MakeFrame, More, MoreIsRight, Tasks
<1>2. /\ \A u \in Senders : pc'[u] = pc[u] /\ frame'[u] = frame[u]
      /\ \/ UNCHANGED <<sendSeq, sent>>
         \/ sendSeq' = sendSeq + 1 /\ sent'[sendSeq + 1] = f
  BY SendFrameCases, ChannelAssumption DEF Tasks
<1>3. SentGrows
  BY SendFrameGrows DEF Tasks
<1> HIDE DEF f
<1>4. SentInOrder' /\ Runs'
  <2>1. CASE UNCHANGED <<sendSeq, sent>>
    BY <2>1, HistoryStays
  <2>2. CASE sendSeq' = sendSeq + 1 /\ sent'[sendSeq + 1] = f
    BY <1>1, <1>3, <2>2, SentOneMore DEF SenderInv
  <2> QED
    BY <1>2, <2>1, <2>2
<1>5. SenderCursor'
  <2>1. CASE UNCHANGED <<sendSeq, sent>>
    BY <1>2, <2>1 DEF SenderInv, SenderCursor, CursorOf, DataAt, PayloadAt
  <2>2. CASE sendSeq' = sendSeq + 1 /\ sent'[sendSeq + 1] = f
    <3>1. ~ DataAt(sendSeq)'
      BY <1>1, <2>2 DEF DataAt, SenderTypeOK
    <3> QED
      BY <1>2, <3>1 DEF SenderInv, SenderCursor, CursorOf
  <2> QED
    BY <1>2, <2>1, <2>2
<1> QED
  BY <1>4, <1>5 DEF SenderInv

LEMMA SenderStays ==
    ASSUME SenderInv, UNCHANGED <<sendSeq, sent, frame>>,
           \A t \in Senders : \/ pc'[t] = pc[t]
                              \/ pc[t] = "waiting" /\ pc'[t] = "woken"
    PROVE  SenderInv'
<1>1. SenderCursor'
  BY DEF SenderInv, SenderCursor, CursorOf, DataAt, PayloadAt
<1> QED
  BY <1>1, HistoryStays DEF SenderInv

LEMMA SenderInvStep == TypeOK /\ OneSender /\ SenderInv /\ [Next]_vars => SenderInv'
<1> SUFFICES ASSUME SenderTypeOK, OneSender, SenderInv, [Next]_vars
             PROVE  SenderInv'
  BY TypeOKParts
<1> USE DEF vars, senderVars, loopVars, receiverVars
<1>a. \A t \in Tasks :
        /\ frame[t] \in Frame /\ frame[t].payload \in Payload
        /\ frame[t].payload.msg \in Nat /\ frame[t].payload.frag \in Nat
        /\ frame[t].payload.of \in Nat
  BY DEF SenderTypeOK, Frame, Payload
<1>b. \A t \in Senders :
        pc[t] # "done" /\ MoreIsRight(frame[t]) /\ CursorOf(t)
  BY DEF SenderInv, SenderCursor, MoreIsRight
<1>1. ASSUME NEW t \in Senders, NEW n \in 1 .. MaxFragments, Send(t, n)
      PROVE  SenderInv'
  <2> DEFINE p == [from |-> t, msg |-> frame[t].payload.msg + 1, frag |-> 1, of |-> n]
  <2>1. t \in Tasks /\ p \in Payload /\ SendFrame(t, p)
    BY <1>1, <1>a DEF Send, Tasks, Payload
  <2>2. DataAt(sendSeq) => Follows(PayloadAt(sendSeq), p)
    <3>1. /\ p.msg = frame[t].payload.msg + 1 /\ p.frag = 1 /\ p.of = n
          /\ 1 <= n
      OBVIOUS
    <3> HIDE DEF p
    <3>2. DataAt(sendSeq) =>
            /\ SamePlace(frame[t].payload, PayloadAt(sendSeq))
            /\ ~(frame[t].payload.frag < frame[t].payload.of)
      BY <1>1, <1>b DEF Send, CursorOf
    <3> QED
      BY <3>1, <3>2 DEF Follows, SamePlace
  <2> HIDE DEF p
  <2> QED
    BY <2>1, <2>2, SendFrameInOrder
<1>2. ASSUME NEW t \in Closers, Close(t)
      PROVE  SenderInv'
  <2>1. NoFragment(t) \in Payload /\ SendFrame(t, NoFragment(t))
    BY <1>2 DEF Close, Tasks, Payload, NoFragment
  <2> QED
    BY <2>1, CloserInOrder
<1>3. ASSUME NEW t \in Tasks, WindowCheck(t)
      PROVE  SenderInv'
  <2>1. pc[t] = "woken" /\ SendFrame(t, frame[t].payload)
    BY <1>3 DEF WindowCheck
  <2>2. t \in Senders => (DataAt(sendSeq) => Follows(PayloadAt(sendSeq), frame[t].payload))
    BY <1>b, <2>1 DEF CursorOf
  <2> QED
    BY <1>a, <2>1, <2>2, SendFrameInOrder, CloserInOrder DEF Tasks
<1>4. ASSUME NEW t \in Tasks, RawSend(t)
      PROVE  SenderInv'
  <2>1. CASE frame[t].more
    <3> DEFINE p == [frame[t].payload EXCEPT !.frag = @ + 1]
    <3>1. frame[t].payload \in Payload
      BY <1>a
    <3>2. p \in Payload
      BY <3>1 DEF Payload
    <3>3. /\ p.msg = frame[t].payload.msg /\ p.of = frame[t].payload.of
          /\ p.frag = frame[t].payload.frag + 1
      BY <3>1 DEF Payload
    <3>4. SendFrame(t, p)
      BY <1>4, <2>1 DEF RawSend
    <3> HIDE DEF p
    <3>5. ASSUME t \in Senders, DataAt(sendSeq)
          PROVE  Follows(PayloadAt(sendSeq), p)
      <4>1. SamePlace(frame[t].payload, PayloadAt(sendSeq))
        BY <1>4, <1>b, <3>5 DEF RawSend, CursorOf
      <4>2. frame[t].payload.frag < frame[t].payload.of
        BY <1>b, <2>1, <3>5 DEF MoreIsRight
      <4> QED
        BY <1>a, <3>3, <4>1, <4>2 DEF Follows, SamePlace
    <3> QED
      BY <3>2, <3>4, <3>5, SendFrameInOrder, CloserInOrder DEF Tasks
  <2>2. CASE ~frame[t].more
    <3>1. /\ UNCHANGED <<frame, sendSeq, sent>>
          /\ pc' = [pc EXCEPT ![t] = IF t \in Closers THEN "done" ELSE "idle"]
      BY <1>4, <2>2 DEF RawSend
    <3>2. ASSUME NEW u \in Senders
          PROVE  pc'[u] # "done" /\ CursorOf(u)'
      <4>1. CASE u # t
        <5>1. pc'[u] = pc[u]
          BY <3>1, <4>1 DEF SenderTypeOK, Tasks
        <5> QED
          BY <1>b, <3>1, <5>1 DEF CursorOf, DataAt, PayloadAt
      <4>2. CASE u = t
        <5>1. pc[t] = "sending" /\ pc'[t] = "idle"
          BY <1>4, <3>1, <4>2, ChannelAssumption DEF RawSend, SenderTypeOK
        <5>2. ~(frame[t].payload.frag < frame[t].payload.of)
          BY <1>b, <2>2, <4>2 DEF MoreIsRight
        <5> QED
          BY <1>b, <3>1, <4>2, <5>1, <5>2 DEF CursorOf, DataAt, PayloadAt
      <4> QED
        BY <4>1, <4>2
    <3>3. SenderCursor'
      BY <1>b, <3>1, <3>2 DEF SenderCursor, MoreIsRight
    <3> QED
      BY <3>1, <3>3, HistoryStays DEF SenderInv
  <2> QED
    BY <2>1, <2>2
<1>5. ASSUME NEW i \in DOMAIN ackWire, ReceiveAck(i)
      PROVE  SenderInv'
  <2>1. UNCHANGED <<frame, sendSeq, sent>>
    BY <1>5 DEF ReceiveAck
  <2>2. \A t \in Senders : \/ pc'[t] = pc[t]
                           \/ pc[t] = "waiting" /\ pc'[t] = "woken"
    BY <1>5 DEF ReceiveAck, ProcessAck, WakeWaiters, Tasks
  <2> QED
    BY <2>1, <2>2, SenderStays
<1>6. \/ \E due \in SUBSET DOMAIN sendWindow : RetransmitPass(due)
      \/ RetransmitSend \/ Attach \/ HandlerReturns \/ Lose \/ UNCHANGED vars
      \/ \E i \in DOMAIN wire : ReceiveFrame(i)
      \/ \E i \in DOMAIN acking : ProcessData(i)
      => UNCHANGED <<pc, frame, sendSeq, sent>>
  BY DEF RetransmitPass, RetransmitSend, Attach, HandlerReturns, Lose, ReceiveFrame, ProcessData
<1> QED
  BY <1>1, <1>2, <1>3, <1>4, <1>5, <1>6, SenderStays DEF Next
-----------------------------------------------------------------------------
(* The receiving half.                                                     *)

LEMMA ConcatType ==
    ASSUME NEW S, NEW a \in Seq(S), NEW b \in Seq(S)
    PROVE  /\ a \o b \in Seq(S)
           /\ Len(a \o b) = Len(a) + Len(b)
           /\ \A j \in 1 .. Len(a) + Len(b) :
                (a \o b)[j] = IF j <= Len(a) THEN a[j] ELSE b[j - Len(a)]
  OBVIOUS

(* The k frames that a delivery loop takes continue the message that is    *)
(* being reassembled, or begin the next one.                               *)
LEMMA TakenContinues ==
    ASSUME TypeOK, SenderInv, ReceiverCursor,
           NEW buf, buf \in [DOMAIN buf -> Frame],
           \A s \in DOMAIN buf :
             Genuine(buf[s]) /\ buf[s].type = "DATA" /\ buf[s].seq = s,
           NEW k \in Nat, k > recvNext, TakenUpTo(buf, k),
           NEW data, data = reassembly \o Taken(buf, k)
    PROVE  /\ k <= sendSeq
           /\ OpenUpTo(k)
           /\ buf[k - 1] = sent[k] /\ sent[k] \in Frame
           /\ data \in Seq(Payload)
           /\ sent[k].payload.msg = Len(delivered) + 1
           /\ sent[k].payload.frag = Len(data)
           /\ FragmentsOf(data, sent[k].payload.msg, sent[k].payload.of)
<1> DEFINE got == Taken(buf, k)
           q == sent[recvNext + 1].payload
<1>1. /\ recvNext \in Nat /\ sendSeq \in Nat
      /\ \A s \in 1 .. sendSeq : sent[s] \in Frame
      /\ reassembly \in Seq(Payload)
  BY TypeOKParts DEF SenderTypeOK, ReceiverTypeOK
<1>2. recvNext .. k - 1 \subseteq DOMAIN buf /\ \A s \in recvNext .. k - 2 : buf[s].more
  BY DEF TakenUpTo
<1>3. \A s \in recvNext .. k - 1 : s < sendSeq /\ buf[s] = sent[s + 1] /\ sent[s + 1].type = "DATA"
  BY <1>2 DEF Genuine
<1>4. /\ got \in Seq(Payload)
      /\ Len(got) = k - recvNext
      /\ \A i \in 1 .. k - recvNext : got[i] = buf[recvNext + i - 1].payload
  <2>1. ReceiverTypeOK /\ k >= recvNext /\ recvNext .. k - 1 \subseteq DOMAIN buf
    BY <1>1, <1>2, TypeOKParts
  <2> QED
    BY <2>1, TakenType
<1>5. data = reassembly \o got
  OBVIOUS
<1> HIDE DEF got
<1>6. k - 1 \in recvNext .. k - 1 /\ k <= sendSeq /\ recvNext + 1 \in 1 .. sendSeq /\ k \in 1 .. sendSeq
  BY <1>1, <1>3
<1>7. OpenUpTo(k)
  <2> SUFFICES ASSUME NEW i \in 1 .. k
               PROVE  sent[i].type = "DATA"
    BY DEF OpenUpTo
  <2>1. CASE i \in 1 .. recvNext
    BY <2>1 DEF ReceiverCursor, OpenUpTo
  <2>2. CASE i > recvNext
    <3>1. i - 1 \in recvNext .. k - 1 /\ (i - 1) + 1 = i
      BY <1>1, <2>2
    <3> QED
      BY <1>3, <3>1
  <2> QED
    BY <1>1, <2>1, <2>2
<1>8. \A i \in 1 .. k : DataAt(i - 1)
  BY <1>1, <1>7 DEF OpenUpTo, DataAt
<1>9. /\ q.msg = Len(delivered) + 1
      /\ q.frag = Len(reassembly) + 1
      /\ FragmentsOf(reassembly, q.msg, q.of)
  <2> DEFINE p == PayloadAt(recvNext)
  <2>1. Follows(p, q)
    <3>1. sent[recvNext + 1].type = "DATA" /\ DataAt(recvNext) /\ (recvNext + 1) - 1 = recvNext
      BY <1>1, <1>7, <1>8 DEF OpenUpTo
    <3> QED
      BY <1>6, <3>1 DEF SenderInv, SentInOrder
  <2>2. IF p.frag < p.of
        THEN /\ p.msg = Len(delivered) + 1
             /\ Len(reassembly) = p.frag
             /\ FragmentsOf(reassembly, p.msg, p.of)
        ELSE /\ p.msg = Len(delivered)
             /\ reassembly = <<>>
    BY DEF ReceiverCursor
  <2> HIDE DEF p, q
  <2>3. CASE p.frag < p.of
    BY <2>1, <2>2, <2>3 DEF Follows
  <2>4. CASE ~(p.frag < p.of)
    <3>1. reassembly = <<>> /\ q.frag = 1 /\ q.msg = Len(delivered) + 1
      BY <2>1, <2>2, <2>4 DEF Follows
    <3>2. Len(reassembly) = 0 /\ DOMAIN reassembly = {}
      BY <3>1
    <3> QED
      BY <3>1, <3>2 DEF FragmentsOf
  <2> QED
    BY <2>3, <2>4
<1>10. ASSUME NEW i \in 1 .. k - recvNext
       PROVE  /\ got[i] = sent[recvNext + i].payload
              /\ got[i].msg = q.msg /\ got[i].of = q.of
              /\ got[i].frag = Len(reassembly) + i
  <2>1. recvNext + i - 1 \in recvNext .. k - 1 /\ (recvNext + i - 1) + 1 = recvNext + i
    BY <1>1
  <2>2. got[i] = sent[recvNext + i].payload
    BY <1>3, <1>4, <2>1
  <2>3. recvNext + i \in 1 .. sendSeq
    BY <1>1, <1>6
  <2>4. IsRun(recvNext + 1, recvNext + i)
    <3>1. ASSUME NEW s \in recvNext + 1 .. recvNext + i
          PROVE  sent[s].type = "DATA"
      <4>1. s \in 1 .. k
        BY <1>1
      <4> QED
        BY <1>7, <4>1 DEF OpenUpTo
    <3>2. ASSUME NEW s \in recvNext + 1 .. recvNext + i - 1
          PROVE  sent[s].more
      <4>1. s - 1 \in recvNext .. k - 2 /\ s - 1 \in recvNext .. k - 1 /\ (s - 1) + 1 = s
        BY <1>1
      <4> QED
        BY <1>2, <1>3, <4>1
    <3> QED
      BY <1>1, <3>1, <3>2 DEF IsRun
  <2>5. /\ sent[recvNext + i].payload.msg = q.msg
        /\ sent[recvNext + i].payload.of = q.of
        /\ sent[recvNext + i].payload.frag = q.frag + ((recvNext + i) - (recvNext + 1))
    BY <1>6, <2>3, <2>4 DEF SenderInv, Runs
  <2> HIDE DEF q
  <2> QED
    BY <1>1, <1>9, <2>2, <2>5
<1> HIDE DEF q
<1>11. k - recvNext \in 1 .. k - recvNext /\ recvNext + (k - recvNext) = k
  BY <1>1
<1>12. /\ sent[k].payload.msg = Len(delivered) + 1
       /\ sent[k].payload.of = q.of
       /\ sent[k].payload.frag = Len(reassembly) + (k - recvNext)
  BY <1>9, <1>10, <1>11
<1>13. /\ data \in Seq(Payload)
       /\ Len(data) = Len(reassembly) + (k - recvNext)
       /\ \A j \in 1 .. Len(data) :
            data[j] = IF j <= Len(reassembly) THEN reassembly[j] ELSE got[j - Len(reassembly)]
  <2> DEFINE d == reassembly \o got
  <2>1. /\ d \in Seq(Payload)
        /\ Len(d) = Len(reassembly) + Len(got)
        /\ \A j \in 1 .. Len(reassembly) + Len(got) :
             d[j] = IF j <= Len(reassembly) THEN reassembly[j] ELSE got[j - Len(reassembly)]
    BY <1>1, <1>4, ConcatType
  <2>2. data = d
    BY <1>5
  <2> HIDE DEF d
  <2> QED
    BY <1>4, <2>1, <2>2
<1>14. FragmentsOf(data, q.msg, q.of)
  <2> SUFFICES ASSUME NEW j \in 1 .. Len(data)
               PROVE  data[j].msg = q.msg /\ data[j].frag = j /\ data[j].of = q.of
    BY <1>13 DEF FragmentsOf
  <2>1. CASE j <= Len(reassembly)
    <3>1. data[j] = reassembly[j] /\ j \in DOMAIN reassembly
      BY <1>1, <1>13, <2>1
    <3> QED
      BY <1>9, <3>1 DEF FragmentsOf
  <2>2. CASE ~(j <= Len(reassembly))
    <3> DEFINE i == j - Len(reassembly)
    <3>1. data[j] = got[i] /\ i \in 1 .. k - recvNext /\ Len(reassembly) + i = j
      BY <1>1, <1>13, <2>2
    <3> HIDE DEF i
    <3> QED
      BY <1>10, <3>1
  <2> QED
    BY <2>1, <2>2
<1>15. buf[k - 1] = sent[k] /\ sent[k] \in Frame
  <2>1. (k - 1) + 1 = k
    OBVIOUS
  <2> QED
    BY <1>1, <1>3, <1>6, <2>1
<1> QED
  BY <1>6, <1>7, <1>9, <1>12, <1>13, <1>14, <1>15

(* A delivery loop delivers the next message, or goes on reassembling it.  *)
LEMMA DeliverInOrder ==
    ASSUME TypeOK, SenderInv, ReceiverCursor, DeliveredInOrder,
           UNCHANGED <<sendSeq, sent>>,
           NEW buf, buf \in [DOMAIN buf -> Frame],
           \A s \in DOMAIN buf :
             Genuine(buf[s]) /\ buf[s].type = "DATA" /\ buf[s].seq = s,
           NEW n, Deliver(buf, n)
    PROVE  ReceiverCursor' /\ DeliveredInOrder'
<1>1. /\ recvNext \in Nat /\ sendSeq \in Nat
      /\ reassembly \in Seq(Payload)
      /\ delivered \in Seq(Seq(Payload))
  BY TypeOKParts DEF SenderTypeOK, ReceiverTypeOK
<1>2. PICK k \in recvNext .. recvNext + Cardinality(DOMAIN buf) :
        /\ TakenUpTo(buf, k)
        /\ recvNext' = k
        /\ \/ /\ k > recvNext /\ ~buf[k - 1].more
              /\ delivered' = Append(delivered, reassembly \o Taken(buf, k))
              /\ reassembly' = <<>>
           \/ /\ k > recvNext => buf[k - 1].more
              /\ reassembly' = reassembly \o Taken(buf, k)
              /\ UNCHANGED delivered
  BY DEF Deliver, Taken, ResetReassembly
<1>3. k \in Nat /\ k >= recvNext
  BY <1>1
<1> DEFINE data == reassembly \o Taken(buf, k)
           last == sent[k]
<1>4. CASE k = recvNext
  <2>1. recvNext .. k - 1 \subseteq DOMAIN buf
    BY <1>2 DEF TakenUpTo
  <2>2. Taken(buf, k) \in Seq(Payload) /\ Len(Taken(buf, k)) = 0
    BY <1>1, <1>3, <1>4, <2>1, TakenType, TypeOKParts
  <2>3. Taken(buf, k) = <<>>
    BY <2>2
  <2>4. reassembly \o Taken(buf, k) = reassembly
    BY <1>1, <2>3
  <2>5. reassembly' = reassembly /\ delivered' = delivered /\ recvNext' = recvNext
    BY <1>1, <1>2, <1>4, <2>4
  <2> QED
    BY <2>5 DEF ReceiverCursor, DeliveredInOrder, PayloadAt, OpenUpTo
<1>5. CASE k > recvNext
  <2>1. /\ k <= sendSeq
        /\ OpenUpTo(k)
        /\ buf[k - 1] = last /\ last \in Frame
        /\ data \in Seq(Payload)
        /\ last.payload.msg = Len(delivered) + 1
        /\ last.payload.frag = Len(data)
        /\ FragmentsOf(data, last.payload.msg, last.payload.of)
    BY <1>2, <1>3, <1>5, TakenContinues
  <2>2. OpenUpTo(k)'
    BY <2>1 DEF OpenUpTo
  <2>3. PayloadAt(k)' = last.payload
    BY <1>1, <1>5 DEF PayloadAt
  <2>4. /\ last.more <=> last.payload.frag < last.payload.of
        /\ last.payload.frag <= last.payload.of
    <3>1. k \in 1 .. sendSeq /\ k \in 1 .. k /\ k - 1 \in 0 .. k
      BY <1>1, <1>3, <1>5, <2>1
    <3>2. last.type = "DATA" /\ DataAt(k - 1)
      BY <1>3, <2>1, <3>1 DEF OpenUpTo, DataAt
    <3>3. Follows(PayloadAt(k - 1), last.payload) /\ (last.more <=> last.payload.frag < last.payload.of)
      BY <3>1, <3>2 DEF SenderInv, SentInOrder
    <3> QED
      BY <3>3 DEF Follows
  <2>5. \/ /\ ~last.more
           /\ delivered' = Append(delivered, data)
           /\ reassembly' = <<>>
        \/ last.more /\ reassembly' = data /\ UNCHANGED delivered
    BY <1>2, <1>5, <2>1
  <2>6. recvNext' = k
    BY <1>2
  <2> HIDE DEF data, last
  <2>7. CASE last.more
    <3>1. reassembly' = data /\ delivered' = delivered
      BY <2>5, <2>7
    <3>2. last.payload.frag < last.payload.of
      BY <2>4, <2>7
    <3>3. DeliveredInOrder'
      BY <3>1 DEF DeliveredInOrder
    <3>4. FragmentsOf(reassembly', last.payload.msg, last.payload.of)
      BY <2>1, <3>1
    <3>5. FragmentsOf(reassembly, last.payload.msg, last.payload.of)'
      BY <3>4 DEF FragmentsOf, last
    <3> QED
      BY <1>1, <2>1, <2>2, <2>3, <2>6, <3>1, <3>2, <3>3, <3>4 DEF ReceiverCursor, FragmentsOf
  <2>8. CASE ~last.more
    <3>1. reassembly' = <<>> /\ delivered' = Append(delivered, data)
      BY <2>5, <2>8
    <3>2. last.payload.frag = last.payload.of /\ Len(data) = last.payload.of
      <4>1. last.payload.frag \in Nat /\ last.payload.of \in Nat
        BY <2>1 DEF Frame, Payload
      <4> QED
        BY <2>1, <2>4, <2>8, <4>1
    <3>3. /\ Len(delivered') = Len(delivered) + 1
          /\ \A i \in 1 .. Len(delivered) : delivered'[i] = delivered[i]
          /\ delivered'[Len(delivered) + 1] = data
          /\ DOMAIN delivered' = 1 .. Len(delivered) + 1
      BY <1>1, <2>1, <3>1, AppendType
    <3>4. DeliveredInOrder'
      <4> SUFFICES ASSUME NEW i \in 1 .. Len(delivered) + 1, NEW j \in DOMAIN delivered'[i]
                   PROVE  /\ delivered'[i][j].msg = i
                          /\ delivered'[i][j].frag = j
                          /\ delivered'[i][j].of = Len(delivered'[i])
        BY <3>3 DEF DeliveredInOrder
      <4>1. CASE i \in 1 .. Len(delivered)
        <5>1. i \in DOMAIN delivered /\ delivered'[i] = delivered[i]
          BY <1>1, <3>3, <4>1
        <5> QED
          BY <5>1 DEF DeliveredInOrder
      <4>2. CASE i = Len(delivered) + 1
        <5>1. delivered'[i] = data
          BY <3>3, <4>2
        <5> QED
          BY <2>1, <3>2, <4>2, <5>1 DEF FragmentsOf
      <4> QED
        BY <1>1, <4>1, <4>2
    <3> QED
      BY <1>1, <2>1, <2>2, <2>3, <2>6, <3>1, <3>2, <3>3, <3>4 DEF ReceiverCursor
  <2> QED
    BY <2>7, <2>8
<1> QED
  BY <1>1, <1>3, <1>4, <1>5

(* What the receiver knows stays true as more frames are sent.             *)
LEMMA ReceiverStays ==
    ASSUME TypeOK, SentGrows, ReceiverCursor, DeliveredInOrder, UNCHANGED receiverVars
    PROVE  ReceiverCursor' /\ DeliveredInOrder'
<1> USE DEF receiverVars
<1>1. recvNext \in Nat /\ sendSeq \in Nat
  BY TypeOKParts DEF SenderTypeOK, ReceiverTypeOK
<1>2. \A s \in 1 .. recvNext : sent'[s] = sent[s]
  BY <1>1 DEF SentGrows, ReceiverCursor
<1>3. PayloadAt(recvNext)' = PayloadAt(recvNext) /\ OpenUpTo(recvNext)'
  BY <1>1, <1>2 DEF PayloadAt, OpenUpTo, ReceiverCursor
<1>4. recvNext' <= sendSeq'
  BY <1>1 DEF SentGrows, ReceiverCursor
<1>5. reassembly' = reassembly /\ delivered' = delivered
  OBVIOUS
<1>6. ReceiverCursor'
  BY <1>3, <1>4, <1>5 DEF ReceiverCursor, FragmentsOf
<1> QED
  BY <1>5, <1>6 DEF DeliveredInOrder
-----------------------------------------------------------------------------
(* The two halves together.                                                *)

LEMMA StepGrows == TypeOK /\ [Next]_vars => SentGrows
<1> SUFFICES ASSUME TypeOK, [Next]_vars
             PROVE  SentGrows
  OBVIOUS
<1> USE DEF vars, senderVars, loopVars, receiverVars
<1>a. UNCHANGED <<sendSeq, sent>> => SentGrows
  BY TypeOKParts DEF SentGrows, SenderTypeOK
<1>1. ASSUME NEW t \in Senders, NEW n \in 1 .. MaxFragments, Send(t, n)
      PROVE  SentGrows
  <2> DEFINE p == [from |-> t, msg |-> frame[t].payload.msg + 1, frag |-> 1, of |-> n]
  <2>1. t \in Tasks /\ p \in Payload /\ SendFrame(t, p)
    BY <1>1, TypeOKParts DEF Send, SenderTypeOK, Tasks, Frame, Payload
  <2> QED
    BY <2>1, SendFrameGrows, TypeOKParts
<1>2. ASSUME NEW t \in Closers, Close(t)
      PROVE  SentGrows
  <2>1. t \in Tasks /\ NoFragment(t) \in Payload /\ SendFrame(t, NoFragment(t))
    BY <1>2 DEF Close, Tasks, Payload, NoFragment
  <2> QED
    BY <2>1, SendFrameGrows, TypeOKParts
<1>3. ASSUME NEW t \in Tasks, WindowCheck(t)
      PROVE  SentGrows
  <2>1. frame[t].payload \in Payload /\ SendFrame(t, frame[t].payload)
    BY <1>3, TypeOKParts DEF WindowCheck, SenderTypeOK, Frame
  <2> QED
    BY <2>1, SendFrameGrows, TypeOKParts
<1>4. ASSUME NEW t \in Tasks, RawSend(t)
      PROVE  SentGrows
  <2> DEFINE p == [frame[t].payload EXCEPT !.frag = @ + 1]
  <2>1. SendFrame(t, p) \/ UNCHANGED <<sendSeq, sent>>
    BY <1>4 DEF RawSend
  <2>2. frame[t].payload \in Payload
    BY TypeOKParts DEF SenderTypeOK, Frame
  <2>3. p \in Payload
    BY <2>2 DEF Payload
  <2> HIDE DEF p
  <2> QED
    BY <1>a, <2>1, <2>3, SendFrameGrows, TypeOKParts
<1>5. \/ \E i \in DOMAIN ackWire : ReceiveAck(i)
      \/ \E due \in SUBSET DOMAIN sendWindow : RetransmitPass(due)
      \/ RetransmitSend \/ Attach \/ HandlerReturns \/ Lose \/ UNCHANGED vars
      \/ \E i \in DOMAIN wire : ReceiveFrame(i)
      \/ \E i \in DOMAIN acking : ProcessData(i)
      => UNCHANGED <<sendSeq, sent>>
  BY DEF ReceiveAck, RetransmitPass, RetransmitSend, Attach, HandlerReturns, Lose,
         ReceiveFrame, ProcessData
<1> QED
  BY <1>a, <1>1, <1>2, <1>3, <1>4, <1>5 DEF Next

LEMMA ReceiverStep ==
    TypeOK /\ Authentic /\ SenderInv /\ ReceiverCursor /\ DeliveredInOrder /\ [Next]_vars
    => ReceiverCursor' /\ DeliveredInOrder'
<1> SUFFICES ASSUME TypeOK, Authentic, SenderInv, ReceiverCursor, DeliveredInOrder, [Next]_vars
             PROVE  ReceiverCursor' /\ DeliveredInOrder'
  OBVIOUS
<1> USE DEF vars, senderVars, loopVars, receiverVars
<1>1. CASE UNCHANGED receiverVars
  BY <1>1, StepGrows, ReceiverStays
<1>2. /\ recvBuffer \in [DOMAIN recvBuffer -> Frame]
      /\ \A s \in DOMAIN recvBuffer :
           Genuine(recvBuffer[s]) /\ recvBuffer[s].type = "DATA" /\ recvBuffer[s].seq = s
  BY TypeOKParts DEF Authentic, ReceiverTypeOK
<1>3. ASSUME NEW i \in DOMAIN acking, ProcessData(i), ~ UNCHANGED receiverVars
      PROVE  ReceiverCursor' /\ DeliveredInOrder'
  <2> DEFINE f == acking[i]
             buf == Put(recvBuffer, f.seq, f)
  <2>1. f \in Frame /\ Genuine(f) /\ f.type = "DATA"
    BY FramesTyped DEF Authentic
  <2>2. /\ buf \in [DOMAIN buf -> Frame]
        /\ \A s \in DOMAIN buf : Genuine(buf[s]) /\ buf[s].type = "DATA" /\ buf[s].seq = s
    BY <1>2, <2>1 DEF Put
  <2>3. Deliver(buf, inHandler) /\ UNCHANGED <<sendSeq, sent>>
    BY <1>3 DEF ProcessData
  <2> HIDE DEF buf
  <2> QED
    BY <2>2, <2>3, DeliverInOrder
<1>4. CASE HandlerReturns
  <2>1. Deliver(recvBuffer, inHandler - 1) /\ UNCHANGED <<sendSeq, sent>>
    BY <1>4 DEF HandlerReturns
  <2> QED
    BY <1>2, <2>1, DeliverInOrder
<1>5. \/ \E t \in Senders, n \in 1 .. MaxFragments : Send(t, n)
      \/ \E t \in Closers : Close(t)
      \/ \E t \in Tasks : WindowCheck(t) \/ RawSend(t)
      \/ \E i \in DOMAIN ackWire : ReceiveAck(i)
      \/ \E due \in SUBSET DOMAIN sendWindow : RetransmitPass(due)
      \/ RetransmitSend \/ Attach \/ Lose \/ UNCHANGED vars
      \/ \E i \in DOMAIN wire : ReceiveFrame(i)
      => UNCHANGED receiverVars
  BY DEF Send, Close, WindowCheck, RawSend, ReceiveAck, RetransmitPass, RetransmitSend,
         Attach, Lose, ReceiveFrame
<1> QED
  BY <1>1, <1>3, <1>4, <1>5 DEF Next

LEMMA InOrderInit == Init /\ OneSender => InOrderInv
<1> SUFFICES ASSUME Init, OneSender
             PROVE  InOrderInv
  OBVIOUS
<1>1. /\ sendSeq = 0 /\ sent = <<>> /\ recvNext = 0 /\ reassembly = <<>> /\ delivered = <<>>
      /\ resend = {} /\ wire = <<>> /\ acking = <<>>
      /\ DOMAIN sendWindow = {} /\ DOMAIN recvBuffer = {}
      /\ \A t \in Tasks : pc[t] = "idle" /\ frame[t] = MakeFrame(t, 0, NoFragment(t))
  BY DEF Init
<1>2. Authentic
  BY <1>1 DEF Authentic
<1>3. SentInOrder /\ Runs
  BY <1>1 DEF SentInOrder, Runs
<1>4. SenderCursor
  <2> SUFFICES ASSUME NEW t \in Senders
               PROVE  pc[t] # "done" /\ MoreIsRight(frame[t]) /\ CursorOf(t)
    BY DEF SenderCursor, MoreIsRight
  <2>1. pc[t] = "idle" /\ frame[t] = MakeFrame(t, 0, NoFragment(t))
    BY <1>1 DEF Tasks
  <2>2. frame[t].payload = NoFragment(t) /\ MoreIsRight(frame[t])
    <3> DEFINE f == MakeFrame(t, 0, NoFragment(t))
    <3>1. f.payload = NoFragment(t) /\ MoreIsRight(f)
      BY DEF MakeFrame, More, MoreIsRight
    <3> HIDE DEF f
    <3>2. frame[t] = f
      BY <2>1 DEF f
    <3> QED
      BY <3>1, <3>2
  <2>3. SamePlace(frame[t].payload, PayloadAt(sendSeq))
    BY <1>1, <2>2 DEF SamePlace, PayloadAt, Nothing, NoFragment
  <2>4. ~ (frame[t].payload.frag < frame[t].payload.of)
    BY <2>2 DEF NoFragment
  <2> QED
    BY <2>1, <2>2, <2>3, <2>4 DEF CursorOf
<1>5. ReceiverCursor /\ DeliveredInOrder
  BY <1>1 DEF ReceiverCursor, DeliveredInOrder, PayloadAt, Nothing, OpenUpTo
<1> QED
  BY <1>2, <1>3, <1>4, <1>5, TypeOKInit DEF InOrderInv

LEMMA InOrderStep == InOrderInv /\ [Next]_vars => InOrderInv'
<1> SUFFICES ASSUME InOrderInv, [Next]_vars
             PROVE  InOrderInv'
  OBVIOUS
<1>1. TypeOK /\ OneSender /\ Authentic /\ SenderInv /\ ReceiverCursor /\ DeliveredInOrder
  BY DEF InOrderInv, SenderInv
<1>2. TypeOK' /\ Authentic' /\ SenderInv'
  BY <1>1, TypeOKStep, AuthenticStep, SenderInvStep
<1>3. ReceiverCursor' /\ DeliveredInOrder'
  BY <1>1, ReceiverStep
<1>4. OneSender'
  BY <1>1 DEF OneSender
<1> QED
  BY <1>2, <1>3, <1>4 DEF InOrderInv, SenderInv

(* With one sending task, what on_message gets is message 1, 2, 3, ... of  *)
(* what send() was given, each whole and once, for every window size,      *)
(* message length and number of retries, any number of closing tasks, and  *)
(* whatever the transport loses, repeats or reorders.                      *)
THEOREM DeliveryInOrder ==
    ASSUME OneSender
    PROVE  Spec => []DeliveredInOrder
<1>1. Init => InOrderInv
  BY InOrderInit
<1>2. InOrderInv => DeliveredInOrder
  BY DEF InOrderInv
<1> QED
  BY <1>1, <1>2, InOrderStep, PTL DEF Spec
=============================================================================
