-------------------------- MODULE ReliableChannelAcks --------------------------
(***************************************************************************)
(* Proof that over the DataChannel as the program creates it, ordered and  *)
(* reliable, an ACK confirms only what was received, although it says      *)
(* seq + 1 of whatever frame arrived.                                      *)
(***************************************************************************)
EXTENDS ReliableChannelOrder

(* A data frame is with the receiver: it was delivered, waits in the buffer*)
(* or its handler is in _send_ack.                                         *)
Received(s) ==
    \/ s < recvNext
    \/ s \in DOMAIN recvBuffer
    \/ \E i \in DOMAIN acking : acking[i].seq = s

(* The numbers below k that data frames have.                              *)
DataBelow(k) == {s \in 0 .. k - 1 : sent[s + 1].type = "DATA"}

(* A copy of frame s is among the first n messages in transit.             *)
InTransit(s, n) == \E j \in 1 .. n : wire[j].seq = s

(* The sending task is in _send_raw with frame s for the first time.       *)
BeingSent(s) == \E t \in Senders : pc[t] = "sending" /\ frame[t].seq = s

(* That frame is the last of all data frames.                              *)
SendsTheLast ==
    \A t \in Senders : pc[t] = "sending" => \A s \in DataBelow(sendSeq) : s <= frame[t].seq

(* No data frame is lost on its way.                                       *)
NothingLost ==
    \A s \in DataBelow(sendSeq) : Received(s) \/ InTransit(s, Len(wire)) \/ BeingSent(s)

(* A data frame in transit is behind those with smaller numbers.  FIN may  *)
(* overtake a data frame, but nobody acknowledges it.                      *)
WireInOrder ==
    \A i \in DOMAIN wire :
        wire[i].type = "DATA" =>
            \A s \in DataBelow(wire[i].seq) : Received(s) \/ InTransit(s, i - 1)

(* What an ACK on its way confirms was received.                           *)
AcksHonest ==
    \A i \in DOMAIN ackWire :
        ackWire[i] <= sendSeq /\ \A s \in DataBelow(ackWire[i]) : Received(s)

(* So is what a data frame found whose handler is in _send_ack.            *)
AckingInOrder ==
    \A i \in DOMAIN acking : \A s \in DataBelow(acking[i].seq) : Received(s)

AckInv ==
    /\ attached
    /\ SendsTheLast
    /\ NothingLost
    /\ WireInOrder
    /\ AckingInOrder
    /\ AcksHonest
    /\ AckedWasReceived
-----------------------------------------------------------------------------
(* What is with the receiver stays with it.                                *)

LEMMA DeliverReceives ==
    ASSUME ReceiverTypeOK, NEW buf, NEW n, Deliver(buf, n), NEW s \in Nat,
           s < recvNext \/ s \in DOMAIN buf
    PROVE  s < recvNext' \/ s \in DOMAIN recvBuffer'
<1>1. PICK k \in recvNext .. recvNext + Cardinality(DOMAIN buf) :
        /\ recvNext' = k
        /\ recvBuffer' = Restrict(buf, DOMAIN buf \ (recvNext .. k - 1))
  BY DEF Deliver
<1>2. DOMAIN recvBuffer' = DOMAIN buf \ (recvNext .. k - 1)
  BY <1>1 DEF Restrict
<1>3. k \in Int /\ recvNext <= k /\ recvNext \in Nat
  BY <1>1 DEF ReceiverTypeOK
<1> QED
  BY <1>1, <1>2, <1>3

LEMMA ReceivedStays ==
    ASSUME TypeOK, [Next]_vars, NEW s \in Nat, Received(s)
    PROVE  Received(s)'
<1> USE DEF vars, senderVars, loopVars, receiverVars
<1>a. acking \in Seq(Frame) /\ wire \in Seq(Frame)
  BY DEF TypeOK
<1>1. CASE UNCHANGED <<receiverVars, acking>>
  BY <1>1 DEF Received
<1>2. ASSUME NEW i \in DOMAIN wire, ReceiveFrame(i)
      PROVE  Received(s)'
  <2>1. UNCHANGED receiverVars /\ (acking' = acking \/ acking' = Append(acking, wire[i]))
    BY <1>2 DEF ReceiveFrame
  <2>2. \A j \in DOMAIN acking : j \in DOMAIN acking' /\ acking'[j] = acking[j]
    BY <1>a, <2>1, AppendType
  <2> QED
    BY <2>1, <2>2 DEF Received
<1>3. ASSUME NEW i \in DOMAIN acking, ProcessData(i)
      PROVE  Received(s)'
  <2> DEFINE f == acking[i]
  <2>1. acking' = RemoveAt(acking, i)
    BY <1>3 DEF ProcessData
  <2>2. \A j \in DOMAIN acking : j # i => \E k \in DOMAIN acking' : acking'[k] = acking[j]
    BY <1>a, <2>1, RemoveAtType
  <2>3. CASE \E j \in DOMAIN acking : j # i /\ acking[j].seq = s
    BY <2>2, <2>3 DEF Received
  <2>4. CASE s < recvNext \/ s \in DOMAIN recvBuffer \/ f.seq = s
    <3>1. CASE Duplicate(f.seq) /\ UNCHANGED receiverVars
      BY <2>4, <3>1 DEF Received, Duplicate
    <3>2. CASE Deliver(Put(recvBuffer, f.seq, f), inHandler)
      <4> DEFINE buf == Put(recvBuffer, f.seq, f)
      <4>1. s < recvNext \/ s \in DOMAIN buf
        BY <2>4 DEF Put
      <4> HIDE DEF buf
      <4>2. s < recvNext' \/ s \in DOMAIN recvBuffer'
        BY <3>2, <4>1, DeliverReceives, TypeOKParts DEF buf
      <4> QED
        BY <4>2 DEF Received
    <3> QED
      BY <1>3, <3>1, <3>2 DEF ProcessData
  <2> QED
    BY <2>3, <2>4 DEF Received
<1>4. CASE HandlerReturns
  <2>1. Deliver(recvBuffer, inHandler - 1) /\ acking' = acking
    BY <1>4 DEF HandlerReturns
  <2>2. s < recvNext \/ s \in DOMAIN recvBuffer => s < recvNext' \/ s \in DOMAIN recvBuffer'
    BY <2>1, DeliverReceives, TypeOKParts
  <2> QED
    BY <2>1, <2>2 DEF Received
<1>5. \/ \E t \in Senders, n \in 1 .. MaxFragments : Send(t, n)
      \/ \E t \in Closers : Close(t)
      \/ \E t \in Tasks : WindowCheck(t) \/ RawSend(t)
      \/ \E i \in DOMAIN ackWire : ReceiveAck(i)
      \/ \E due \in SUBSET DOMAIN sendWindow : RetransmitPass(due)
      \/ RetransmitSend \/ Attach \/ Lose \/ UNCHANGED vars
      => UNCHANGED <<receiverVars, acking>>
  BY DEF Send, Close, WindowCheck, RawSend, ReceiveAck, RetransmitPass, RetransmitSend,
         Attach, Lose
<1> QED
  BY <1>1, <1>2, <1>3, <1>4, <1>5 DEF Next

(* DataBelow(k)' of a number k whose value is that before the step.        *)
StillBelow(k) == {s \in 0 .. k - 1 : sent'[s + 1].type = "DATA"}

(* The data frames below a number that was given out stay the same.        *)
LEMMA DataBelowStays ==
    ASSUME SenderTypeOK, SentGrows, NEW k \in Nat, k <= sendSeq
    PROVE  StillBelow(k) = DataBelow(k)
<1>1. \A s \in 0 .. k - 1 : s + 1 \in 1 .. sendSeq
  BY DEF SenderTypeOK
<1>2. \A s \in 0 .. k - 1 : sent'[s + 1] = sent[s + 1]
  BY <1>1 DEF SentGrows
<1> QED
  BY <1>2 DEF DataBelow, StillBelow
-----------------------------------------------------------------------------
(* What a step does, as far as the invariant tells steps apart.            *)

(* A step gives a new number to the frame of a task that goes on to send   *)
(* it, or gives out no number and lets nobody begin to send.               *)
NumbersNothing ==
    /\ UNCHANGED <<sendSeq, sent>>
    /\ \A u \in Tasks : pc'[u] = "sending" => pc[u] = "sending" /\ frame'[u] = frame[u]

Numbers(t) ==
    /\ sendSeq' = sendSeq + 1
    /\ pc'[t] = "sending"
    /\ frame'[t].seq = sendSeq
    /\ sent'[sendSeq + 1] = frame'[t]
    /\ frame'[t].type = "DATA" => t \in Senders
    /\ \A u \in Tasks \ {t} : pc'[u] = pc[u] /\ frame'[u] = frame[u]

LEMMA SendFrameNumbers ==
    ASSUME SenderTypeOK, NEW t \in Tasks, NEW p \in Payload, SendFrame(t, p)
    PROVE  NumbersNothing \/ Numbers(t)
<1> DEFINE f == MakeFrame(t, sendSeq, p)
<1>1. f.seq = sendSeq /\ (f.type = "DATA" => t \in Senders)
  BY DEF MakeFrame, Tasks
<1>2. /\ \A u \in Tasks \ {t} : pc'[u] = pc[u] /\ frame'[u] = frame[u]
      /\ frame'[t] = f
      /\ \/ pc'[t] = "waiting" /\ UNCHANGED <<sendSeq, sent>>
         \/ pc'[t] = "sending" /\ sendSeq' = sendSeq + 1 /\ sent'[sendSeq + 1] = f
  BY SendFrameCases
<1> HIDE DEF f
<1> QED
  BY <1>1, <1>2 DEF NumbersNothing, Numbers

LEMMA StepNumbers ==
    ASSUME TypeOK, [Next]_vars
    PROVE  /\ NumbersNothing \/ \E t \in Tasks : Numbers(t)
           /\ \A u \in Tasks :
                pc[u] = "sending" =>
                    \/ pc'[u] = "sending" /\ frame'[u] = frame[u]
                    \/ wire' = Append(wire, frame[u])
<1> DEFINE Stays(u) == pc'[u] = pc[u] /\ frame'[u] = frame[u]
<1> USE DEF vars, senderVars, loopVars, receiverVars
<1>a. /\ pc \in [Tasks -> {"idle", "waiting", "woken", "sending", "done"}]
      /\ frame \in [Tasks -> Frame]
      /\ \A t \in Tasks : frame[t].payload \in Payload
  BY DEF TypeOK, Frame
<1>1. ASSUME NEW t \in Tasks, NEW p \in Payload, SendFrame(t, p)
      PROVE  (NumbersNothing \/ Numbers(t)) /\ \A u \in Tasks \ {t} : Stays(u)
  BY <1>1, SendFrameNumbers, SendFrameCases, TypeOKParts
<1>2. ASSUME NEW t \in Senders, NEW n \in 1 .. MaxFragments, Send(t, n)
      PROVE  /\ \E u \in Tasks : NumbersNothing \/ Numbers(u)
             /\ \A u \in Tasks : pc[u] = "sending" => Stays(u)
  <2> DEFINE p == [from |-> t, msg |-> frame[t].payload.msg + 1, frag |-> 1, of |-> n]
  <2>1. t \in Tasks /\ p \in Payload /\ SendFrame(t, p) /\ pc[t] # "sending"
    BY <1>2, <1>a DEF Send, Tasks, Payload
  <2> HIDE DEF p
  <2> QED
    BY <1>1, <2>1
<1>3. ASSUME NEW t \in Closers, Close(t)
      PROVE  /\ \E u \in Tasks : NumbersNothing \/ Numbers(u)
             /\ \A u \in Tasks : pc[u] = "sending" => Stays(u)
  <2>1. t \in Tasks /\ NoFragment(t) \in Payload /\ SendFrame(t, NoFragment(t)) /\ pc[t] # "sending"
    BY <1>3 DEF Close, Tasks, Payload, NoFragment
  <2> QED
    BY <1>1, <2>1
<1>4. ASSUME NEW t \in Tasks, WindowCheck(t)
      PROVE  /\ \E u \in Tasks : NumbersNothing \/ Numbers(u)
             /\ \A u \in Tasks : pc[u] = "sending" => Stays(u)
  <2>1. frame[t].payload \in Payload /\ SendFrame(t, frame[t].payload) /\ pc[t] # "sending"
    BY <1>4, <1>a DEF WindowCheck
  <2> QED
    BY <1>1, <2>1
<1>5. ASSUME NEW t \in Tasks, RawSend(t)
      PROVE  /\ \E u \in Tasks : NumbersNothing \/ Numbers(u)
             /\ \A u \in Tasks \ {t} : Stays(u)
             /\ wire' = Append(wire, frame[t])
  <2>1. CASE frame[t].more
    <3> DEFINE p == [frame[t].payload EXCEPT !.frag = @ + 1]
    <3>1. SendFrame(t, p)
      BY <1>5, <2>1 DEF RawSend
    <3>2. p \in Payload
      BY <1>a DEF Payload
    <3> HIDE DEF p
    <3> QED
      BY <1>1, <1>5, <3>1, <3>2 DEF RawSend
  <2>2. CASE ~frame[t].more
    <3>1. /\ pc' = [pc EXCEPT ![t] = IF t \in Closers THEN "done" ELSE "idle"]
          /\ UNCHANGED <<frame, sendSeq, sent>>
      BY <1>5, <2>2 DEF RawSend
    <3>2. pc'[t] # "sending" /\ \A u \in Tasks \ {t} : pc'[u] = pc[u]
      BY <1>a, <3>1
    <3> QED
      BY <1>5, <3>1, <3>2 DEF NumbersNothing, RawSend
  <2> QED
    BY <2>1, <2>2
<1>6. ASSUME NEW i \in DOMAIN ackWire, ReceiveAck(i)
      PROVE  NumbersNothing /\ \A u \in Tasks : pc[u] = "sending" => Stays(u)
  <2>1. UNCHANGED <<frame, sendSeq, sent>> /\ (pc' = pc \/ pc' = WakeWaiters)
    BY <1>6 DEF ReceiveAck, ProcessAck
  <2> QED
    BY <1>a, <2>1 DEF WakeWaiters, NumbersNothing
<1>7. ASSUME UNCHANGED <<pc, frame, sendSeq, sent>>
      PROVE  NumbersNothing /\ \A u \in Tasks : pc[u] = "sending" => Stays(u)
  BY <1>7 DEF NumbersNothing
<1>8. \/ \E due \in SUBSET DOMAIN sendWindow : RetransmitPass(due)
      \/ RetransmitSend \/ Attach \/ HandlerReturns \/ Lose \/ UNCHANGED vars
      \/ \E i \in DOMAIN wire : ReceiveFrame(i)
      \/ \E i \in DOMAIN acking : ProcessData(i)
      => UNCHANGED <<pc, frame, sendSeq, sent>>
  BY DEF RetransmitPass, RetransmitSend, Attach, HandlerReturns, Lose, ReceiveFrame, ProcessData
<1> HIDE DEF vars, senderVars, loopVars, receiverVars
<1> QED
  BY <1>2, <1>3, <1>4, <1>5, <1>6, <1>7, <1>8 DEF Next

(* The frame that arrives is taken in if it is data.                       *)
TakesIn(f) ==
    /\ wire' = RemoveAt(wire, 1)
    /\ f.type = "DATA" => acking' = Append(acking, f)

(* Ordered and reliable: frames go in at the end and come out in front.    *)
LEMMA StepMovesFrames ==
    ASSUME TypeOK, Authentic, [Next]_vars, attached, Faults = {}
    PROVE  \/ wire' = wire
           \/ \E f \in Frame : Genuine(f) /\ wire' = Append(wire, f)
           \/ 1 \in DOMAIN wire /\ TakesIn(wire[1])
<1> USE DEF vars, senderVars, loopVars, receiverVars
<1>1. ASSUME NEW t \in Tasks, RawSend(t)
      PROVE  \E f \in Frame : Genuine(f) /\ wire' = Append(wire, f)
  BY <1>1, FramesTyped DEF RawSend, Authentic
<1>2. ASSUME RetransmitSend
      PROVE  \E f \in Frame : Genuine(f) /\ wire' = Append(wire, f)
  <2>1. PICK f \in resend : wire' = Append(wire, f)
    BY <1>2 DEF RetransmitSend
  <2> QED
    BY <2>1, FramesTyped DEF Authentic
<1>3. ASSUME NEW i \in DOMAIN wire, ReceiveFrame(i)
      PROVE  1 \in DOMAIN wire /\ TakesIn(wire[1])
  <2>1. i = 1
    BY <1>3 DEF ReceiveFrame, Takes
  <2> QED
    BY <1>3, <2>1 DEF ReceiveFrame, TakesIn
<1>4. ~ Lose
  BY DEF Lose
<1>5. \/ \E t \in Senders, n \in 1 .. MaxFragments : Send(t, n)
      \/ \E t \in Closers : Close(t)
      \/ \E t \in Tasks : WindowCheck(t)
      \/ \E i \in DOMAIN ackWire : ReceiveAck(i)
      \/ \E due \in SUBSET DOMAIN sendWindow : RetransmitPass(due)
      \/ \E i \in DOMAIN acking : ProcessData(i)
      \/ Attach \/ HandlerReturns \/ UNCHANGED vars
      => wire' = wire
  BY DEF Send, Close, WindowCheck, ReceiveAck, RetransmitPass, ProcessData, Attach, HandlerReturns
<1> QED
  BY <1>1, <1>2, <1>3, <1>4, <1>5 DEF Next

(* A number enters the window when it is given out, and leaves it with an  *)
(* ACK or when the frame is given up.                                      *)
LEMMA StepKeepsWindow ==
    ASSUME TypeOK, [Next]_vars
    PROVE  /\ \A s \in sendSeq .. sendSeq' - 1 : s \in DOMAIN sendWindow'
           /\ \A s \in DOMAIN sendWindow :
                \/ s \in DOMAIN sendWindow' \cup dropped'
                \/ \E i \in DOMAIN ackWire : s < ackWire[i]
           /\ dropped \subseteq dropped'
<1> USE DEF vars, senderVars, loopVars, receiverVars
<1>a. /\ sendSeq \in Nat /\ ackWire \in Seq(Nat)
      /\ DOMAIN sendWindow \subseteq 0 .. sendSeq - 1
  BY DEF TypeOK
<1>1. ASSUME NEW t \in Tasks, NEW p, SendFrame(t, p)
      PROVE  /\ \A s \in sendSeq .. sendSeq' - 1 : s \in DOMAIN sendWindow'
             /\ DOMAIN sendWindow \subseteq DOMAIN sendWindow'
  <2>1. \/ UNCHANGED <<sendSeq, sendWindow>>
        \/ /\ sendSeq' = sendSeq + 1
           /\ DOMAIN sendWindow' = DOMAIN sendWindow \cup {sendSeq}
    BY <1>1 DEF SendFrame, Put
  <2> QED
    BY <1>a, <2>1
<1>2. \/ \E t \in Senders, n \in 1 .. MaxFragments : Send(t, n)
      \/ \E t \in Closers : Close(t)
      \/ \E t \in Tasks : WindowCheck(t) \/ RawSend(t)
      => /\ dropped' = dropped
         /\ UNCHANGED <<sendSeq, sendWindow>> \/ \E t \in Tasks : \E p : SendFrame(t, p)
  BY DEF Send, Close, WindowCheck, RawSend, Tasks
<1>3. ASSUME NEW i \in DOMAIN ackWire, ReceiveAck(i)
      PROVE  /\ UNCHANGED <<sendSeq, dropped>>
             /\ \A s \in DOMAIN sendWindow : s \in DOMAIN sendWindow' \/ s < ackWire[i]
  <2>1. ackWire[i] \in Nat /\ \A s \in DOMAIN sendWindow : s \in Nat
    BY <1>a
  <2> QED
    BY <1>3, <2>1 DEF ReceiveAck, ProcessAck, Unacked, Restrict
<1>4. ASSUME NEW due \in SUBSET DOMAIN sendWindow, RetransmitPass(due)
      PROVE  /\ sendSeq' = sendSeq
             /\ dropped \subseteq dropped'
             /\ \A s \in DOMAIN sendWindow : s \in DOMAIN sendWindow' \cup dropped'
  BY <1>4 DEF RetransmitPass
<1>5. \/ RetransmitSend \/ Attach \/ HandlerReturns \/ Lose \/ UNCHANGED vars
      \/ \E i \in DOMAIN wire : ReceiveFrame(i)
      \/ \E i \in DOMAIN acking : ProcessData(i)
      => UNCHANGED <<sendSeq, sendWindow, dropped>>
  BY DEF RetransmitSend, Attach, HandlerReturns, Lose, ReceiveFrame, ProcessData
<1>6. sendSeq' = sendSeq => sendSeq .. sendSeq' - 1 = {}
  BY <1>a
<1> HIDE DEF vars, senderVars, loopVars, receiverVars
<1> QED
  BY <1>1, <1>2, <1>3, <1>4, <1>5, <1>6 DEF Next

(* The ACKs in transit, and the data frames whose handler is in _send_ack, *)
(* after a step.                                                           *)
LEMMA StepAcks ==
    ASSUME TypeOK, [Next]_vars
    PROVE  /\ \A i \in DOMAIN ackWire' :
                \/ \E j \in DOMAIN ackWire : ackWire'[i] = ackWire[j]
                \/ \E j \in DOMAIN acking : ackWire'[i] = acking[j].seq + 1
           /\ \A i \in DOMAIN acking' :
                \/ \E j \in DOMAIN acking : acking'[i] = acking[j]
                \/ \E j \in DOMAIN wire :
                      acking'[i] = wire[j] /\ wire[j].type = "DATA" /\ Takes(j, wire)
<1> USE DEF vars, senderVars, loopVars, receiverVars
<1>a. ackWire \in Seq(Nat) /\ acking \in Seq(Frame)
  BY DEF TypeOK
<1>b. /\ \A i \in DOMAIN wire : wire[i] \in Frame
      /\ \A i \in DOMAIN acking : acking[i].seq \in Nat
  BY FramesTyped DEF Frame
<1>1. ASSUME NEW i \in DOMAIN ackWire, ReceiveAck(i)
      PROVE  /\ acking' = acking
             /\ \A k \in DOMAIN ackWire' : \E j \in DOMAIN ackWire : ackWire'[k] = ackWire[j]
  BY <1>1, <1>a, RemoveAtType DEF ReceiveAck
<1>2. ASSUME NEW i \in DOMAIN wire, ReceiveFrame(i)
      PROVE  /\ ackWire' = ackWire
             /\ \A k \in DOMAIN acking' :
                  \/ \E j \in DOMAIN acking : acking'[k] = acking[j]
                  \/ acking'[k] = wire[i] /\ wire[i].type = "DATA" /\ Takes(i, wire)
  <2>1. \/ acking' = acking
        \/ acking' = Append(acking, wire[i]) /\ wire[i].type = "DATA"
    BY <1>2 DEF ReceiveFrame
  <2> QED
    BY <1>2, <1>a, <1>b, <2>1, AppendType DEF ReceiveFrame
<1>3. ASSUME NEW i \in DOMAIN acking, ProcessData(i)
      PROVE  /\ \A k \in DOMAIN ackWire' :
                  \/ \E j \in DOMAIN ackWire : ackWire'[k] = ackWire[j]
                  \/ ackWire'[k] = acking[i].seq + 1
             /\ \A k \in DOMAIN acking' : \E j \in DOMAIN acking : acking'[k] = acking[j]
  <2>1. acking' = RemoveAt(acking, i) /\ ackWire' = Append(ackWire, acking[i].seq + 1)
    BY <1>3 DEF ProcessData
  <2>2. acking[i].seq + 1 \in Nat
    BY <1>b
  <2>3. \A k \in DOMAIN ackWire' :
          (\E j \in DOMAIN ackWire : ackWire'[k] = ackWire[j]) \/ ackWire'[k] = acking[i].seq + 1
    BY <1>a, <2>1, <2>2, AppendType
  <2> QED
    BY <1>a, <2>1, <2>3, RemoveAtType
<1>4. ASSUME Lose
      PROVE  /\ acking' = acking
             /\ \A k \in DOMAIN ackWire' : \E j \in DOMAIN ackWire : ackWire'[k] = ackWire[j]
  <2>1. ackWire' = ackWire \/ \E i \in DOMAIN ackWire : ackWire' = RemoveAt(ackWire, i)
    BY <1>4 DEF Lose
  <2> QED
    BY <1>4, <1>a, <2>1, RemoveAtType DEF Lose
<1>5. \/ \E t \in Senders, n \in 1 .. MaxFragments : Send(t, n)
      \/ \E t \in Closers : Close(t)
      \/ \E t \in Tasks : WindowCheck(t) \/ RawSend(t)
      \/ \E due \in SUBSET DOMAIN sendWindow : RetransmitPass(due)
      \/ RetransmitSend \/ Attach \/ HandlerReturns \/ UNCHANGED vars
      => UNCHANGED <<ackWire, acking>>
  BY DEF Send, Close, WindowCheck, RawSend, RetransmitPass, RetransmitSend, Attach, HandlerReturns
<1> HIDE DEF vars, senderVars, loopVars, receiverVars
<1> QED
  BY <1>1, <1>2, <1>3, <1>4, <1>5 DEF Next
-----------------------------------------------------------------------------
(* The invariant.                                                          *)

LEMMA AckInvStep == InOrderInv /\ AckInv /\ Faults = {} /\ [Next]_vars => AckInv'
<1> SUFFICES ASSUME InOrderInv, AckInv, Faults = {}, [Next]_vars
             PROVE  AckInv'
  OBVIOUS
<1>a. /\ TypeOK /\ OneSender /\ Authentic /\ SentGrows
      /\ sendSeq \in Nat /\ sendSeq' \in Nat /\ sendSeq <= sendSeq'
      /\ wire \in Seq(Frame)
  BY StepGrows DEF InOrderInv, TypeOK, SentGrows
<1>b. \A s \in Nat : Received(s) => Received(s)'
  BY <1>a, ReceivedStays
<1>c. \A k \in 0 .. sendSeq : StillBelow(k) = DataBelow(k)
  BY <1>a, DataBelowStays, TypeOKParts
<1>d. /\ \A k \in Nat : \A s \in DataBelow(k) : s \in Nat /\ s < k
      /\ \A f \in Frame : Genuine(f) => f.seq \in 0 .. sendSeq
      /\ \A f \in Frame : Genuine(f) /\ f.type = "DATA" => f.seq \in DataBelow(sendSeq)
  <2>1. \A f \in Frame : f.seq \in Nat
    BY DEF Frame
  <2>2. \A f \in Frame : Genuine(f) => f.seq \in 0 .. sendSeq - 1
    BY <1>a, <2>1 DEF Genuine
  <2>3. \A f \in Frame : Genuine(f) /\ f.type = "DATA" => f.seq \in DataBelow(sendSeq)
    BY <2>2 DEF DataBelow, Genuine
  <2>4. \A k \in Nat : \A s \in DataBelow(k) : s \in Nat /\ s < k
    <3> SUFFICES ASSUME NEW k \in Nat, NEW s \in DataBelow(k)
                 PROVE  s \in Nat /\ s < k
      OBVIOUS
    <3>1. s \in 0 .. k - 1
      BY DEF DataBelow
    <3> QED
      BY <3>1
  <2>5. \A f \in Frame : Genuine(f) => f.seq \in 0 .. sendSeq
    BY <1>a, <2>2
  <2> QED
    BY <2>3, <2>4, <2>5
<1>e. \/ NumbersNothing
      \/ \E t \in Tasks : Numbers(t)
  BY <1>a, StepNumbers
<1>f. \/ wire' = wire
      \/ \E f \in Frame : Genuine(f) /\ wire' = Append(wire, f)
      \/ 1 \in DOMAIN wire /\ TakesIn(wire[1])
  BY <1>a, StepMovesFrames DEF AckInv
(* What is in transit stays there or arrives. *)
<1>g. ASSUME 1 \in DOMAIN wire, TakesIn(wire[1]), NEW n \in 1 .. Len(wire),
             NEW s \in DataBelow(sendSeq), InTransit(s, n)
      PROVE  Received(s)' \/ InTransit(s, n - 1)'
  <2>1. PICK j \in 1 .. n : wire[j].seq = s
    BY <1>g DEF InTransit
  <2>2. wire[1] \in Frame /\ acking \in Seq(Frame)
    BY <1>a, <1>g DEF TypeOK
  <2>3. CASE j = 1
    <3>1. wire[1].type = "DATA"
      BY <1>a, <1>g, <2>1, <2>3 DEF Authentic, Genuine, DataBelow
    <3>2. acking' = Append(acking, wire[1])
      BY <1>g, <3>1 DEF TakesIn
    <3>3. Len(acking) + 1 \in DOMAIN acking' /\ acking'[Len(acking) + 1] = wire[1]
      BY <2>2, <3>2, AppendType
    <3> QED
      BY <2>1, <2>3, <3>3 DEF Received
  <2>4. CASE j # 1
    <3>1. j - 1 \in 1 .. n - 1 /\ j - 1 \in 1 .. Len(wire) - 1 /\ (j - 1) + 1 = j
      BY <1>a, <2>1, <2>4
    <3>2. wire' = RemoveAt(wire, 1) /\ wire \in Seq(Frame) /\ 1 \in DOMAIN wire
      BY <1>a, <1>g DEF TakesIn, TypeOK
    <3>3. \A i \in 1 .. Len(wire) - 1 : wire'[i] = IF i < 1 THEN wire[i] ELSE wire[i + 1]
      BY ONLY <3>2, RemoveAtParts
    <3>4. wire'[j - 1] = wire[j]
      BY <3>1, <3>3
    <3> QED
      BY <2>1, <3>1, <3>4 DEF InTransit
  <2> QED
    BY <2>3, <2>4
<1>1. attached'
  BY DEF AckInv, Next, vars, senderVars, loopVars, receiverVars, Send, Close, WindowCheck, RawSend,
         ReceiveAck, RetransmitPass, RetransmitSend, Attach, ReceiveFrame, ProcessData,
         HandlerReturns, Lose
<1>2. SendsTheLast'
  <2> SUFFICES ASSUME NEW u \in Senders, pc'[u] = "sending", NEW s \in StillBelow(sendSeq')
               PROVE  s <= frame'[u].seq
    BY DEF SendsTheLast, DataBelow, StillBelow
  <2>1. CASE NumbersNothing
    <3>1. pc[u] = "sending" /\ frame'[u] = frame[u] /\ s \in DataBelow(sendSeq)
      BY <2>1, <1>a, <1>c DEF NumbersNothing, Tasks
    <3> QED
      BY <3>1 DEF AckInv, SendsTheLast
  <2>2. ASSUME NEW t \in Tasks, Numbers(t)
        PROVE  s <= frame'[u].seq
    <3>1. s \in 0 .. sendSeq /\ sent'[s + 1].type = "DATA"
      BY <1>a, <2>2 DEF StillBelow, Numbers
    <3>2. CASE u = t
      BY <2>2, <3>1, <3>2 DEF Numbers
    <3>3. CASE u # t
      <4>1. t \notin Senders
        BY <1>a, <3>3 DEF OneSender
      <4>2. s # sendSeq
        BY <2>2, <3>1, <4>1 DEF Numbers
      <4>3. s \in DataBelow(sendSeq)
        BY <1>a, <3>1, <4>2, DataBelowStays, TypeOKParts DEF StillBelow
      <4>4. pc[u] = "sending" /\ frame'[u] = frame[u]
        BY <2>2, <3>3 DEF Numbers, Tasks
      <4> QED
        BY <4>3, <4>4 DEF AckInv, SendsTheLast
    <3> QED
      BY <3>2, <3>3
  <2> QED
    BY <1>e, <2>1, <2>2
<1>3. NothingLost'
  <2> SUFFICES ASSUME NEW s \in StillBelow(sendSeq')
               PROVE  Received(s)' \/ InTransit(s, Len(wire))' \/ BeingSent(s)'
    BY DEF NothingLost, DataBelow, StillBelow
  <2>1. CASE s \in DataBelow(sendSeq)
    <3>1. Received(s) \/ InTransit(s, Len(wire)) \/ BeingSent(s)
      BY <2>1 DEF AckInv, NothingLost
    <3>2. CASE Received(s)
      BY <1>a, <1>b, <1>d, <2>1, <3>2
    <3>3. CASE InTransit(s, Len(wire))
      <4>1. CASE wire' = wire
        BY <3>3, <4>1 DEF InTransit
      <4>2. ASSUME NEW f \in Frame, wire' = Append(wire, f)
            PROVE  InTransit(s, Len(wire))'
        <5>1. /\ Len(wire') = Len(wire) + 1
              /\ \A j \in 1 .. Len(wire) : wire'[j] = wire[j]
          BY <1>a, <4>2, AppendType
        <5> QED
          BY <1>a, <3>3, <5>1 DEF InTransit
      <4>3. CASE 1 \in DOMAIN wire /\ TakesIn(wire[1])
        <5>1. PICK n \in 1 .. Len(wire) : n = Len(wire) /\ Len(wire') = n - 1
          BY <1>a, <4>3, RemoveAtParts DEF TakesIn
        <5>2. Received(s)' \/ InTransit(s, n - 1)'
          BY <1>g, <2>1, <3>3, <4>3, <5>1
        <5> QED
          BY <5>1, <5>2 DEF InTransit
      <4> QED
        BY <1>f, <4>1, <4>2, <4>3
    <3>4. CASE BeingSent(s)
      <4>1. PICK u \in Senders : pc[u] = "sending" /\ frame[u].seq = s
        BY <3>4 DEF BeingSent
      <4>2. \/ pc'[u] = "sending" /\ frame'[u] = frame[u]
            \/ wire' = Append(wire, frame[u])
        BY <1>a, <4>1, StepNumbers DEF Tasks
      <4>3. CASE pc'[u] = "sending" /\ frame'[u] = frame[u]
        BY <4>1, <4>3 DEF BeingSent
      <4>4. CASE wire' = Append(wire, frame[u])
        <5>1. frame[u] \in Frame
          BY <1>a, FramesTyped DEF Tasks
        <5>2. Len(wire') \in 1 .. Len(wire') /\ wire'[Len(wire')] = frame[u]
          BY <1>a, <4>4, <5>1, AppendType
        <5> QED
          BY <4>1, <5>2 DEF InTransit
      <4> QED
        BY <4>2, <4>3, <4>4
    <3> QED
      BY <3>1, <3>2, <3>3, <3>4
  <2>2. CASE s \notin DataBelow(sendSeq)
    <3>1. s \notin StillBelow(sendSeq') \/ sendSeq' # sendSeq
      BY <1>a, <1>c, <2>2
    <3>2. PICK t \in Tasks : Numbers(t)
      BY <1>e, <1>c, <1>a, <2>2, <3>1 DEF NumbersNothing
    <3>3. s \in 0 .. sendSeq /\ sent'[s + 1].type = "DATA"
      BY <1>a, <3>2 DEF StillBelow, Numbers
    <3>4. s = sendSeq
      BY <1>a, <2>2, <3>3, DataBelowStays, TypeOKParts DEF StillBelow
    <3>5. t \in Senders /\ pc'[t] = "sending" /\ frame'[t].seq = s
      BY <3>2, <3>3, <3>4 DEF Numbers
    <3> QED
      BY <3>5 DEF BeingSent
  <2> QED
    BY <2>1, <2>2
<1>4. WireInOrder'
  <2>1. ASSUME NEW f \in Frame, Genuine(f), f.type = "DATA", NEW s \in DataBelow(f.seq)
        PROVE  Received(s) \/ InTransit(s, Len(wire))
    <3>1. f.seq \in DataBelow(sendSeq) /\ s < f.seq
      BY <1>d, <2>1
    <3>2. s \in DataBelow(sendSeq)
      BY <1>a, <3>1 DEF DataBelow
    <3>3. ~ BeingSent(s)
      <4>1. f.seq \in Nat /\ s \in Nat
        BY <1>a, <1>d, <3>1, <3>2
      <4> QED
        BY <3>1, <4>1 DEF AckInv, BeingSent, SendsTheLast
    <3> QED
      BY <3>2, <3>3 DEF AckInv, NothingLost
  <2>2. ASSUME NEW i \in DOMAIN wire, wire[i].type = "DATA", NEW s \in StillBelow(wire[i].seq)
        PROVE  /\ s \in DataBelow(sendSeq)
               /\ Received(s) \/ InTransit(s, i - 1)
    <3>1. wire[i] \in Frame /\ Genuine(wire[i])
      BY <1>a, FramesTyped, <2>2 DEF Authentic
    <3>2. wire[i].seq \in 0 .. sendSeq
      BY <1>d, <3>1
    <3>3. s \in DataBelow(wire[i].seq)
      BY <1>c, <2>2, <3>2
    <3>4. s \in DataBelow(sendSeq)
      BY <1>a, <3>2, <3>3 DEF DataBelow
    <3> QED
      BY <2>2, <3>3, <3>4 DEF AckInv, WireInOrder
  <2> SUFFICES ASSUME NEW i \in DOMAIN wire', wire'[i].type = "DATA",
                      NEW s \in StillBelow(wire'[i].seq)
               PROVE  Received(s)' \/ InTransit(s, i - 1)'
    BY DEF WireInOrder, DataBelow, StillBelow
  <2>3. CASE wire' = wire
    <3>1. Received(s) \/ InTransit(s, i - 1)
      BY <2>2, <2>3
    <3>2. Received(s) => Received(s)'
      BY <1>a, <1>b, <1>d, <2>2, <2>3
    <3> QED
      BY <2>3, <3>1, <3>2 DEF InTransit
  <2>4. ASSUME NEW f \in Frame, Genuine(f), wire' = Append(wire, f)
        PROVE  Received(s)' \/ InTransit(s, i - 1)'
    <3>1. /\ Len(wire') = Len(wire) + 1
          /\ \A j \in 1 .. Len(wire) : wire'[j] = wire[j]
          /\ wire'[Len(wire) + 1] = f
          /\ wire' \in Seq(Frame)
      BY <1>a, <2>4, AppendType
    <3>2. \A n \in 0 .. Len(wire) : InTransit(s, n) => InTransit(s, n)'
      BY <1>a, <3>1 DEF InTransit
    <3>3. CASE i \in 1 .. Len(wire)
      <4>1. i \in DOMAIN wire /\ wire'[i] = wire[i]
        BY <1>a, <3>1, <3>3
      <4>2. Received(s) \/ InTransit(s, i - 1)
        BY <2>2, <4>1
      <4>3. s \in Nat
        BY <1>a, <1>d, <2>2, <4>1
      <4> QED
        BY <1>a, <1>b, <3>2, <3>3, <4>2, <4>3
    <3>4. CASE i = Len(wire) + 1
      <4>1. s \in DataBelow(f.seq)
        BY <1>c, <1>d, <2>4, <3>1, <3>4
      <4>2. Received(s) \/ InTransit(s, Len(wire))
        BY <2>1, <2>4, <3>1, <3>4, <4>1
      <4>3. s \in Nat
        BY <1>a, <2>4, <1>d, <4>1
      <4> QED
        BY <1>a, <1>b, <3>2, <3>4, <4>2, <4>3
    <3> QED
      BY <1>a, <3>1, <3>3, <3>4
  <2>5. CASE 1 \in DOMAIN wire /\ TakesIn(wire[1])
    <3>1. /\ Len(wire') = Len(wire) - 1
          /\ \A j \in 1 .. Len(wire) - 1 : wire'[j] = wire[j + 1]
          /\ wire' \in Seq(Frame)
      BY <1>a, <2>5, RemoveAtParts DEF TakesIn
    <3>2. i \in 1 .. Len(wire) - 1 /\ i + 1 \in DOMAIN wire /\ wire'[i] = wire[i + 1]
      BY <1>a, <3>1
    <3>3. s \in DataBelow(sendSeq) /\ (Received(s) \/ InTransit(s, i))
      <4>1. (i + 1) - 1 = i
        BY <3>2
      <4> QED
        BY <2>2, <3>2, <4>1
    <3>4. Received(s) => Received(s)'
      BY <1>a, <1>b, <1>d, <3>3
    <3>5. InTransit(s, i) => Received(s)' \/ InTransit(s, i - 1)'
      BY <1>a, <1>g, <2>5, <3>2, <3>3
    <3> QED
      BY <3>3, <3>4, <3>5
  <2> QED
    BY <1>f, <2>3, <2>4, <2>5
<1>5. AckingInOrder'
  <2> SUFFICES ASSUME NEW i \in DOMAIN acking', NEW s \in StillBelow(acking'[i].seq)
               PROVE  Received(s)'
    BY DEF AckingInOrder, DataBelow, StillBelow
  <2>1. CASE \E j \in DOMAIN acking : acking'[i] = acking[j]
    <3>1. PICK j \in DOMAIN acking : acking'[i] = acking[j]
      BY <2>1
    <3>2. s \in DataBelow(acking[j].seq)
      BY <1>a, <1>c, <1>d, <3>1, FramesTyped DEF Authentic
    <3>3. acking[j].seq \in Nat
      BY <1>a, FramesTyped DEF Frame
    <3> QED
      BY <1>b, <1>d, <3>2, <3>3 DEF AckInv, AckingInOrder
  <2>2. CASE \E j \in DOMAIN wire : acking'[i] = wire[j] /\ wire[j].type = "DATA" /\ Takes(j, wire)
    <3>1. PICK j \in DOMAIN wire : acking'[i] = wire[j] /\ wire[j].type = "DATA" /\ Takes(j, wire)
      BY <2>2
    <3>2. j = 1
      BY <3>1 DEF Takes
    <3>3. s \in DataBelow(wire[1].seq)
      BY <1>a, <1>c, <1>d, <3>1, <3>2, FramesTyped DEF Authentic
    <3>4. ~ InTransit(s, 1 - 1)
      BY DEF InTransit
    <3>5. wire[1].seq \in Nat
      BY <1>a, FramesTyped, <3>1, <3>2 DEF Frame
    <3> QED
      BY <1>b, <1>d, <3>1, <3>2, <3>3, <3>4, <3>5 DEF AckInv, WireInOrder
  <2> QED
    BY <1>a, <2>1, <2>2, StepAcks
<1>6. AcksHonest'
  <2> SUFFICES ASSUME NEW i \in DOMAIN ackWire'
               PROVE  ackWire'[i] <= sendSeq' /\ \A s \in StillBelow(ackWire'[i]) : Received(s)'
    BY DEF AcksHonest, DataBelow, StillBelow
  <2>1. ASSUME NEW k \in 0 .. sendSeq, ackWire'[i] = k, \A s \in DataBelow(k) : Received(s)
        PROVE  ackWire'[i] <= sendSeq' /\ \A s \in StillBelow(ackWire'[i]) : Received(s)'
    <3>1. k <= sendSeq'
      BY <1>a
    <3>2. \A s \in StillBelow(k) : Received(s)'
      BY <1>b, <1>c, <1>d, <2>1
    <3> QED
      BY <2>1, <3>1, <3>2 DEF DataBelow
  <2>2. CASE \E j \in DOMAIN ackWire : ackWire'[i] = ackWire[j]
    <3>1. PICK j \in DOMAIN ackWire : ackWire'[i] = ackWire[j]
      BY <2>2
    <3>2. ackWire[j] \in Nat
      BY <1>a DEF TypeOK
    <3>3. ackWire[j] \in 0 .. sendSeq /\ \A s \in DataBelow(ackWire[j]) : Received(s)
      BY <1>a, <3>2 DEF AckInv, AcksHonest
    <3> QED
      BY <2>1, <3>1, <3>3
  <2>3. CASE \E j \in DOMAIN acking : ackWire'[i] = acking[j].seq + 1
    <3>1. PICK j \in DOMAIN acking : ackWire'[i] = acking[j].seq + 1
      BY <2>3
    <3>2. acking[j].seq \in Nat /\ acking[j].seq < sendSeq
      BY <1>a, FramesTyped DEF Authentic, Genuine, Frame
    <3>3. \A s \in DataBelow(acking[j].seq + 1) : s = acking[j].seq \/ s \in DataBelow(acking[j].seq)
      BY <3>2 DEF DataBelow
    <3>4. \A s \in DataBelow(acking[j].seq + 1) : Received(s)
      BY <3>3 DEF AckInv, AckingInOrder, Received
    <3>5. acking[j].seq + 1 \in 0 .. sendSeq
      BY <1>a, <3>2
    <3> QED
      BY <2>1, <3>1, <3>4, <3>5
  <2> QED
    BY <1>a, <2>2, <2>3, StepAcks
<1>7. AckedWasReceived'
  <2> SUFFICES ASSUME NEW s \in 0 .. sendSeq' - 1
               PROVE  \/ s \in DOMAIN sendWindow' \cup dropped'
                      \/ Received(s)'
                      \/ sent'[s + 1].type = "FIN"
    BY DEF AckedWasReceived, Received
  <2>1. CASE s \in sendSeq .. sendSeq' - 1
    BY <1>a, <2>1, StepKeepsWindow
  <2>2. CASE s \in 0 .. sendSeq - 1
    <3>1. s + 1 \in 1 .. sendSeq /\ sent[s + 1] \in Frame
      BY <1>a, <2>2 DEF TypeOK
    <3>2. sent'[s + 1] = sent[s + 1]
      BY <1>a, <3>1 DEF SentGrows
    <3>3. \/ s \in DOMAIN sendWindow \/ s \in dropped \/ Received(s)
          \/ sent[s + 1].type = "FIN"
      BY <2>2 DEF AckInv, AckedWasReceived, Received
    <3>4. CASE s \in DOMAIN sendWindow /\ \E i \in DOMAIN ackWire : s < ackWire[i]
      <4>1. PICK i \in DOMAIN ackWire : s < ackWire[i]
        BY <3>4
      <4>2. ackWire[i] \in Nat
        BY <1>a DEF TypeOK
      <4>3. sent[s + 1].type = "DATA" => s \in DataBelow(ackWire[i])
        BY <2>2, <4>1, <4>2 DEF DataBelow
      <4>4. sent[s + 1].type = "DATA" => Received(s)
        BY <4>3 DEF AckInv, AcksHonest
      <4>5. sent[s + 1].type \in {"DATA", "FIN"}
        BY <3>1 DEF Frame
      <4> QED
        BY <1>b, <2>2, <3>2, <4>4, <4>5
    <3>5. CASE s \in DOMAIN sendWindow \cup dropped /\ ~ \E i \in DOMAIN ackWire : s < ackWire[i]
      BY <1>a, <3>5, StepKeepsWindow
    <3>6. CASE s \in dropped
      BY <1>a, <3>6, StepKeepsWindow
    <3>7. CASE Received(s)
      BY <1>b, <2>2, <3>7
    <3>8. CASE sent[s + 1].type = "FIN"
      BY <3>2, <3>8
    <3> QED
      BY <3>3, <3>4, <3>5, <3>6, <3>7, <3>8
  <2> QED
    BY <1>a, <2>1, <2>2
<1> QED
  BY <1>1, <1>2, <1>3, <1>4, <1>5, <1>6, <1>7 DEF AckInv

(* With one sending task, and over a DataChannel that neither loses nor    *)
(* reorders a message for a peer that has set tunnel.on_receive, _process_ *)
(* ack confirms only data frames that the receiver has: for every window   *)
(* size, number of retries, number of closing tasks and length of message. *)
THEOREM AcksAreHonest ==
    ASSUME OneSender, Faults = {}
    PROVE  Spec => []AckedWasReceived
<1>1. Init => AckInv
  <2>1. Init => /\ sendSeq = 0 /\ wire = <<>> /\ ackWire = <<>> /\ acking = <<>> /\ attached
                /\ \A t \in Tasks : pc[t] = "idle"
    BY DEF Init
  <2>2. sendSeq = 0 => DataBelow(sendSeq) = {} /\ 0 .. sendSeq - 1 = {}
    BY DEF DataBelow
  <2> QED
    BY <2>1, <2>2 DEF AckInv, SendsTheLast, NothingLost, WireInOrder, AckingInOrder, AcksHonest,
                      AckedWasReceived, Tasks
<1>2. InOrderInv /\ AckInv /\ [Next]_vars => InOrderInv' /\ AckInv'
  BY InOrderStep, AckInvStep
<1>3. Init => InOrderInv
  BY InOrderInit
<1>4. AckInv => AckedWasReceived
  BY DEF AckInv
<1> QED
  BY <1>1, <1>2, <1>3, <1>4, PTL DEF Spec
=============================================================================
