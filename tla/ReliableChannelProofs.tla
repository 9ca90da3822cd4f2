------------------------ MODULE ReliableChannelProofs ------------------------
(***************************************************************************)
(* Proofs about ReliableChannel, for every window size, number of retries, *)
(* message size and every combination of faults of the transport.          *)
(***************************************************************************)
EXTENDS ReliableChannel, FiniteSetTheorems, TLAPS

-----------------------------------------------------------------------------
(* Operators.                                                              *)

(* What is left of a sequence when its i-th element is removed.            *)
LEMMA RemoveAtParts ==
    ASSUME NEW S, NEW q \in Seq(S), NEW i \in DOMAIN q
    PROVE  /\ RemoveAt(q, i) \in Seq(S)
           /\ Len(RemoveAt(q, i)) = Len(q) - 1
           /\ \A j \in 1 .. Len(q) - 1 :
                RemoveAt(q, i)[j] = IF j < i THEN q[j] ELSE q[j + 1]
<1> DEFINE a == SubSeq(q, 1, i - 1)
           b == SubSeq(q, i + 1, Len(q))
<1>1. i \in 1 .. Len(q) /\ Len(q) \in Nat
  OBVIOUS
<1>2. a \in Seq(S) /\ Len(a) = i - 1 /\ \A j \in 1 .. i - 1 : a[j] = q[j]
  BY <1>1
<1>3. b \in Seq(S) /\ Len(b) = Len(q) - i /\ \A j \in 1 .. Len(q) - i : b[j] = q[i + j]
  BY <1>1
<1> HIDE DEF a, b
<1> DEFINE c == a \o b
<1>4. /\ c \in Seq(S)
      /\ Len(c) = Len(q) - 1
      /\ \A j \in 1 .. Len(q) - 1 : c[j] = IF j < i THEN q[j] ELSE q[j + 1]
  BY <1>1, <1>2, <1>3
<1>5. RemoveAt(q, i) = c
  BY DEF RemoveAt, a, b
<1> HIDE DEF c
<1> QED
  BY <1>4, <1>5

(* Removing an element leaves the others and nothing else.                 *)
LEMMA RemoveAtType ==
    ASSUME NEW S, NEW q \in Seq(S), NEW i \in DOMAIN q
    PROVE  /\ RemoveAt(q, i) \in Seq(S)
           /\ \A j \in DOMAIN RemoveAt(q, i) : \E k \in DOMAIN q : RemoveAt(q, i)[j] = q[k]
           /\ \A k \in DOMAIN q :
                k # i => \E j \in DOMAIN RemoveAt(q, i) : RemoveAt(q, i)[j] = q[k]
<1> DEFINE c == RemoveAt(q, i)
<1>1. /\ c \in Seq(S)
      /\ Len(c) = Len(q) - 1
      /\ \A j \in 1 .. Len(q) - 1 : c[j] = IF j < i THEN q[j] ELSE q[j + 1]
  BY RemoveAtParts
<1> HIDE DEF c
<1>2. DOMAIN c = 1 .. Len(q) - 1 /\ DOMAIN q = 1 .. Len(q) /\ Len(q) \in Nat /\ i \in 1 .. Len(q)
  BY <1>1
<1>3. ASSUME NEW j \in DOMAIN c
      PROVE  \E k \in DOMAIN q : c[j] = q[k]
  <2>1. c[j] = q[j] \/ c[j] = q[j + 1]
    BY <1>1, <1>2
  <2>2. j \in DOMAIN q /\ j + 1 \in DOMAIN q
    BY <1>2
  <2> QED
    BY <2>1, <2>2
<1>4. ASSUME NEW k \in DOMAIN q, k # i
      PROVE  \E j \in DOMAIN c : c[j] = q[k]
  <2>1. CASE k < i
    <3>1. k \in DOMAIN c /\ c[k] = q[k]
      BY <1>1, <1>2, <2>1
    <3> QED
      BY <3>1
  <2>2. CASE k > i
    <3>1. k - 1 \in DOMAIN c /\ c[k - 1] = q[k]
      BY <1>1, <1>2, <2>2
    <3> QED
      BY <3>1
  <2> QED
    BY <1>2, <1>4, <2>1, <2>2
<1> QED
  BY <1>1, <1>3, <1>4 DEF c

(* An appended element is the new last one, and the others stay.           *)
LEMMA AppendType ==
    ASSUME NEW S, NEW q \in Seq(S), NEW e \in S
    PROVE  /\ Append(q, e) \in Seq(S)
           /\ Len(Append(q, e)) = Len(q) + 1
           /\ \A j \in 1 .. Len(q) : Append(q, e)[j] = q[j]
           /\ Append(q, e)[Len(q) + 1] = e
  OBVIOUS

(* Restrict, the update of the two dictionaries that removes.              *)
LEMMA RestrictType ==
    ASSUME NEW S, NEW D, NEW f \in [D -> S], NEW E \in SUBSET D
    PROVE  /\ DOMAIN Restrict(f, E) = E
           /\ Restrict(f, E) \in [E -> S]
           /\ \A x \in E : Restrict(f, E)[x] = f[x]
  BY DEF Restrict

LEMMA MakeFrameType ==
    ASSUME NEW t \in Tasks, NEW seq \in Nat, NEW p \in Payload
    PROVE  MakeFrame(t, seq, p) \in Frame
  BY DEF MakeFrame, Frame, Payload, More
-----------------------------------------------------------------------------
(* Types.                                                                  *)

Entry == [frame : Frame, retries : 0 .. MaxRetransmits]

(* The part of TypeOK about what _send_frame changes, and about what the   *)
(* delivery loop changes.                                                  *)
SenderTypeOK ==
    /\ pc \in [Tasks -> {"idle", "waiting", "woken", "sending", "done"}]
    /\ frame \in [Tasks -> Frame]
    /\ sendSeq \in Nat
    /\ DOMAIN sendWindow \subseteq 0 .. sendSeq - 1
    /\ sendWindow \in [DOMAIN sendWindow -> Entry]
    /\ sent \in Seq(Frame)
    /\ Len(sent) = sendSeq

ReceiverTypeOK ==
    /\ recvNext \in Nat
    /\ DOMAIN recvBuffer \subseteq Nat
    /\ recvBuffer \in [DOMAIN recvBuffer -> Frame]
    /\ reassembly \in Seq(Payload)
    /\ inHandler \in Nat
    /\ delivered \in Seq(Seq(Payload))

LEMMA SendFrameType ==
    ASSUME SenderTypeOK, NEW t \in Tasks, NEW p \in Payload, SendFrame(t, p)
    PROVE  SenderTypeOK'
<1> DEFINE f == MakeFrame(t, sendSeq, p)
<1>1. f \in Frame
  BY MakeFrameType DEF SenderTypeOK
<1> HIDE DEF f
<1>2. CASE MustWait(t)
  <2>1. /\ pc' = [pc EXCEPT ![t] = "waiting"]
        /\ frame' = [frame EXCEPT ![t] = f]
        /\ UNCHANGED <<sendSeq, sendWindow, sent>>
    BY <1>2 DEF SendFrame, f
  <2> QED
    BY <1>1, <2>1 DEF SenderTypeOK
<1>3. CASE ~MustWait(t)
  <2>1. /\ pc' = [pc EXCEPT ![t] = "sending"]
        /\ frame' = [frame EXCEPT ![t] = f]
        /\ sendSeq' = sendSeq + 1
        /\ sendWindow' = Put(sendWindow, sendSeq, [frame |-> f, retries |-> 0])
        /\ sent' = Append(sent, f)
    BY <1>3 DEF SendFrame, f
  <2>2. [frame |-> f, retries |-> 0] \in Entry
    BY <1>1, ChannelAssumption DEF Entry
  <2>3. /\ DOMAIN sendWindow' \subseteq 0 .. sendSeq' - 1
        /\ sendWindow' \in [DOMAIN sendWindow' -> Entry]
    <3> DEFINE e == [frame |-> f, retries |-> 0]
    <3>1. e \in Entry /\ sendWindow' = Put(sendWindow, sendSeq, e)
      BY <2>1, <2>2
    <3>2. sendWindow \in [DOMAIN sendWindow -> Entry]
      BY DEF SenderTypeOK
    <3> HIDE DEF e
    <3>3. /\ DOMAIN sendWindow' = DOMAIN sendWindow \cup {sendSeq}
          /\ sendWindow' \in [DOMAIN sendWindow' -> Entry]
      BY <3>1, <3>2 DEF Put
    <3> QED
      BY <2>1, <3>3 DEF SenderTypeOK
  <2>4. sent' \in Seq(Frame) /\ Len(sent') = sendSeq'
    BY <2>1, <1>1, AppendType DEF SenderTypeOK
  <2> QED
    BY <1>1, <2>1, <2>3, <2>4 DEF SenderTypeOK
<1> QED
  BY <1>2, <1>3

(* What the delivery loop takes from a buffer of frames.                   *)
Taken(buf, k) == [i \in 1 .. k - recvNext |-> buf[recvNext + i - 1].payload]

LEMMA TakenType ==
    ASSUME ReceiverTypeOK, NEW buf, buf \in [DOMAIN buf -> Frame],
           NEW k \in Nat, k >= recvNext, recvNext .. k - 1 \subseteq DOMAIN buf
    PROVE  /\ Taken(buf, k) \in Seq(Payload)
           /\ Len(Taken(buf, k)) = k - recvNext
           /\ \A i \in 1 .. k - recvNext : Taken(buf, k)[i] = buf[recvNext + i - 1].payload
<1>1. ASSUME NEW i \in 1 .. k - recvNext
      PROVE  buf[recvNext + i - 1].payload \in Payload
  <2>1. recvNext + i - 1 \in recvNext .. k - 1
    BY DEF ReceiverTypeOK
  <2> QED
    BY <2>1 DEF Frame
<1>2. k - recvNext \in Nat
  BY DEF ReceiverTypeOK
<1> QED
  BY <1>1, <1>2 DEF Taken

LEMMA DeliverType ==
    ASSUME ReceiverTypeOK,
           NEW buf, buf \in [DOMAIN buf -> Frame], DOMAIN buf \subseteq Nat,
           NEW n \in Nat, Deliver(buf, n)
    PROVE  ReceiverTypeOK'
<1>1. PICK k \in recvNext .. recvNext + Cardinality(DOMAIN buf) :
        /\ TakenUpTo(buf, k)
        /\ recvNext' = k
        /\ recvBuffer' = Restrict(buf, DOMAIN buf \ (recvNext .. k - 1))
        /\ \/ /\ delivered' = Append(delivered, reassembly \o Taken(buf, k))
              /\ reassembly' = <<>>
              /\ inHandler' = n + 1
           \/ /\ reassembly' = reassembly \o Taken(buf, k)
              /\ inHandler' = n
              /\ UNCHANGED delivered
  BY DEF Deliver, Taken, ResetReassembly
<1>2. k \in Nat /\ k >= recvNext /\ recvNext .. k - 1 \subseteq DOMAIN buf
  BY <1>1 DEF TakenUpTo, ReceiverTypeOK
<1>3. reassembly \o Taken(buf, k) \in Seq(Payload)
  <2>1. Taken(buf, k) \in Seq(Payload) /\ reassembly \in Seq(Payload)
    BY <1>2, TakenType DEF ReceiverTypeOK
  <2> HIDE DEF Taken
  <2> QED
    BY <2>1
<1>4. DOMAIN recvBuffer' \subseteq Nat /\ recvBuffer' \in [DOMAIN recvBuffer' -> Frame]
  <2> DEFINE D == DOMAIN buf \ (recvNext .. k - 1)
  <2>1. D \in SUBSET DOMAIN buf /\ recvBuffer' = Restrict(buf, D)
    BY <1>1
  <2> HIDE DEF D
  <2>2. DOMAIN recvBuffer' = D /\ recvBuffer' \in [D -> Frame]
    BY <2>1, RestrictType
  <2> QED
    BY <2>1, <2>2
<1>5. delivered' \in Seq(Seq(Payload)) /\ reassembly' \in Seq(Payload)
  <2> DEFINE data == reassembly \o Taken(buf, k)
  <2>1. delivered' = Append(delivered, data) \/ delivered' = delivered
    BY <1>1
  <2>2. reassembly' = <<>> \/ reassembly' = data
    BY <1>1
  <2> HIDE DEF data
  <2>3. data \in Seq(Payload)
    BY <1>3 DEF data
  <2>4. Append(delivered, data) \in Seq(Seq(Payload))
    BY <2>3, AppendType DEF ReceiverTypeOK
  <2>5. <<>> \in Seq(Payload) /\ delivered \in Seq(Seq(Payload))
    BY DEF ReceiverTypeOK
  <2> QED
    BY <2>1, <2>2, <2>3, <2>4, <2>5
<1>6. recvNext' \in Nat /\ inHandler' \in Nat
  BY <1>1, <1>2
<1> QED
  BY <1>4, <1>5, <1>6 DEF ReceiverTypeOK

LEMMA TypeOKParts == TypeOK => SenderTypeOK /\ ReceiverTypeOK
  BY DEF TypeOK, SenderTypeOK, ReceiverTypeOK, Entry

(* What is left of TypeOK besides these two.                               *)
RestTypeOK ==
    /\ closed \in BOOLEAN
    /\ loop \in {"asleep", "sending", "ended"}
    /\ resend \subseteq Frame
    /\ attached \in BOOLEAN
    /\ acking \in Seq(Frame)
    /\ wire \in Seq(Frame)
    /\ ackWire \in Seq(Nat)
    /\ dropped \subseteq Nat

LEMMA TypeOKWhole == TypeOK <=> SenderTypeOK /\ ReceiverTypeOK /\ RestTypeOK
  BY DEF TypeOK, SenderTypeOK, ReceiverTypeOK, RestTypeOK, Entry

(* Every type is preserved by every step.                                  *)
LEMMA TypeOKStep == TypeOK /\ [Next]_vars => TypeOK'
<1> SUFFICES ASSUME SenderTypeOK, ReceiverTypeOK, RestTypeOK, [Next]_vars
             PROVE  SenderTypeOK' /\ ReceiverTypeOK' /\ RestTypeOK'
  BY TypeOKWhole DEF TypeOK, SenderTypeOK, ReceiverTypeOK, RestTypeOK, Entry
<1> USE DEF vars, senderVars, loopVars, receiverVars
<1>1. ASSUME NEW t \in Senders, NEW n \in 1 .. MaxFragments, Send(t, n)
      PROVE  SenderTypeOK' /\ ReceiverTypeOK' /\ RestTypeOK'
  <2> DEFINE p == [from |-> t, msg |-> frame[t].payload.msg + 1, frag |-> 1, of |-> n]
  <2>1. t \in Tasks /\ p \in Payload /\ SendFrame(t, p)
    BY <1>1 DEF Send, SenderTypeOK, Tasks, Frame, Payload
  <2>2. SenderTypeOK'
    BY <2>1, SendFrameType
  <2> QED
    BY <1>1, <2>2 DEF Send, ReceiverTypeOK, RestTypeOK
<1>2. ASSUME NEW t \in Closers, Close(t)
      PROVE  SenderTypeOK' /\ ReceiverTypeOK' /\ RestTypeOK'
  <2>1. t \in Tasks /\ NoFragment(t) \in Payload /\ SendFrame(t, NoFragment(t))
    BY <1>2 DEF Close, Tasks, Payload, NoFragment
  <2>2. SenderTypeOK'
    BY <2>1, SendFrameType
  <2> QED
    BY <1>2, <2>2 DEF Close, ReceiverTypeOK, RestTypeOK
<1>3. ASSUME NEW t \in Tasks, WindowCheck(t)
      PROVE  SenderTypeOK' /\ ReceiverTypeOK' /\ RestTypeOK'
  <2>1. frame[t].payload \in Payload /\ SendFrame(t, frame[t].payload)
    BY <1>3 DEF WindowCheck, SenderTypeOK, Frame
  <2>2. SenderTypeOK'
    BY <2>1, SendFrameType
  <2> QED
    BY <1>3, <2>2 DEF WindowCheck, ReceiverTypeOK, RestTypeOK
<1>4. ASSUME NEW t \in Tasks, RawSend(t)
      PROVE  SenderTypeOK' /\ ReceiverTypeOK' /\ RestTypeOK'
  <2>1. frame[t] \in Frame /\ wire' = Append(wire, frame[t])
    BY <1>4 DEF RawSend, SenderTypeOK
  <2>2. wire' \in Seq(Frame)
    BY <2>1, AppendType DEF RestTypeOK
  <2>3. SenderTypeOK'
    <3>1. CASE frame[t].more
      <4> DEFINE p == [frame[t].payload EXCEPT !.frag = @ + 1]
      <4>1. p \in Payload
        <5>1. frame[t].payload \in Payload
          BY <2>1 DEF Frame
        <5> QED
          BY <5>1 DEF Payload
      <4> QED
        BY <1>4, <3>1, <4>1, SendFrameType DEF RawSend
    <3>2. CASE ~frame[t].more
      BY <1>4, <3>2 DEF RawSend, SenderTypeOK
    <3> QED
      BY <3>1, <3>2
  <2> QED
    BY <1>4, <2>2, <2>3 DEF RawSend, ReceiverTypeOK, RestTypeOK
<1>5. ASSUME NEW i \in DOMAIN ackWire, ReceiveAck(i)
      PROVE  SenderTypeOK' /\ ReceiverTypeOK' /\ RestTypeOK'
  <2>1. ackWire' \in Seq(Nat)
    BY <1>5, RemoveAtType DEF ReceiveAck, RestTypeOK
  <2>2. PICK D \in SUBSET DOMAIN sendWindow : sendWindow' = Restrict(sendWindow, D)
    BY <1>5 DEF ReceiveAck, ProcessAck, Unacked
  <2>3. DOMAIN sendWindow' = D /\ sendWindow' \in [D -> Entry]
    BY <2>2 DEF Restrict, SenderTypeOK
  <2>4. pc' \in [Tasks -> {"idle", "waiting", "woken", "sending", "done"}]
    BY <1>5 DEF ReceiveAck, ProcessAck, WakeWaiters, SenderTypeOK
  <2>5. SenderTypeOK'
    BY <1>5, <2>2, <2>3, <2>4 DEF ReceiveAck, SenderTypeOK
  <2> QED
    BY <1>5, <2>1, <2>5 DEF ReceiveAck, ReceiverTypeOK, RestTypeOK
<1>6. ASSUME NEW due \in SUBSET DOMAIN sendWindow, RetransmitPass(due)
      PROVE  SenderTypeOK' /\ ReceiverTypeOK' /\ RestTypeOK'
  <2> DEFINE expired == {s \in due : Expired(s)}
  <2>1. ASSUME NEW s \in DOMAIN sendWindow \ expired
        PROVE  (IF s \in due THEN [sendWindow[s] EXCEPT !.retries = @ + 1]
                             ELSE sendWindow[s]) \in Entry
    <3>1. sendWindow[s] \in Entry
      BY DEF SenderTypeOK
    <3>2. s \in due => sendWindow[s].retries < MaxRetransmits
      BY <3>1, ChannelAssumption DEF Expired, Entry
    <3> QED
      BY <3>1, <3>2, ChannelAssumption DEF Entry
  <2>2. DOMAIN sendWindow' \subseteq DOMAIN sendWindow
        /\ sendWindow' \in [DOMAIN sendWindow' -> Entry]
    BY <1>6, <2>1 DEF RetransmitPass
  <2>3. SenderTypeOK'
    BY <1>6, <2>2 DEF RetransmitPass, SenderTypeOK
  <2>4. resend' \subseteq Frame
    <3>1. \A s \in due : sendWindow[s].frame \in Frame
      BY DEF SenderTypeOK, Entry
    <3> QED
      BY <1>6, <3>1 DEF RetransmitPass
  <2>5. dropped' \subseteq Nat
    BY <1>6 DEF RetransmitPass, SenderTypeOK, RestTypeOK
  <2>6. loop' \in {"asleep", "sending", "ended"}
    BY <1>6 DEF RetransmitPass, LoopTop
  <2> QED
    BY <1>6, <2>3, <2>4, <2>5, <2>6 DEF RetransmitPass, ReceiverTypeOK, RestTypeOK
<1>7. CASE RetransmitSend
  <2>1. PICK f \in resend : /\ wire' = Append(wire, f)
                            /\ resend' = resend \ {f}
                            /\ loop' = IF resend = {f} THEN LoopTop ELSE "sending"
    BY <1>7 DEF RetransmitSend
  <2>2. wire' \in Seq(Frame)
    BY <2>1, AppendType DEF RestTypeOK
  <2> QED
    BY <1>7, <2>1, <2>2 DEF RetransmitSend, LoopTop, SenderTypeOK, ReceiverTypeOK, RestTypeOK
<1>8. CASE Attach
  BY <1>8 DEF Attach, SenderTypeOK, ReceiverTypeOK, RestTypeOK
<1>9. ASSUME NEW i \in DOMAIN wire, ReceiveFrame(i)
      PROVE  SenderTypeOK' /\ ReceiverTypeOK' /\ RestTypeOK'
  <2>1. wire' \in Seq(Frame)
    BY <1>9, RemoveAtType DEF ReceiveFrame, RestTypeOK
  <2>2. acking' \in Seq(Frame)
    <3>1. wire[i] \in Frame /\ acking \in Seq(Frame)
      BY DEF RestTypeOK
    <3>2. Append(acking, wire[i]) \in Seq(Frame)
      BY <3>1, AppendType
    <3> QED
      BY <1>9, <3>1, <3>2 DEF ReceiveFrame
  <2> QED
    BY <1>9, <2>1, <2>2 DEF ReceiveFrame, SenderTypeOK, ReceiverTypeOK, RestTypeOK
<1>10. ASSUME NEW i \in DOMAIN acking, ProcessData(i)
       PROVE  SenderTypeOK' /\ ReceiverTypeOK' /\ RestTypeOK'
  <2> DEFINE f == acking[i]
             buf == Put(recvBuffer, f.seq, f)
  <2>1. f \in Frame /\ f.seq \in Nat
    <3>1. f \in Frame
      BY DEF RestTypeOK
    <3> QED
      BY <3>1 DEF Frame
  <2>2. acking' \in Seq(Frame)
    BY <1>10, RemoveAtType DEF ProcessData, RestTypeOK
  <2>3. ackWire' \in Seq(Nat)
    BY <1>10, <2>1, AppendType DEF ProcessData, RestTypeOK
  <2>4. ReceiverTypeOK'
    <3>1. CASE UNCHANGED receiverVars
      BY <3>1 DEF ReceiverTypeOK
    <3>2. CASE Deliver(buf, inHandler)
      <4>1. buf \in [DOMAIN buf -> Frame] /\ DOMAIN buf \subseteq Nat
        BY <2>1 DEF Put, ReceiverTypeOK
      <4> HIDE DEF buf
      <4> QED
        BY <3>2, <4>1, DeliverType DEF ReceiverTypeOK
    <3> QED
      BY <1>10, <3>1, <3>2 DEF ProcessData
  <2> QED
    BY <1>10, <2>2, <2>3, <2>4 DEF ProcessData, SenderTypeOK, RestTypeOK
<1>11. CASE HandlerReturns
  <2>1. inHandler - 1 \in Nat /\ Deliver(recvBuffer, inHandler - 1)
    BY <1>11 DEF HandlerReturns, ReceiverTypeOK
  <2>2. ReceiverTypeOK'
    BY <2>1, DeliverType DEF ReceiverTypeOK
  <2> QED
    BY <1>11, <2>2 DEF HandlerReturns, SenderTypeOK, RestTypeOK
<1>12. CASE Lose
  <2>1. wire' \in Seq(Frame)
    BY <1>12, RemoveAtType DEF Lose, RestTypeOK
  <2>2. ackWire' \in Seq(Nat)
    BY <1>12, RemoveAtType DEF Lose, RestTypeOK
  <2> QED
    BY <1>12, <2>1, <2>2 DEF Lose, SenderTypeOK, ReceiverTypeOK, RestTypeOK
<1>13. CASE UNCHANGED vars
  BY <1>13 DEF SenderTypeOK, ReceiverTypeOK, RestTypeOK
<1> QED
  BY <1>1, <1>2, <1>3, <1>4, <1>5, <1>6, <1>7, <1>8, <1>9, <1>10, <1>11, <1>12, <1>13
  DEF Next

LEMMA TypeOKInit == Init => TypeOK
<1> SUFFICES ASSUME Init PROVE TypeOK
  OBVIOUS
<1>1. \A t \in Tasks : MakeFrame(t, 0, NoFragment(t)) \in Frame
  <2>1. \A t \in Tasks : NoFragment(t) \in Payload
    BY DEF NoFragment, Payload
  <2> QED
    BY <2>1, MakeFrameType
<1>2. frame \in [Tasks -> Frame]
  BY <1>1 DEF Init
<1>3. SenderTypeOK
  BY <1>2 DEF Init, SenderTypeOK
<1>4. ReceiverTypeOK
  BY DEF Init, ReceiverTypeOK
<1>5. RestTypeOK
  <2>1. closed \in BOOLEAN /\ attached \in BOOLEAN
    BY Zenon DEF Init
  <2>2. loop \in {"asleep", "sending", "ended"} /\ resend \subseteq Frame /\ dropped \subseteq Nat
    BY DEF Init
  <2>3. acking \in Seq(Frame) /\ wire \in Seq(Frame) /\ ackWire \in Seq(Nat)
    BY DEF Init
  <2> QED
    BY <2>1, <2>2, <2>3 DEF RestTypeOK
<1> QED
  BY <1>3, <1>4, <1>5, TypeOKWhole

(* Every variable keeps its type, for all values of the constants.         *)
THEOREM ChannelTypeOK == Spec => []TypeOK
  BY TypeOKInit, TypeOKStep, PTL DEF Spec
-----------------------------------------------------------------------------
(* The window.                                                             *)

LEMMA WindowFinite ==
    ASSUME SenderTypeOK
    PROVE  IsFiniteSet(DOMAIN sendWindow) /\ Cardinality(DOMAIN sendWindow) \in Nat
<1>1. IsFiniteSet(0 .. sendSeq - 1)
  BY FS_Interval DEF SenderTypeOK
<1>2. IsFiniteSet(DOMAIN sendWindow)
  BY <1>1, FS_Subset DEF SenderTypeOK
<1> QED
  BY <1>2, FS_CardinalityType

LEMMA SendFrameWindow ==
    ASSUME SenderTypeOK, WindowBound, NEW t, NEW p, SendFrame(t, p)
    PROVE  WindowBound'
<1>1. CASE MustWait(t)
  BY <1>1 DEF SendFrame, WindowBound
<1>2. CASE ~MustWait(t)
  <2>1. DOMAIN sendWindow' = DOMAIN sendWindow \cup {sendSeq}
    BY <1>2 DEF SendFrame, Put
  <2>2. Cardinality(DOMAIN sendWindow) < WindowSize
    BY <1>2, WindowFinite, ChannelAssumption DEF MustWait, WindowFull
  <2>3. Cardinality(DOMAIN sendWindow \cup {sendSeq}) <= Cardinality(DOMAIN sendWindow) + 1
    BY WindowFinite, FS_AddElement
  <2>4. Cardinality(DOMAIN sendWindow \cup {sendSeq}) \in Nat
    BY WindowFinite, FS_AddElement, FS_CardinalityType
  <2> QED
    BY <2>1, <2>2, <2>3, <2>4, WindowFinite, ChannelAssumption DEF WindowBound
<1> QED
  BY <1>1, <1>2

(* A window that only loses entries stays within its bound.                *)
LEMMA ShrinkWindow ==
    ASSUME SenderTypeOK, WindowBound, DOMAIN sendWindow' \subseteq DOMAIN sendWindow
    PROVE  WindowBound'
<1>1. /\ Cardinality(DOMAIN sendWindow') <= Cardinality(DOMAIN sendWindow)
      /\ Cardinality(DOMAIN sendWindow') \in Nat
  BY WindowFinite, FS_Subset, FS_CardinalityType
<1> QED
  BY <1>1, WindowFinite, ChannelAssumption DEF WindowBound

LEMMA WindowBoundStep == TypeOK /\ WindowBound /\ [Next]_vars => WindowBound'
<1> SUFFICES ASSUME SenderTypeOK, WindowBound, [Next]_vars
             PROVE  WindowBound'
  BY TypeOKWhole
<1> USE DEF vars, senderVars, loopVars, receiverVars
<1>1. ASSUME NEW t \in Tasks, NEW p, SendFrame(t, p)
      PROVE  WindowBound'
  BY <1>1, SendFrameWindow
<1>2. CASE \E t \in Senders, n \in 1 .. MaxFragments : Send(t, n)
  BY <1>1, <1>2 DEF Send, Tasks
<1>3. CASE \E t \in Closers : Close(t)
  BY <1>1, <1>3 DEF Close, Tasks
<1>4. ASSUME NEW t \in Tasks, WindowCheck(t) \/ RawSend(t)
      PROVE  WindowBound'
  BY <1>1, <1>4 DEF WindowCheck, RawSend, WindowBound
<1>5. CASE \E i \in DOMAIN ackWire : ReceiveAck(i)
  <2>1. DOMAIN sendWindow' \subseteq DOMAIN sendWindow
    BY <1>5 DEF ReceiveAck, ProcessAck, Restrict, Unacked
  <2> QED
    BY <2>1, ShrinkWindow
<1>6. CASE \E due \in SUBSET DOMAIN sendWindow : RetransmitPass(due)
  <2>1. DOMAIN sendWindow' \subseteq DOMAIN sendWindow
    BY <1>6 DEF RetransmitPass
  <2> QED
    BY <2>1, ShrinkWindow
<1>7. CASE UNCHANGED sendWindow
  BY <1>7 DEF WindowBound
<1>8. \/ RetransmitSend \/ Attach \/ HandlerReturns \/ Lose \/ UNCHANGED vars
      \/ \E i \in DOMAIN wire : ReceiveFrame(i)
      \/ \E i \in DOMAIN acking : ProcessData(i)
      => UNCHANGED sendWindow
  BY DEF RetransmitSend, Attach, HandlerReturns, Lose, ReceiveFrame, ProcessData
<1> QED
  BY <1>2, <1>3, <1>4, <1>5, <1>6, <1>7, <1>8 DEF Next

(* Never more than window_size frames outstanding, however many tasks send *)
(* and close, and whoever is woken by whatever ACK.                        *)
THEOREM WindowStaysBounded == Spec => []WindowBound
<1>1. Init => WindowBound
  <2>1. Init => DOMAIN sendWindow = {}
    BY DEF Init
  <2> QED
    BY <2>1, FS_EmptySet, ChannelAssumption DEF WindowBound
<1> QED
  BY <1>1, WindowBoundStep, ChannelTypeOK, PTL DEF Spec
-----------------------------------------------------------------------------
(* The receive buffer.                                                     *)

(* After a delivery loop the buffer is free of frames that no loop will    *)
(* look at, if before it everything buffered was still to come.            *)
LEMMA DeliverStrandsNothing ==
    ASSUME ReceiverTypeOK,
           NEW buf, DOMAIN buf \subseteq Nat, \A s \in DOMAIN buf : s >= recvNext,
           NEW n \in Nat, Deliver(buf, n)
    PROVE  NoStrandedFrame'
<1>1. PICK k \in recvNext .. recvNext + Cardinality(DOMAIN buf) :
        /\ TakenUpTo(buf, k)
        /\ recvNext' = k
        /\ recvBuffer' = Restrict(buf, DOMAIN buf \ (recvNext .. k - 1))
        /\ \/ inHandler' = n + 1
           \/ k > recvNext => buf[k - 1].more
  BY DEF Deliver
<1>2. DOMAIN recvBuffer' = DOMAIN buf \ (recvNext .. k - 1)
  BY <1>1 DEF Restrict
<1>3. k \in DOMAIN buf => inHandler' = n + 1
  BY <1>1 DEF TakenUpTo
<1>4. SUFFICES ASSUME NEW s \in DOMAIN recvBuffer'
               PROVE  s >= recvNext' /\ (s = recvNext' => inHandler' > 0)
  BY DEF NoStrandedFrame
<1>5. s \in DOMAIN buf /\ s \in Nat /\ s >= k
  BY <1>1, <1>2 DEF ReceiverTypeOK
<1> QED
  BY <1>1, <1>3, <1>5

LEMMA NoStrandedStep == TypeOK /\ NoStrandedFrame /\ [Next]_vars => NoStrandedFrame'
<1> SUFFICES ASSUME SenderTypeOK, ReceiverTypeOK, RestTypeOK, NoStrandedFrame, [Next]_vars
             PROVE  NoStrandedFrame'
  BY TypeOKWhole
<1> USE DEF vars, senderVars, loopVars, receiverVars
<1>1. CASE UNCHANGED receiverVars
  BY <1>1 DEF NoStrandedFrame
<1>2. ASSUME NEW i \in DOMAIN acking, ProcessData(i)
      PROVE  NoStrandedFrame'
  <2> DEFINE f == acking[i]
             buf == Put(recvBuffer, f.seq, f)
  <2>1. f.seq \in Nat
    <3>1. f \in Frame
      BY DEF RestTypeOK
    <3> QED
      BY <3>1 DEF Frame
  <2>2. CASE ~Duplicate(f.seq) /\ Deliver(buf, inHandler)
    <3>1. DOMAIN buf \subseteq Nat /\ \A s \in DOMAIN buf : s >= recvNext
      BY <2>1, <2>2 DEF Put, Duplicate, NoStrandedFrame, ReceiverTypeOK
    <3>2. Deliver(buf, inHandler)
      BY <2>2
    <3> HIDE DEF buf
    <3> QED
      BY <3>1, <3>2, DeliverStrandsNothing DEF ReceiverTypeOK
  <2> QED
    BY <1>1, <1>2, <2>2 DEF ProcessData
<1>3. CASE HandlerReturns
  <2>1. inHandler - 1 \in Nat /\ Deliver(recvBuffer, inHandler - 1)
    BY <1>3 DEF HandlerReturns, ReceiverTypeOK
  <2> QED
    BY <2>1, DeliverStrandsNothing DEF NoStrandedFrame, ReceiverTypeOK
<1>4. \/ \E t \in Senders, n \in 1 .. MaxFragments : Send(t, n)
      \/ \E t \in Closers : Close(t)
      \/ \E t \in Tasks : WindowCheck(t) \/ RawSend(t)
      \/ \E i \in DOMAIN ackWire : ReceiveAck(i)
      \/ \E due \in SUBSET DOMAIN sendWindow : RetransmitPass(due)
      \/ RetransmitSend \/ Attach \/ Lose \/ UNCHANGED vars
      \/ \E i \in DOMAIN wire : ReceiveFrame(i)
      => UNCHANGED receiverVars
  BY DEF Send, Close, WindowCheck, RawSend, ReceiveAck, RetransmitPass, RetransmitSend,
         Attach, Lose, ReceiveFrame
<1> QED
  BY <1>1, <1>2, <1>3, <1>4 DEF Next

(* No buffered frame is left where no delivery loop will ever find it,     *)
(* whatever is lost, duplicated and reordered, and however many loops are  *)
(* suspended in on_message.                                                *)
THEOREM NothingStranded == Spec => []NoStrandedFrame
<1>1. Init => NoStrandedFrame
  BY DEF Init, NoStrandedFrame
<1> QED
  BY <1>1, NoStrandedStep, ChannelTypeOK, PTL DEF Spec
-----------------------------------------------------------------------------
(* Wake-ups.                                                               *)

(* A task comes to wait only if the window is full, and the window only    *)
(* grows as frames are sent.                                               *)
LEMMA SendFrameWakeup ==
    ASSUME SenderTypeOK, NoLostWakeup, UNCHANGED dropped,
           NEW t \in Tasks, NEW p, SendFrame(t, p)
    PROVE  NoLostWakeup'
<1>1. CASE MustWait(t)
  <2>1. pc' = [pc EXCEPT ![t] = "waiting"] /\ UNCHANGED sendWindow /\ WindowFull
    BY <1>1 DEF SendFrame, MustWait
  <2>2. \A u \in Tasks : pc'[u] = "waiting" => pc[u] = "waiting" \/ WindowFull
    BY <2>1
  <2> QED
    BY <2>1, <2>2 DEF NoLostWakeup, WindowFull
<1>2. CASE ~MustWait(t)
  <2>1. pc' = [pc EXCEPT ![t] = "sending"] /\ DOMAIN sendWindow' = DOMAIN sendWindow \cup {sendSeq}
    BY <1>2 DEF SendFrame, Put
  <2>2. \A u \in Tasks : pc'[u] = "waiting" => pc[u] = "waiting"
    BY <2>1 DEF SenderTypeOK
  <2>3. ~WindowFull
    BY <1>2 DEF MustWait
  <2>4. dropped = {} => \A u \in Tasks : pc[u] # "waiting"
    BY <2>3 DEF NoLostWakeup
  <2> QED
    BY <2>2, <2>4 DEF NoLostWakeup
<1> QED
  BY <1>1, <1>2

LEMMA NoLostWakeupStep == TypeOK /\ NoLostWakeup /\ [Next]_vars => NoLostWakeup'
<1> SUFFICES ASSUME SenderTypeOK, NoLostWakeup, [Next]_vars
             PROVE  NoLostWakeup'
  BY TypeOKWhole
<1> USE DEF vars, senderVars, loopVars, receiverVars
<1>1. ASSUME UNCHANGED <<pc, sendWindow, dropped>>
      PROVE  NoLostWakeup'
  BY <1>1 DEF NoLostWakeup, WindowFull
<1>2. ASSUME NEW t \in Tasks, NEW p, SendFrame(t, p), UNCHANGED dropped
      PROVE  NoLostWakeup'
  BY <1>2, SendFrameWakeup
<1>3. CASE \E t \in Senders, n \in 1 .. MaxFragments : Send(t, n)
  BY <1>2, <1>3 DEF Send, Tasks
<1>4. CASE \E t \in Closers : Close(t)
  BY <1>2, <1>4 DEF Close, Tasks
<1>5. ASSUME NEW t \in Tasks, WindowCheck(t)
      PROVE  NoLostWakeup'
  BY <1>2, <1>5 DEF WindowCheck
<1>6. ASSUME NEW t \in Tasks, RawSend(t)
      PROVE  NoLostWakeup'
  <2>1. CASE ~frame[t].more
    <3>1. UNCHANGED <<sendWindow, dropped>>
      BY <1>6, <2>1 DEF RawSend
    <3>2. \A u \in Tasks : pc'[u] = "waiting" => pc[u] = "waiting"
      BY <1>6, <2>1 DEF RawSend, SenderTypeOK
    <3> QED
      BY <3>1, <3>2 DEF NoLostWakeup, WindowFull
  <2>2. CASE frame[t].more
    BY <1>2, <1>6, <2>2 DEF RawSend
  <2> QED
    BY <2>1, <2>2
<1>7. ASSUME NEW i \in DOMAIN ackWire, ReceiveAck(i)
      PROVE  NoLostWakeup'
  <2> DEFINE ack == ackWire[i]
  <2>1. /\ UNCHANGED dropped
        /\ DOMAIN sendWindow' = Unacked(ack)
        /\ pc' = IF Cardinality(Unacked(ack)) < WindowSize THEN WakeWaiters ELSE pc
    BY <1>7 DEF ReceiveAck, ProcessAck, Restrict
  <2>2. Unacked(ack) \subseteq DOMAIN sendWindow
    BY DEF Unacked
  <2>3. Cardinality(Unacked(ack)) \in Nat
    BY <2>2, WindowFinite, FS_Subset, FS_CardinalityType
  <2>4. CASE Cardinality(Unacked(ack)) < WindowSize
    BY <2>1, <2>4 DEF WakeWaiters, NoLostWakeup
  <2>5. CASE ~(Cardinality(Unacked(ack)) < WindowSize)
    BY <2>1, <2>3, <2>5, ChannelAssumption DEF NoLostWakeup, WindowFull
  <2> QED
    BY <2>4, <2>5
<1>8. ASSUME NEW due \in SUBSET DOMAIN sendWindow, RetransmitPass(due)
      PROVE  NoLostWakeup'
  <2> DEFINE expired == {s \in due : Expired(s)}
  <2>1. /\ UNCHANGED pc
        /\ DOMAIN sendWindow' = DOMAIN sendWindow \ expired
        /\ dropped' = dropped \cup expired
    BY <1>8 DEF RetransmitPass
  <2> HIDE DEF expired
  <2>2. CASE expired = {}
    BY <2>1, <2>2 DEF NoLostWakeup, WindowFull
  <2>3. CASE expired # {}
    BY <2>1, <2>3 DEF NoLostWakeup
  <2> QED
    BY <2>2, <2>3
<1>9. \/ RetransmitSend \/ Attach \/ HandlerReturns \/ Lose \/ UNCHANGED vars
      \/ \E i \in DOMAIN wire : ReceiveFrame(i)
      \/ \E i \in DOMAIN acking : ProcessData(i)
      => UNCHANGED <<pc, sendWindow, dropped>>
  BY DEF RetransmitSend, Attach, HandlerReturns, Lose, ReceiveFrame, ProcessData
<1> QED
  BY <1>1, <1>3, <1>4, <1>5, <1>6, <1>7, <1>8, <1>9 DEF Next

(* No wake-up of _window_available is lost, however ACKs, the tasks they   *)
(* wake and newly arriving tasks interleave, as long as the retransmission *)
(* loop has given no frame up.                                             *)
THEOREM NoWakeupIsLost == Spec => []NoLostWakeup
<1>1. Init => NoLostWakeup
  BY DEF Init, NoLostWakeup
<1> QED
  BY <1>1, NoLostWakeupStep, ChannelTypeOK, PTL DEF Spec
=============================================================================
