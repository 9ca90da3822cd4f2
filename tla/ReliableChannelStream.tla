------------------------- MODULE ReliableChannelStream -------------------------
(***************************************************************************)
(* Proof that a channel with one sending task implements MessageStream:    *)
(* every step of tasks, transport, retransmission and receiver submits one *)
(* message, delivers the next one as it was submitted, or changes nothing  *)
(* of the stream.                                                          *)
(***************************************************************************)
EXTENDS MCReliableChannel, ReliableChannelOrder

-----------------------------------------------------------------------------
(* The inductive invariant.  InOrderInv says what frames follow each other *)
(* while nobody closes; messages go on being submitted, and frames sent,   *)
(* after a FIN, so the sizes need facts that hold wherever a FIN stands.   *)

(* The fragment that the sending task is at, and the data frames sent.     *)
Current == frame[Sender].payload
Data == {s \in 1 .. sendSeq : sent[s].type = "DATA"}

(* Every data frame is of a message submitted and tells its size.          *)
SizesAgree ==
    /\ \A s \in Data :
        LET p == sent[s].payload
        IN  /\ p.from = Sender
            /\ 1 <= p.msg /\ p.msg <= Current.msg
            /\ p.msg = Current.msg => p.of = Current.of
    /\ \A r, s \in Data :
        sent[r].payload.msg = sent[s].payload.msg => sent[r].payload.of = sent[s].payload.of
    /\ \A s \in (1 .. sendSeq) \ Data : sent[s].payload.msg = 0

(* Of every message submitted a frame was sent, unless the first fragment  *)
(* of the last one waits for the window.                                   *)
SentAt(i) == \E s \in Data : sent[s].payload.msg = i
NoneSkipped ==
    \A i \in 1 .. Current.msg :
        SentAt(i) \/ (i = Current.msg /\ pc[Sender] \in {"waiting", "woken"})

(* Closing tasks have no fragment to send; the sending task has one from its first  *)
(* send() on.                                                              *)
OwnPayloads ==
    /\ \A t \in Closers : frame[t].payload = NoFragment(t) /\ ~frame[t].more
    /\ Current.from = Sender
    /\ pc[Sender] # "idle" => Current.msg >= 1

(* The receiver reassembles what the sending task sent.                    *)
FromSender == \A j \in DOMAIN reassembly : reassembly[j].from = Sender

SizesInv == SizesAgree /\ NoneSkipped /\ OwnPayloads

StreamInv == InOrderInv /\ SizesInv /\ FromSender
-----------------------------------------------------------------------------
(* The sending task.                                                       *)

LEMMA SenderIs ==
    ASSUME OneSender, Senders # {}
    PROVE  Senders = {Sender} /\ Sender \in Tasks /\ Sender \notin Closers
<1>1. Sender \in Senders
  BY DEF Sender
<1> QED
  BY <1>1, ChannelAssumption DEF OneSender, Tasks

(* Numbered tells how a step adds one frame to those sent.                 *)
Numbered(f) == sendSeq' = sendSeq + 1 /\ sent'[sendSeq + 1] = f

LEMMA DataGrows ==
    ASSUME SenderTypeOK, SentGrows, NEW f, Numbered(f)
    PROVE  /\ \A s \in Data : s \in Data' /\ sent'[s] = sent[s]
           /\ \A s \in Data' : s \in Data \/ (s = sendSeq + 1 /\ f.type = "DATA")
           /\ \A s \in (1 .. sendSeq') \ Data' :
                \/ s \in (1 .. sendSeq) \ Data /\ sent'[s] = sent[s]
                \/ s = sendSeq + 1 /\ f.type # "DATA"
           /\ f.type = "DATA" => sendSeq + 1 \in Data'
<1>1. sendSeq \in Nat /\ \A s \in 1 .. sendSeq' : s \in 1 .. sendSeq \/ s = sendSeq + 1
  BY DEF SenderTypeOK, Numbered
<1> QED
  BY <1>1 DEF Numbered, SentGrows, Data

(* send() and the task that was woken: the fragment p is of the message    *)
(* that the task is at, or the first of the next one.                      *)
LEMMA SenderSends ==
    ASSUME TypeOK, OneSender, Senders # {}, SizesInv,
           NEW p \in Payload, p.from = Sender, SendFrame(Sender, p),
           \/ p.msg = Current.msg /\ p.of = Current.of /\ pc[Sender] # "idle"
           \/ p.msg = Current.msg + 1 /\ pc[Sender] = "idle"
    PROVE  /\ SizesInv'
           /\ Current' = p
<1> DEFINE f == MakeFrame(Sender, sendSeq, p)
<1>1. Senders = {Sender} /\ Sender \in Tasks /\ Sender \notin Closers
  BY SenderIs
<1>2. /\ \A u \in Tasks \ {Sender} : pc'[u] = pc[u] /\ frame'[u] = frame[u]
      /\ frame'[Sender] = f
      /\ \/ pc'[Sender] = "waiting" /\ UNCHANGED <<sendSeq, sent>>
         \/ pc'[Sender] = "sending" /\ Numbered(f)
  BY <1>1, SendFrameCases, TypeOKParts DEF Numbered
<1>3. f.payload = p /\ f.type = "DATA"
  BY <1>1 DEF MakeFrame
<1> HIDE DEF f
<1>4. Current' = p
  BY <1>2, <1>3 DEF Current
<1>5. /\ p.msg \in Nat /\ Current.msg \in Nat /\ p.msg >= 1
      /\ Current.msg <= p.msg /\ sendSeq \in Nat
  <2>1. Current \in Payload
    BY <1>1, TypeOKParts DEF Current, SenderTypeOK, Frame
  <2> QED
    BY <2>1, TypeOKParts DEF Payload, SizesInv, OwnPayloads, SenderTypeOK
<1>6. OwnPayloads'
  <2>1. \A t \in Closers : frame'[t].payload = NoFragment(t) /\ ~frame'[t].more
    BY <1>1, <1>2 DEF SizesInv, OwnPayloads, Tasks
  <2> QED
    BY <1>4, <1>5, <2>1 DEF OwnPayloads
<1>7. ASSUME NEW s \in Data
      PROVE  /\ sent[s].payload.from = Sender
             /\ 1 <= sent[s].payload.msg /\ sent[s].payload.msg <= p.msg
             /\ sent[s].payload.msg = p.msg => sent[s].payload.of = p.of
  <2>1. sent[s].payload.msg \in Nat
    <3>1. sent[s] \in Frame
      BY TypeOKParts DEF Data, SenderTypeOK
    <3> QED
      BY <3>1 DEF Frame, Payload
  <2>2. /\ sent[s].payload.from = Sender
        /\ 1 <= sent[s].payload.msg /\ sent[s].payload.msg <= Current.msg
        /\ sent[s].payload.msg = Current.msg => sent[s].payload.of = Current.of
    BY DEF SizesInv, SizesAgree
  <2> QED
    BY <1>5, <2>1, <2>2
<1>8. CASE pc'[Sender] = "waiting" /\ UNCHANGED <<sendSeq, sent>>
  <2>1. Data' = Data
    BY <1>8 DEF Data
  <2>2. SizesAgree'
    BY <1>4, <1>7, <1>8, <2>1 DEF SizesInv, SizesAgree
  <2>3. NoneSkipped'
    <3> SUFFICES ASSUME NEW i \in 1 .. p.msg, i # p.msg
                 PROVE  \E s \in Data : sent[s].payload.msg = i
      BY <1>4, <1>8, <2>1 DEF NoneSkipped, SentAt
    <3>1. i \in 1 .. Current.msg /\ (pc[Sender] \in {"waiting", "woken"} => i # Current.msg)
      BY <1>5
    <3> QED
      BY <3>1 DEF SizesInv, NoneSkipped, SentAt
  <2> QED
    BY <1>4, <1>6, <2>2, <2>3 DEF SizesInv
<1>9. CASE pc'[Sender] = "sending" /\ Numbered(f)
  <2>1. SentGrows
    BY <1>1, SendFrameGrows, TypeOKParts
  <2>2. /\ \A s \in Data : s \in Data' /\ sent'[s] = sent[s]
        /\ \A s \in Data' : s \in Data \/ s = sendSeq + 1
        /\ \A s \in (1 .. sendSeq') \ Data' : s \in (1 .. sendSeq) \ Data /\ sent'[s] = sent[s]
        /\ sendSeq + 1 \in Data'
        /\ sent'[sendSeq + 1].payload = p
    BY <1>3, <1>9, <2>1, DataGrows, TypeOKParts DEF Numbered
  <2>3. SizesAgree'
    <3>1. \A s \in Data' :
            /\ sent'[s].payload.from = Sender
            /\ 1 <= sent'[s].payload.msg /\ sent'[s].payload.msg <= p.msg
            /\ sent'[s].payload.msg = p.msg => sent'[s].payload.of = p.of
      BY <1>5, <1>7, <2>2
    <3>2. \A r, s \in Data' :
            sent'[r].payload.msg = sent'[s].payload.msg => sent'[r].payload.of = sent'[s].payload.of
      BY <1>7, <2>2 DEF SizesInv, SizesAgree
    <3>3. \A s \in (1 .. sendSeq') \ Data' : sent'[s].payload.msg = 0
      BY <2>2 DEF SizesInv, SizesAgree
    <3> QED
      BY <1>4, <3>1, <3>2, <3>3 DEF SizesAgree
  <2>4. NoneSkipped'
    <3> SUFFICES ASSUME NEW i \in 1 .. p.msg
                 PROVE  \E s \in Data' : sent'[s].payload.msg = i
      BY <1>4 DEF NoneSkipped, SentAt
    <3>1. CASE i = p.msg
      BY <2>2, <3>1
    <3>2. CASE i # p.msg
      <4>1. i \in 1 .. Current.msg /\ (pc[Sender] \in {"waiting", "woken"} => i # Current.msg)
        BY <1>5, <3>2
      <4>2. \E s \in Data : sent[s].payload.msg = i
        BY <4>1 DEF SizesInv, NoneSkipped, SentAt
      <4> QED
        BY <2>2, <4>2
    <3> QED
      BY <3>1, <3>2
  <2> QED
    BY <1>4, <1>6, <2>3, <2>4 DEF SizesInv
<1> QED
  BY <1>2, <1>4, <1>8, <1>9

(* close() adds a frame that is no data, or none.                          *)
LEMMA CloserSends ==
    ASSUME TypeOK, OneSender, Senders # {}, SizesInv,
           NEW t \in Closers, SendFrame(t, NoFragment(t))
    PROVE  SizesInv' /\ Current' = Current
<1> DEFINE p == NoFragment(t)
           f == MakeFrame(t, sendSeq, p)
<1>1. Senders = {Sender} /\ Sender \in Tasks /\ Sender # t /\ t \in Tasks
  BY SenderIs DEF Tasks
<1>2. p \in Payload /\ p.msg = 0
  BY <1>1 DEF NoFragment, Payload
<1>3. f.payload = p /\ f.type # "DATA" /\ ~f.more
  <2>1. ~ More(p)
    BY DEF More, NoFragment
  <2> HIDE DEF p
  <2> QED
    BY <2>1 DEF MakeFrame
<1>4. /\ \A u \in Tasks \ {t} : pc'[u] = pc[u] /\ frame'[u] = frame[u]
      /\ frame'[t] = f
      /\ UNCHANGED <<sendSeq, sent>> \/ Numbered(f)
  BY <1>1, <1>2, SendFrameCases, TypeOKParts DEF Numbered
<1> HIDE DEF f
<1>5. Current' = Current /\ pc'[Sender] = pc[Sender]
  BY <1>1, <1>4 DEF Current
<1>6. OwnPayloads'
  <2>1. \A u \in Closers : frame'[u].payload = NoFragment(u) /\ ~frame'[u].more
    BY <1>3, <1>4 DEF SizesInv, OwnPayloads, Tasks
  <2> QED
    BY <1>5, <2>1 DEF SizesInv, OwnPayloads
<1> HIDE DEF p
<1>7. CASE UNCHANGED <<sendSeq, sent>>
  BY <1>5, <1>6, <1>7 DEF SizesInv, SizesAgree, NoneSkipped, SentAt, Data
<1>8. CASE Numbered(f)
  <2>1. SentGrows
    BY <1>1, <1>2, SendFrameGrows, TypeOKParts DEF p
  <2>2. /\ \A s \in Data : s \in Data' /\ sent'[s] = sent[s]
        /\ \A s \in Data' : s \in Data
        /\ \A s \in (1 .. sendSeq') \ Data' :
                \/ s \in (1 .. sendSeq) \ Data /\ sent'[s] = sent[s]
                \/ sent'[s].payload = p
    BY <1>3, <1>8, <2>1, DataGrows, TypeOKParts DEF Numbered
  <2>3. SizesAgree'
    BY <1>2, <1>5, <2>2 DEF SizesInv, SizesAgree
  <2>4. NoneSkipped'
    BY <1>5, <2>2 DEF SizesInv, NoneSkipped, SentAt
  <2> QED
    BY <1>5, <1>6, <2>3, <2>4 DEF SizesInv
<1> QED
  BY <1>4, <1>5, <1>7, <1>8

(* The steps that send nothing.                                            *)
LEMMA NothingSent ==
    ASSUME SizesInv, UNCHANGED <<frame, sendSeq, sent>>,
           pc[Sender] \in {"waiting", "woken"} => pc'[Sender] \in {"waiting", "woken"},
           pc[Sender] = "idle" => pc'[Sender] = "idle"
    PROVE  SizesInv' /\ Current' = Current
<1>1. Current' = Current /\ Data' = Data
  BY DEF Current, Data
<1> QED
  BY <1>1 DEF SizesInv, SizesAgree, NoneSkipped, SentAt, OwnPayloads

(* A step begins the next message, or leaves the task at the message it    *)
(* was at.                                                                 *)
Begins(n) ==
    /\ Current.msg < MaxMessages
    /\ Current'.msg = Current.msg + 1 /\ Current'.of = n
    /\ pc[Sender] = "idle"

GoesOn == Current'.msg = Current.msg /\ Current'.of = Current.of

LEMMA SizesStep ==
    ASSUME TypeOK, OneSender, Senders # {}, SizesInv, [Next]_vars
    PROVE  /\ SizesInv'
           /\ \/ GoesOn
              \/ \E n \in 1 .. MaxFragments : Begins(n) /\ UNCHANGED delivered
<1> USE DEF vars, senderVars, loopVars, receiverVars
<1>a. Senders = {Sender} /\ Sender \in Tasks /\ Sender \notin Closers
  BY SenderIs
<1>b. /\ pc \in [Tasks -> {"idle", "waiting", "woken", "sending", "done"}]
      /\ \A t \in Tasks : frame[t] \in Frame /\ frame[t].payload \in Payload
  BY TypeOKParts DEF SenderTypeOK, Frame
<1>c. /\ \A t \in Closers : frame[t].payload = NoFragment(t) /\ ~frame[t].more
      /\ Current \in Payload /\ Current.from = Sender
  BY <1>a, <1>b DEF SizesInv, OwnPayloads, Current
<1>1. ASSUME NEW t \in Senders, NEW n \in 1 .. MaxFragments, Send(t, n)
      PROVE  SizesInv' /\ Begins(n) /\ UNCHANGED delivered
  <2> DEFINE p == [from |-> Sender, msg |-> Current.msg + 1, frag |-> 1, of |-> n]
  <2>1. t = Sender
    BY <1>a
  <2>2. SendFrame(Sender, p) /\ pc[Sender] = "idle" /\ Current.msg < MaxMessages
    BY <1>1, <2>1 DEF Send, Current
  <2>3. /\ p \in Payload
        /\ p.from = Sender /\ p.msg = Current.msg + 1 /\ p.of = n
    BY <1>a, <1>c DEF Payload
  <2> HIDE DEF p
  <2>4. SizesInv' /\ Current' = p
    BY <2>2, <2>3, SenderSends
  <2> QED
    BY <1>1, <2>2, <2>3, <2>4 DEF Begins, Send
<1>2. ASSUME NEW t \in Closers, Close(t)
      PROVE  SizesInv' /\ GoesOn
  <2>1. SendFrame(t, NoFragment(t))
    BY <1>2 DEF Close
  <2> QED
    BY <2>1, CloserSends DEF GoesOn
<1>3. ASSUME NEW t \in Tasks, WindowCheck(t)
      PROVE  SizesInv' /\ GoesOn
  <2>1. pc[t] = "woken" /\ SendFrame(t, frame[t].payload)
    BY <1>3 DEF WindowCheck
  <2>2. CASE t = Sender
    <3>1. SizesInv' /\ Current' = Current
      BY <1>c, <2>1, <2>2, SenderSends DEF Current
    <3> QED
      BY <3>1 DEF GoesOn
  <2>3. CASE t \in Closers
    BY <1>c, <2>1, <2>3, CloserSends DEF GoesOn
  <2> QED
    BY <1>a, <2>2, <2>3 DEF Tasks
<1>4. ASSUME NEW t \in Tasks, RawSend(t)
      PROVE  SizesInv' /\ GoesOn
  <2>1. CASE ~frame[t].more
    <3>1. /\ UNCHANGED <<frame, sendSeq, sent>>
          /\ pc[t] = "sending"
          /\ pc' = [pc EXCEPT ![t] = IF t \in Closers THEN "done" ELSE "idle"]
      BY <1>4, <2>1 DEF RawSend
    <3>2. /\ pc[Sender] \in {"waiting", "woken"} => pc'[Sender] \in {"waiting", "woken"}
          /\ pc[Sender] = "idle" => pc'[Sender] = "idle"
      BY <1>a, <1>b, <3>1
    <3> QED
      BY <3>1, <3>2, NothingSent DEF GoesOn
  <2>2. CASE frame[t].more /\ t = Sender
    <3> DEFINE p == [Current EXCEPT !.frag = @ + 1]
    <3>1. SendFrame(Sender, p) /\ pc[Sender] = "sending"
      BY <1>4, <2>2 DEF RawSend, Current
    <3>2. /\ p \in Payload
          /\ p.from = Sender /\ p.msg = Current.msg /\ p.of = Current.of
      BY <1>c DEF Payload
    <3> HIDE DEF p
    <3>3. SizesInv' /\ Current' = p
      BY <3>1, <3>2, SenderSends
    <3> QED
      BY <3>2, <3>3 DEF GoesOn
  <2> QED
    BY <1>a, <1>c, <2>1, <2>2 DEF Tasks
<1>5. ASSUME NEW i \in DOMAIN ackWire, ReceiveAck(i)
      PROVE  SizesInv' /\ GoesOn
  <2>1. /\ UNCHANGED <<frame, sendSeq, sent>>
        /\ pc' \in {pc, WakeWaiters}
    BY <1>5 DEF ReceiveAck, ProcessAck
  <2>2. /\ pc[Sender] \in {"waiting", "woken"} => pc'[Sender] \in {"waiting", "woken"}
        /\ pc[Sender] = "idle" => pc'[Sender] = "idle"
    BY <1>a, <2>1 DEF WakeWaiters
  <2> QED
    BY <2>1, <2>2, NothingSent DEF GoesOn
<1>6. \/ \E due \in SUBSET DOMAIN sendWindow : RetransmitPass(due)
      \/ RetransmitSend \/ Attach \/ HandlerReturns \/ Lose \/ UNCHANGED vars
      \/ \E i \in DOMAIN wire : ReceiveFrame(i)
      \/ \E i \in DOMAIN acking : ProcessData(i)
      => UNCHANGED <<pc, frame, sendSeq, sent>>
  BY DEF RetransmitPass, RetransmitSend, Attach, HandlerReturns, Lose, ReceiveFrame, ProcessData
<1>7. UNCHANGED <<pc, frame, sendSeq, sent>> => SizesInv' /\ GoesOn
  BY NothingSent DEF GoesOn
<1> QED
  BY <1>1, <1>2, <1>3, <1>4, <1>5, <1>6, <1>7 DEF Next
-----------------------------------------------------------------------------
(* The messages submitted.                                                 *)

SubmittedOK ==
    /\ Submitted = [i \in 1 .. Current.msg |-> Submitted[i]]
    /\ \A s \in Data :
        /\ sent[s].payload.msg \in 1 .. Current.msg
        /\ Submitted[sent[s].payload.msg] = sent[s].payload.of
    /\ Current.msg >= 1 => Submitted[Current.msg] = Current.of

LEMMA SubmittedIs ==
    TypeOK /\ OneSender /\ Senders # {} /\ SizesInv => SubmittedOK
<1> SUFFICES ASSUME TypeOK, OneSender, Senders # {}, SizesInv
             PROVE  SubmittedOK
  OBVIOUS
<1> DEFINE Of(i) == (CHOOSE f \in ToSet(sent) : f.payload.msg = i).payload.of
           S == [i \in 1 .. Current.msg |-> IF i = Current.msg THEN Current.of ELSE Of(i)]
<1>1. Submitted = S
  BY DEF Submitted, Current
<1>2. /\ Current.msg \in Nat
      /\ sent \in Seq(Frame) /\ Len(sent) = sendSeq /\ sendSeq \in Nat
      /\ \A s \in 1 .. sendSeq : sent[s].payload.msg \in Nat
  <2>1. /\ sent \in Seq(Frame) /\ Len(sent) = sendSeq /\ sendSeq \in Nat
        /\ frame[Sender] \in Frame
    BY SenderIs, TypeOKParts DEF SenderTypeOK
  <2>2. \A f \in Frame : f.payload.msg \in Nat
    BY DEF Frame, Payload
  <2>3. \A s \in 1 .. sendSeq : sent[s] \in Frame
    BY <2>1
  <2> QED
    BY <2>1, <2>2, <2>3 DEF Current
<1>3. ToSet(sent) = {sent[s] : s \in 1 .. sendSeq}
  BY <1>2 DEF ToSet
<1>4. ASSUME NEW s \in Data
      PROVE  /\ sent[s].payload.msg \in 1 .. Current.msg
             /\ S[sent[s].payload.msg] = sent[s].payload.of
  <2> DEFINE i == sent[s].payload.msg
  <2>1. /\ i \in 1 .. Current.msg
        /\ i = Current.msg => sent[s].payload.of = Current.of
    BY <1>2 DEF SizesInv, SizesAgree, Data
  <2>2. Of(i) = sent[s].payload.of
    <3> DEFINE f == CHOOSE g \in ToSet(sent) : g.payload.msg = i
    <3>1. \E g \in ToSet(sent) : g.payload.msg = i
      BY <1>3 DEF Data
    <3> HIDE DEF i
    <3>2. f \in ToSet(sent) /\ f.payload.msg = i
      BY <3>1
    <3>3. PICK r \in 1 .. sendSeq : f = sent[r]
      BY <1>3, <3>2
    <3>4. i # 0
      BY <2>1
    <3>5. r \in Data
      BY <3>2, <3>3, <3>4 DEF SizesInv, SizesAgree
    <3> QED
      BY <3>2, <3>3, <3>5 DEF SizesInv, SizesAgree, i
  <2> HIDE DEF Of
  <2> QED
    BY <2>1, <2>2
<1> HIDE DEF Of
<1>5. S = [i \in 1 .. Current.msg |-> S[i]]
  OBVIOUS
<1>6. Current.msg >= 1 => S[Current.msg] = Current.of
  BY <1>2
<1> HIDE DEF S
<1> QED
  BY <1>1, <1>4, <1>5, <1>6 DEF SubmittedOK

LEMMA DataStays ==
    ASSUME SentGrows, SenderTypeOK
    PROVE  \A s \in Data : s \in Data' /\ sent'[s] = sent[s]
  BY DEF SentGrows, SenderTypeOK, Data

(* The messages submitted are as many as the task has begun.               *)
LEMMA SubmittedType ==
    ASSUME TypeOK, OneSender, Senders # {}, SizesInv
    PROVE  /\ Submitted \in Seq(Nat)
           /\ Len(Submitted) = Current.msg /\ Current.msg \in Nat
<1>1. SubmittedOK
  BY SubmittedIs
<1>2. \A f \in Frame : f.payload.msg \in Nat /\ f.payload.of \in Nat
  BY DEF Frame, Payload
<1>3. /\ Current.msg \in Nat /\ Current.of \in Nat
      /\ \A s \in Data : sent[s].payload.of \in Nat
  <2>1. frame[Sender] \in Frame /\ \A s \in Data : sent[s] \in Frame
    BY SenderIs, TypeOKParts DEF SenderTypeOK, Data
  <2> QED
    BY <1>2, <2>1 DEF Current
<1>4. ASSUME NEW i \in 1 .. Current.msg
      PROVE  Submitted[i] \in Nat
  <2>1. CASE i = Current.msg
    BY <1>1, <1>3, <2>1 DEF SubmittedOK
  <2>2. CASE i # Current.msg
    BY <1>1, <1>3, <2>2 DEF SubmittedOK, SizesInv, NoneSkipped, SentAt
  <2> QED
    BY <2>1, <2>2
<1>5. Submitted \in [1 .. Current.msg -> Nat]
  BY <1>1, <1>4 DEF SubmittedOK
<1> QED
  BY <1>3, <1>5

LEMMA SubmittedStays ==
    ASSUME TypeOK, SizesInv, SentGrows, SubmittedOK, SubmittedOK', GoesOn
    PROVE  Submitted' = Submitted
<1>1. Current'.msg = Current.msg /\ Current'.of = Current.of
  BY DEF GoesOn
<1>2. ASSUME NEW i \in 1 .. Current.msg
      PROVE  Submitted'[i] = Submitted[i]
  <2>1. CASE SentAt(i)
    BY <2>1, DataStays, TypeOKParts DEF SentAt, SubmittedOK
  <2>2. CASE i = Current.msg /\ i >= 1
    BY <1>1, <2>2 DEF SubmittedOK
  <2> QED
    BY <2>1, <2>2 DEF SizesInv, NoneSkipped
<1> QED
  BY <1>1, <1>2 DEF SubmittedOK

LEMMA SubmittedGrows ==
    ASSUME TypeOK, OneSender, Senders # {}, SizesInv, SentGrows, SubmittedOK, SubmittedOK',
           NEW n \in Nat, Begins(n)
    PROVE  Submitted' = Append(Submitted, n)
<1>1. /\ Submitted \in Seq(Nat) /\ Len(Submitted) = Current.msg /\ Current.msg \in Nat
      /\ Current'.msg = Current.msg + 1 /\ Current'.of = n
  BY SubmittedType DEF Begins
<1>2. ASSUME NEW i \in 1 .. Current.msg
      PROVE  Submitted'[i] = Submitted[i]
  <2>1. SentAt(i)
    BY DEF SizesInv, NoneSkipped, Begins
  <2> QED
    BY <2>1, DataStays, TypeOKParts DEF SentAt, SubmittedOK
<1>3. Submitted'[Current.msg + 1] = n
  BY <1>1 DEF SubmittedOK
<1>4. Submitted' = [i \in 1 .. Current.msg + 1 |-> Submitted'[i]]
  BY <1>1 DEF SubmittedOK
<1> DEFINE T == Append(Submitted, n)
<1>5. /\ T \in Seq(Nat)
      /\ Len(T) = Current.msg + 1
      /\ \A i \in 1 .. Current.msg : T[i] = Submitted[i]
      /\ T[Current.msg + 1] = n
  BY <1>1, AppendType
<1> HIDE DEF T
<1>6. T = [i \in 1 .. Current.msg + 1 |-> T[i]]
  BY <1>5
<1>7. ASSUME NEW i \in 1 .. Current.msg + 1
      PROVE  Submitted'[i] = T[i]
  <2>1. i \in 1 .. Current.msg \/ i = Current.msg + 1
    BY <1>1
  <2> QED
    BY <1>2, <1>3, <1>5, <2>1
<1> QED
  BY <1>4, <1>6, <1>7 DEF T

-----------------------------------------------------------------------------
(* Delivery.                                                               *)

(* A delivery loop hands on the next message as it was submitted, or none. *)
LEMMA DeliverFromStream ==
    ASSUME InOrderInv, Senders # {}, SizesInv, FromSender, SubmittedOK,
           UNCHANGED <<sendSeq, sent>>,
           NEW buf, buf \in [DOMAIN buf -> Frame],
           \A s \in DOMAIN buf :
             Genuine(buf[s]) /\ buf[s].type = "DATA" /\ buf[s].seq = s,
           NEW n, Deliver(buf, n)
    PROVE  /\ FromSender'
           /\ \/ UNCHANGED delivered
              \/ /\ Len(delivered) < Len(Submitted)
                 /\ delivered' = Append(delivered, Stream!Message(Len(delivered) + 1))
<1>1. /\ TypeOK /\ OneSender /\ SenderInv /\ ReceiverCursor /\ DeliveredInOrder
      /\ recvNext \in Nat /\ sendSeq \in Nat
      /\ reassembly \in Seq(Payload)
      /\ delivered \in Seq(Seq(Payload))
  BY TypeOKParts DEF InOrderInv, SenderInv, SenderTypeOK, ReceiverTypeOK
<1>2. PICK k \in recvNext .. recvNext + Cardinality(DOMAIN buf) :
        /\ TakenUpTo(buf, k)
        /\ \/ /\ k > recvNext /\ ~buf[k - 1].more
              /\ delivered' = Append(delivered, reassembly \o Taken(buf, k))
              /\ reassembly' = <<>>
           \/ /\ k > recvNext => buf[k - 1].more
              /\ reassembly' = reassembly \o Taken(buf, k)
              /\ UNCHANGED delivered
  BY DEF Deliver, Taken, ResetReassembly
<1> DEFINE got == Taken(buf, k)
           data == reassembly \o got
           last == sent[k]
           m == Len(delivered) + 1
<1>3. k \in Nat /\ k >= recvNext /\ recvNext .. k - 1 \subseteq DOMAIN buf
  BY <1>1, <1>2 DEF TakenUpTo
<1>4. /\ got \in Seq(Payload)
      /\ Len(got) = k - recvNext
      /\ \A i \in 1 .. k - recvNext : got[i] = buf[recvNext + i - 1].payload
  BY <1>1, <1>3, TakenType, TypeOKParts
<1> HIDE DEF got
<1>5. /\ data \in Seq(Payload)
      /\ Len(data) = Len(reassembly) + (k - recvNext)
      /\ \A j \in 1 .. Len(data) :
           data[j] = IF j <= Len(reassembly) THEN reassembly[j] ELSE got[j - Len(reassembly)]
  BY <1>1, <1>4, ConcatType
<1>6. \/ /\ k > recvNext
         /\ delivered' = Append(delivered, data)
         /\ reassembly' = <<>>
      \/ reassembly' = data /\ UNCHANGED delivered
  BY <1>2 DEF got
<1> HIDE DEF data
<1>7. \A i \in 1 .. k - recvNext : got[i].from = Sender
  <2> SUFFICES ASSUME NEW i \in 1 .. k - recvNext
               PROVE  got[i].from = Sender
    OBVIOUS
  <2> DEFINE s == recvNext + i - 1
  <2>1. s \in recvNext .. k - 1 /\ s \in Nat
    BY <1>1, <1>3
  <2>2. s \in DOMAIN buf /\ got[i] = buf[s].payload
    BY <1>3, <1>4, <2>1
  <2> HIDE DEF s
  <2>3. s < sendSeq /\ sent[s + 1] = buf[s] /\ buf[s].type = "DATA"
    BY <2>2 DEF Genuine
  <2>4. s + 1 \in Data
    BY <1>1, <2>1, <2>3 DEF Data
  <2> QED
    BY <2>2, <2>3, <2>4 DEF SizesInv, SizesAgree
<1>8. ASSUME NEW j \in 1 .. Len(data)
      PROVE  data[j].from = Sender
  <2>1. CASE j <= Len(reassembly)
    <3>1. j \in DOMAIN reassembly /\ data[j] = reassembly[j]
      BY <1>1, <1>5, <2>1
    <3> QED
      BY <3>1 DEF FromSender
  <2>2. CASE ~(j <= Len(reassembly))
    <3>1. j - Len(reassembly) \in 1 .. k - recvNext /\ data[j] = got[j - Len(reassembly)]
      BY <1>1, <1>3, <1>5, <2>2
    <3> QED
      BY <1>7, <3>1
  <2> QED
    BY <2>1, <2>2
<1>9. FromSender'
  <2>1. CASE reassembly' = <<>>
    <3>1. DOMAIN reassembly' = {}
      BY <2>1
    <3> QED
      BY <3>1 DEF FromSender
  <2>2. CASE reassembly' = data
    <3>1. DOMAIN reassembly' = 1 .. Len(data)
      BY <1>5, <2>2
    <3> QED
      BY <1>8, <2>2, <3>1 DEF FromSender
  <2> QED
    BY <1>6, <2>1, <2>2
<1>10. CASE k > recvNext /\ delivered' = Append(delivered, data)
  <2>1. /\ k <= sendSeq
        /\ OpenUpTo(k)
        /\ last.payload.msg = m
        /\ FragmentsOf(data, last.payload.msg, last.payload.of)
    <3>1. data = reassembly \o Taken(buf, k)
      BY DEF data, got
    <3> QED
      BY <1>1, <1>2, <1>3, <1>10, <3>1, TakenContinues
  <2>2. k \in Data
    BY <1>1, <1>3, <1>10, <2>1 DEF OpenUpTo, Data
  <2>3. m \in 1 .. Len(Submitted) /\ Submitted[m] = last.payload.of
    <3>1. Len(Submitted) = Current.msg
      BY <1>1, SubmittedType
    <3> QED
      BY <2>1, <2>2, <3>1 DEF SubmittedOK
  <2>4. DeliveredInOrder'
    BY <1>1, DeliverInOrder
  <2>5. delivered'[m] = data /\ m \in DOMAIN delivered'
    BY <1>1, <1>5, <1>10, AppendType
  <2>6. 1 \in DOMAIN data /\ DOMAIN data = 1 .. Len(data)
    BY <1>1, <1>3, <1>5, <1>10
  <2>7. data[1].of = Len(data) /\ data[1].of = last.payload.of
    BY <2>1, <2>4, <2>5, <2>6 DEF DeliveredInOrder, FragmentsOf
  <2> HIDE DEF m, last
  <2>8. ASSUME NEW j \in 1 .. Len(data)
        PROVE  data[j] = [from |-> Sender, msg |-> m, frag |-> j, of |-> Submitted[m]]
    <3>1. data[j] \in Payload
      BY <1>5
    <3>2. data[j].from = Sender /\ data[j].msg = m /\ data[j].frag = j /\ data[j].of = Submitted[m]
      BY <1>8, <2>1, <2>3, <2>6 DEF FragmentsOf
    <3> QED
      BY <3>1, <3>2 DEF Payload
  <2>9. data = [j \in 1 .. Len(data) |-> data[j]] /\ Len(data) = Submitted[m]
    BY <1>5, <2>3, <2>7
  <2>10. data = Stream!Message(m)
    BY <2>8, <2>9 DEF Stream!Message
  <2>11. Len(delivered) < Len(Submitted)
    <3>1. Len(Submitted) \in Nat /\ Len(delivered) \in Nat
      BY <1>1, SubmittedType
    <3> QED
      BY <2>3, <3>1 DEF m
  <2> QED
    BY <1>9, <1>10, <2>10, <2>11 DEF m
<1> QED
  BY <1>6, <1>9, <1>10

LEMMA StreamDeliveries ==
    ASSUME StreamInv, Senders # {}, SubmittedOK, [Next]_vars
    PROVE  /\ FromSender'
           /\ \/ UNCHANGED delivered
              \/ /\ Len(delivered) < Len(Submitted)
                 /\ delivered' = Append(delivered, Stream!Message(Len(delivered) + 1))
<1> USE DEF vars, senderVars, loopVars, receiverVars
<1>1. CASE UNCHANGED receiverVars
  BY <1>1 DEF StreamInv, FromSender
<1>2. /\ InOrderInv /\ SizesInv /\ FromSender
      /\ recvBuffer \in [DOMAIN recvBuffer -> Frame]
      /\ \A s \in DOMAIN recvBuffer :
           Genuine(recvBuffer[s]) /\ recvBuffer[s].type = "DATA" /\ recvBuffer[s].seq = s
  BY TypeOKParts DEF StreamInv, InOrderInv, Authentic, ReceiverTypeOK
<1>3. ASSUME NEW i \in DOMAIN acking, ProcessData(i), ~ UNCHANGED receiverVars
      PROVE  /\ FromSender'
             /\ \/ UNCHANGED delivered
                \/ /\ Len(delivered) < Len(Submitted)
                   /\ delivered' = Append(delivered, Stream!Message(Len(delivered) + 1))
  <2> DEFINE f == acking[i]
             buf == Put(recvBuffer, f.seq, f)
  <2>1. f \in Frame /\ Genuine(f) /\ f.type = "DATA"
    BY <1>2, FramesTyped DEF InOrderInv, Authentic
  <2>2. /\ buf \in [DOMAIN buf -> Frame]
        /\ \A s \in DOMAIN buf : Genuine(buf[s]) /\ buf[s].type = "DATA" /\ buf[s].seq = s
    BY <1>2, <2>1 DEF Put
  <2>3. Deliver(buf, inHandler) /\ UNCHANGED <<sendSeq, sent>>
    BY <1>3 DEF ProcessData
  <2> HIDE DEF buf
  <2> QED
    BY <1>2, <2>2, <2>3, DeliverFromStream
<1>4. CASE HandlerReturns
  <2>1. Deliver(recvBuffer, inHandler - 1) /\ UNCHANGED <<sendSeq, sent>>
    BY <1>4 DEF HandlerReturns
  <2> QED
    BY <1>2, <2>1, DeliverFromStream
<1>5. \/ \E t \in Senders, n \in 1 .. MaxFragments : Send(t, n)
      \/ \E t \in Closers : Close(t)
      \/ \E t \in Tasks : WindowCheck(t) \/ RawSend(t)
      \/ \E i \in DOMAIN ackWire : ReceiveAck(i)
      \/ \E due \in SUBSET DOMAIN sendWindow : RetransmitPass(due)
      \/ RetransmitSend \/ Attach \/ Lose \/ UNCHANGED vars
      \/ \E i \in DOMAIN wire : ReceiveFrame(i)
      => UNCHANGED receiverVars
  BY DEF Send, Close, WindowCheck, RawSend, ReceiveAck, RetransmitPass, RetransmitSend,
         Attach, Lose, ReceiveFrame
<1> QED
  BY <1>1, <1>3, <1>4, <1>5 DEF Next
-----------------------------------------------------------------------------
(* The two halves together.                                                *)

LEMMA StreamInvInit == Init /\ OneSender /\ Senders # {} => StreamInv
<1> SUFFICES ASSUME Init, OneSender, Senders # {}
             PROVE  StreamInv
  OBVIOUS
<1>1. /\ sendSeq = 0 /\ reassembly = <<>> /\ DOMAIN reassembly = {}
      /\ \A t \in Tasks : pc[t] = "idle" /\ frame[t] = MakeFrame(t, 0, NoFragment(t))
  BY DEF Init
<1>2. \A t \in Tasks : frame[t].payload = NoFragment(t) /\ ~frame[t].more
  <2> SUFFICES ASSUME NEW t \in Tasks
               PROVE  frame[t].payload = NoFragment(t) /\ ~frame[t].more
    OBVIOUS
  <2> DEFINE p == NoFragment(t)
             f == MakeFrame(t, 0, p)
  <2>1. ~ More(p)
    BY DEF More, NoFragment
  <2>2. f.payload = p /\ ~f.more
    <3> HIDE DEF p
    <3> QED
      BY <2>1 DEF MakeFrame
  <2>3. frame[t] = f
    BY <1>1
  <2> HIDE DEF f
  <2> QED
    BY <2>2, <2>3
<1>3. Current.msg = 0 /\ Current.from = Sender /\ pc[Sender] = "idle"
  <2>1. Sender \in Tasks /\ frame[Sender].payload = NoFragment(Sender)
    BY <1>2, SenderIs
  <2>2. NoFragment(Sender).msg = 0 /\ NoFragment(Sender).from = Sender
    BY DEF NoFragment
  <2>3. Current = NoFragment(Sender)
    BY <2>1 DEF Current
  <2> QED
    BY <1>1, <2>1, <2>2, <2>3
<1>4. Data = {} /\ 1 .. sendSeq = {}
  BY <1>1 DEF Data
<1>5. SizesInv
  BY <1>2, <1>3, <1>4 DEF SizesInv, SizesAgree, NoneSkipped, OwnPayloads, Tasks
<1>6. FromSender
  BY <1>1 DEF FromSender
<1> QED
  BY <1>5, <1>6, InOrderInit DEF StreamInv

LEMMA StreamInvStep == StreamInv /\ Senders # {} /\ [Next]_vars => StreamInv'
<1> SUFFICES ASSUME StreamInv, Senders # {}, [Next]_vars
             PROVE  StreamInv'
  OBVIOUS
<1>1. TypeOK /\ OneSender /\ SizesInv /\ SubmittedOK /\ InOrderInv
  BY SubmittedIs DEF StreamInv, InOrderInv
<1> QED
  BY <1>1, SizesStep, StreamDeliveries, InOrderStep DEF StreamInv

LEMMA StreamInitially == Init /\ OneSender /\ Senders # {} => Stream!StreamInit
<1> SUFFICES ASSUME Init, OneSender, Senders # {}
             PROVE  Submitted = <<>> /\ delivered = <<>>
  BY DEF Stream!StreamInit
<1>1. TypeOK /\ SizesInv
  BY StreamInvInit DEF StreamInv, InOrderInv
<1>2. Current.msg = 0
  <2> DEFINE f == MakeFrame(Sender, 0, NoFragment(Sender))
  <2>1. f.payload = NoFragment(Sender)
    BY DEF MakeFrame
  <2>2. frame[Sender] = f
    BY SenderIs DEF Init
  <2> HIDE DEF f
  <2> QED
    BY <2>1, <2>2 DEF Current, NoFragment
<1>3. Submitted \in Seq(Nat) /\ Len(Submitted) = 0
  BY <1>1, <1>2, SubmittedType
<1> QED
  BY <1>3 DEF Init

LEMMA StreamStep ==
    StreamInv /\ StreamInv' /\ Senders # {} /\ SubmittedOK' /\ [Next]_vars
    => [Stream!StreamNext]_<<Submitted, delivered>>
<1> SUFFICES ASSUME StreamInv, StreamInv', Senders # {}, SubmittedOK', [Next]_vars
             PROVE  Stream!StreamNext \/ UNCHANGED <<Submitted, delivered>>
  OBVIOUS
<1>1. TypeOK /\ OneSender /\ SizesInv /\ SubmittedOK /\ SentGrows
  BY SubmittedIs, StepGrows DEF StreamInv, InOrderInv
<1>2. CASE GoesOn
  <2>1. Submitted' = Submitted
    BY <1>1, <1>2, SubmittedStays
  <2>2. \/ UNCHANGED delivered
        \/ /\ Len(delivered) < Len(Submitted)
           /\ delivered' = Append(delivered, Stream!Message(Len(delivered) + 1))
    BY <1>1, StreamDeliveries
  <2> QED
    BY <2>1, <2>2 DEF Stream!StreamNext, Stream!DeliverNext
<1>3. ASSUME NEW n \in 1 .. MaxFragments, Begins(n), UNCHANGED delivered
      PROVE  Stream!StreamNext
  <2>1. Submitted' = Append(Submitted, n)
    BY <1>1, <1>3, SubmittedGrows
  <2>2. Len(Submitted) < MaxMessages
    BY <1>1, <1>3, SubmittedType DEF Begins
  <2>3. Stream!Submit(n)
    BY <1>3, <2>1, <2>2 DEF Stream!Submit
  <2> QED
    BY <2>3 DEF Stream!StreamNext
<1> QED
  BY <1>1, <1>2, <1>3, SizesStep

(* With one sending task a channel is the stream of messages that the      *)
(* modules above it take it for: what send() was given comes out of        *)
(* on_message whole, in order and at most once, and nothing else does, in  *)
(* whatever way tasks, ACKs, retransmissions, loss and delivery loops that *)
(* suspend interleave, and whoever closes the channel meanwhile.           *)
THEOREM ChannelImplementsStream ==
    ASSUME OneSender, Senders # {}
    PROVE  Spec => ImplementsStream
<1>1. Init => StreamInv /\ Stream!StreamInit
  BY StreamInvInit, StreamInitially
<1>2. StreamInv /\ [Next]_vars => StreamInv'
  BY StreamInvStep
<1>3. StreamInv => SubmittedOK
  BY SubmittedIs DEF StreamInv, InOrderInv
<1>4. StreamInv /\ StreamInv' /\ SubmittedOK' /\ [Next]_vars
      => [Stream!StreamNext]_<<Submitted, delivered>>
  BY StreamStep
<1> QED
  BY <1>1, <1>2, <1>3, <1>4, PTL
     DEF Spec, ImplementsStream, Stream!StreamSpec, Stream!streamVars
=============================================================================
