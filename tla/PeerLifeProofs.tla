----------------------------- MODULE PeerLifeProofs -----------------------------
(***************************************************************************)
(* Proofs about PeerLife.  One invariant says which frames, requests and   *)
(* channels there can be; from it follow the types (a channel sends at     *)
(* most its data frame and its FIN, and nothing is retried beyond          *)
(* max_retransmits), that a request is made once and that an answer is the *)
(* client's own.                                                           *)
(***************************************************************************)
EXTENDS PeerLife, FiniteSetTheorems, TLAPS

-----------------------------------------------------------------------------
(* The invariant.                                                          *)

Started(c) == client[c] # "new"

(* The channel ids given out so far.                                       *)
Opened == {chan[c] : c \in {d \in Clients : Started(d)}}

(* The numbers that the multiplexer of p gives out.                        *)
Own(p, n) == \E k \in 0 .. n : n = FirstId(p) + Step * k

(* No number is given out twice, by one peer or by both.                   *)
Numbers ==
    /\ \A p \in Peers : Own(p, nextId[p])
    /\ \A c \in Clients : Started(c) => Own(Home(c), chan[c]) /\ chan[c] < nextId[Home(c)]
    /\ \A c, d \in Clients : Started(c) /\ Started(d) /\ chan[c] = chan[d] => c = d

(* What can be on its way to q: requests of the other peer's clients and   *)
(* responses to q's own, on the channel of the client, and a response that *)
(* is not an error to a request that was made.                             *)
ValidTo(q) ==
    {f \in Frames :
        /\ f.ch \in Opened
        /\ f.type # "ack" => f.seq <= 1
        /\ IsData(f) => Started(f.req) /\ f.ch = chan[f.req]
        /\ f.type = "request" => f.seq = 0 /\ Home(f.req) = Other(q)
        /\ f.type = "response" => Home(f.req) = q /\ (f.ok => fetches[f.req] >= 1)}

(* What p can be working on.                                               *)
Job == [ch : Nat, req : Clients, made : BOOLEAN, listed : BOOLEAN]
ValidJobs(p) ==
    {j \in Job :
        /\ Started(j.req) /\ j.ch = chan[j.req] /\ Home(j.req) = Other(p)
        /\ j.made => fetches[j.req] >= 1}

(* Those that send on a channel of the table, and on one it was cleared of.*)
Listed(js) == {j \in js : j.listed}
Unlisted(js) == {j \in js : ~j.listed}

(* A channel has still to send its FIN; it has still to send a response.   *)
FinDue(ch, awaited) == ch.loop = "on" \/ awaited
ReplyDue(id, ch, js) ==
    /\ ch.onMessage = "dispatch"
    /\ ch.recvNext = 0 \/ \E j \in js : j.ch = id

(* The two frames of a channel are enough for what it has still to send.   *)
Budget(id, ch, js, awaited) ==
    /\ FinDue(ch, awaited) => ch.sendSeq <= 1
    /\ ReplyDue(id, ch, js) => ch.sendSeq <= 1
    /\ FinDue(ch, awaited) /\ ReplyDue(id, ch, js) => ch.sendSeq = 0

(* A channel is a record of these fields.                                  *)
IsRecord(ch) == DOMAIN ch = {"onMessage", "loop", "sendSeq", "window", "recvNext"}

(* Channel id of a table, where js are the jobs that send on its channels, *)
(* awaited says that close_all awaits its close(), and frames in valid may *)
(* be sent.                                                                *)
ChannelOK(id, ch, js, awaited, valid, given) ==
    /\ id \in given
    /\ IsRecord(ch)
    /\ IsChannel(ch)
    /\ IsFiniteSet(DOMAIN ch.window)
    /\ DOMAIN ch.window \subseteq valid
    /\ Budget(id, ch, js, awaited)

(* A job was started by the first frame of its channel, and there is no    *)
(* other one of that channel.                                              *)
JobsOK(table, js) ==
    /\ \A j \in js :
        /\ j.ch \in DOMAIN table
        /\ table[j.ch].onMessage = "dispatch"
        /\ table[j.ch].recvNext # 0
    /\ \A j, k \in js : j.ch = k.ch => j = k

(* A peer's table of channels.                                             *)
TableOK(table, js, isClosing, b, valid, given) ==
    /\ IsFiniteSet(DOMAIN table)
    /\ \A id \in DOMAIN table :
        ChannelOK(id, table[id], js, isClosing /\ b = id, valid, given)
    /\ JobsOK(table, js)
    /\ isClosing => b \in DOMAIN table

Tables ==
    \A p \in Peers :
        /\ jobs[p] \subseteq ValidJobs(p)
        /\ wire[p] \in Seq(ValidTo(p))
        /\ TableOK(channels[p], Listed(jobs[p]), phase[p] = "closing", at[p].id, ValidTo(Other(p)), Opened)

(* The channels that close_all has cleared the table of have only their    *)
(* response still to send.                                                 *)
Leftovers ==
    \A p \in Peers :
        /\ TableOK(cleared[p], Unlisted(jobs[p]), FALSE, 0, ValidTo(Other(p)), Opened)
        /\ phase[p] # "leaving" => Unlisted(jobs[p]) = {}

Types ==
    /\ phase \in [Peers -> {"connecting", "starting", "serving", "stopping",
                            "closing", "leaving", "over"}]
    /\ ready \in [Peers -> BOOLEAN]
    /\ nextId \in [Peers -> Nat]
    /\ size \in [Peers -> Nat]
    /\ at \in [Peers -> [id : Nat, woken : BOOLEAN]]
    /\ DOMAIN channels = Peers /\ DOMAIN cleared = Peers
    /\ DOMAIN jobs = Peers
    /\ DOMAIN wire = Peers /\ wire = [q \in Peers |-> wire[q]]
    /\ client \in [Clients -> {"new", "sending", "waiting", "answered", "timeout", "gone"}]
    /\ chan \in [Clients -> Nat]
    /\ \A c \in Clients : answers[c] \subseteq Frames
    /\ fetches \in [Clients -> Nat]

LifeInv == Types /\ Numbers /\ Tables /\ Leftovers
-----------------------------------------------------------------------------
(* Tables, windows and sequences.                                          *)

LEMMA PutIs ==
    ASSUME NEW f, NEW k, NEW v
    PROVE  /\ DOMAIN Put(f, k, v) = DOMAIN f \cup {k}
           /\ Put(f, k, v)[k] = v
           /\ \A x \in DOMAIN f : x # k => Put(f, k, v)[x] = f[x]
  BY DEF Put

LEMMA PutFinite ==
    ASSUME NEW f, NEW k, NEW v, IsFiniteSet(DOMAIN f)
    PROVE  IsFiniteSet(DOMAIN Put(f, k, v))
<1>1. IsFiniteSet(DOMAIN f \cup {k})
  BY FS_AddElement
<1>2. DOMAIN Put(f, k, v) = DOMAIN f \cup {k}
  BY DEF Put
<1> QED
  BY <1>1, <1>2

LEMMA OrderType ==
    ASSUME NEW S, IsFiniteSet(S), NEW q \in SetToSeqs(S)
    PROVE  q \in Seq(S)
<1>1. Cardinality(S) \in Nat
  BY FS_CardinalityType
<1>2. q \in [1 .. Cardinality(S) -> S]
  BY DEF SetToSeqs
<1> QED
  BY <1>1, <1>2

LEMMA PeersAre ==
    /\ Peers = {"offerer", "answerer"}
    /\ \A p \in Peers : Other(p) \in Peers /\ Other(p) # p /\ Other(Other(p)) = p
    /\ \A p \in Peers, q \in Peers : q # p => q = Other(p)
    /\ \A c : Home(c) \in Peers
  BY DEF Peers, Other, Home

(* What a pass of a retransmit_loop, and a response, leave alone.          *)
LEMMA PassKeeps ==
    ASSUME NEW p, NEW id, NEW due, RetransmitPass(p, id, due) \/ LastPass(p, id, due)
    PROVE  UNCHANGED <<phase, nextId, client, chan, answers, fetches>>
<1>1. ASSUME NEW ch, Resends(p, ch, due)
      PROVE  UNCHANGED <<phase, nextId, client, chan, answers, fetches>>
  BY <1>1 DEF Resends, exchange
<1> QED
  BY <1>1 DEF RetransmitPass, LastPass

LEMMA RespondKeeps ==
    ASSUME NEW p, NEW j, NEW ok, Respond(p, j, ok)
    PROVE  UNCHANGED <<phase, nextId, client, chan, answers, fetches>>
  BY DEF Respond, exchange

(* What p sends reaches the other peer only.                               *)
LEMMA WiresType ==
    ASSUME DOMAIN wire = Peers, NEW V, NEW p \in Peers,
           \A q \in Peers : wire[q] \in Seq(V[q]),
           NEW in \in Seq(V[p]), NEW out \in Seq(V[Other(p)])
    PROVE  /\ DOMAIN Wires(p, in, out) = Peers
           /\ \A q \in Peers : Wires(p, in, out)[q] \in Seq(V[q])
<1>1. ASSUME NEW q \in Peers
      PROVE  Wires(p, in, out)[q] \in Seq(V[q])
  <2>1. CASE q = p
    BY <2>1 DEF Wires
  <2>2. CASE q # p
    <3>1. q = Other(p)
      BY <2>2, PeersAre
    <3>2. wire[q] \in Seq(V[q]) /\ wire[q] \o out \in Seq(V[q])
      BY <3>1
    <3> QED
      BY <2>2, <3>2 DEF Wires
  <2> QED
    BY <2>1, <2>2
<1> QED
  BY <1>1 DEF Wires
-----------------------------------------------------------------------------
(* A channel.                                                              *)

LEMMA SendingIs ==
    ASSUME NEW ch, IsRecord(ch), NEW f, NEW new, new = Sending(ch, f)
    PROVE  /\ IsRecord(new)
           /\ new.onMessage = ch.onMessage
           /\ new.loop = ch.loop
           /\ new.sendSeq = ch.sendSeq + 1
           /\ new.window = Put(ch.window, f, 0)
           /\ new.recvNext = ch.recvNext
  BY DEF Sending, IsRecord

(* A frame is sent.                                                        *)
LEMMA SendOK ==
    ASSUME NEW id, NEW ch, NEW js, NEW awaited, NEW js2, NEW awaited2, NEW valid, NEW given,
           ChannelOK(id, ch, js, awaited, valid, given), valid \subseteq Frames,
           ch.sendSeq <= 1,
           NEW f \in valid, f.seq = ch.sendSeq,
           NEW new, IsRecord(new),
           new.onMessage = ch.onMessage, new.loop \in {"on", "last", "off"},
           new.recvNext = ch.recvNext, new.sendSeq = ch.sendSeq + 1,
           new.window = Put(ch.window, f, 0),
           FinDue(new, awaited2) /\ ReplyDue(id, new, js2) => FALSE,
           FinDue(new, awaited2) \/ ReplyDue(id, new, js2) => ch.sendSeq = 0
    PROVE  ChannelOK(id, new, js2, awaited2, valid, given)
<1>1. /\ id \in given /\ IsChannel(ch) /\ IsFiniteSet(DOMAIN ch.window)
      /\ DOMAIN ch.window \subseteq valid
  BY DEF ChannelOK
<1>2. ch.sendSeq \in 0 .. 2 /\ MaxRetransmits \in Nat
  BY <1>1, LifeAssumption DEF IsChannel
<1>3. /\ DOMAIN new.window = DOMAIN ch.window \cup {f}
      /\ new.window[f] = 0
      /\ \A g \in DOMAIN ch.window : g # f => new.window[g] = ch.window[g]
      /\ IsFiniteSet(DOMAIN new.window)
  <2> DEFINE w == ch.window
             w2 == Put(w, f, 0)
  <2>1. /\ DOMAIN w2 = DOMAIN w \cup {f}
        /\ w2[f] = 0
        /\ \A g \in DOMAIN w : g # f => w2[g] = w[g]
    BY DEF Put
  <2>2. IsFiniteSet(DOMAIN w2)
    BY <1>1, PutFinite
  <2> QED
    BY <2>1, <2>2
<1>4. IsChannel(new)
  <2>1. ASSUME NEW g \in DOMAIN new.window
        PROVE  g.seq < new.sendSeq /\ new.window[g] \in 0 .. MaxRetransmits
    <3>1. CASE g = f
      BY <1>2, <1>3, <3>1
    <3>2. CASE g # f
      <4>1. g \in DOMAIN ch.window /\ g \in Frames
        BY <1>1, <1>3, <3>2
      <4>2. g.seq < ch.sendSeq /\ ch.window[g] \in 0 .. MaxRetransmits /\ g.seq \in Nat
        BY <1>1, <4>1 DEF IsChannel, Frames
      <4> QED
        BY <1>2, <1>3, <3>2, <4>1, <4>2
    <3> QED
      BY <3>1, <3>2
  <2>2. DOMAIN new.window \subseteq Frames
    BY <1>1, <1>3
  <2>3. {new.sendSeq, new.recvNext} \subseteq 0 .. 2
    BY <1>1, <1>2 DEF IsChannel
  <2> QED
    BY <1>1, <2>1, <2>2, <2>3 DEF IsChannel
<1>5. Budget(id, new, js2, awaited2)
  BY <1>2 DEF Budget
<1> QED
  BY <1>1, <1>3, <1>4, <1>5 DEF ChannelOK

(* What happens to a channel otherwise: its window loses frames or counts  *)
(* retries, it has less to send, or the next frame has come.               *)
LEMMA StayOK ==
    ASSUME NEW id, NEW ch, NEW js, NEW awaited, NEW js2, NEW awaited2, NEW valid, NEW given,
           ChannelOK(id, ch, js, awaited, valid, given),
           NEW new, IsRecord(new),
           new.onMessage = ch.onMessage, new.loop \in {"on", "last", "off"},
           new.recvNext \in 0 .. 2, new.sendSeq = ch.sendSeq,
           DOMAIN new.window \subseteq DOMAIN ch.window,
           \A f \in DOMAIN new.window : new.window[f] \in 0 .. MaxRetransmits,
           FinDue(new, awaited2) => FinDue(ch, awaited),
           ReplyDue(id, new, js2) => ReplyDue(id, ch, js)
    PROVE  ChannelOK(id, new, js2, awaited2, valid, given)
<1>1. /\ id \in given /\ IsChannel(ch) /\ IsFiniteSet(DOMAIN ch.window)
      /\ DOMAIN ch.window \subseteq valid
      /\ Budget(id, ch, js, awaited)
  BY DEF ChannelOK
<1>2. IsFiniteSet(DOMAIN new.window)
  BY <1>1, FS_Subset
<1>3. IsChannel(new)
  BY <1>1 DEF IsChannel
<1>4. Budget(id, new, js2, awaited2)
  BY <1>1 DEF Budget
<1> QED
  BY <1>1, <1>2, <1>3, <1>4 DEF ChannelOK

LEMMA NewChannelOK ==
    ASSUME NEW id, NEW js, NEW awaited, NEW valid, NEW given, id \in given,
           NEW h \in {"none", "future", "dispatch"}
    PROVE  ChannelOK(id, NewChannel(h), js, awaited, valid, given)
<1> DEFINE ch == NewChannel(h)
<1>1. /\ IsRecord(ch)
      /\ ch.onMessage = h /\ ch.loop = "on" /\ ch.sendSeq = 0 /\ ch.recvNext = 0
      /\ DOMAIN ch.window = {}
  BY DEF NewChannel, IsRecord
<1> HIDE DEF ch
<1>2. IsChannel(ch) /\ Budget(id, ch, js, awaited)
  BY <1>1 DEF IsChannel, Budget
<1>3. IsFiniteSet(DOMAIN ch.window) /\ DOMAIN ch.window \subseteq valid
  BY <1>1, FS_EmptySet
<1>4. ChannelOK(id, ch, js, awaited, valid, given)
  BY <1>1, <1>2, <1>3 DEF ChannelOK
<1> QED
  BY <1>4 DEF ch

(* The FIN of a channel may be sent.                                       *)
FinsIn(valid, given) ==
    \A id \in given : \A s \in 0 .. 1 : Frame("fin", id, s, CHOOSE c \in Clients : TRUE, TRUE) \in valid

(* close() uses up what was kept for FIN.                                  *)
LEMMA ClosedOK ==
    ASSUME NEW id, NEW ch, NEW js, NEW awaited, NEW valid, NEW given,
           ChannelOK(id, ch, js, awaited, valid, given), valid \subseteq Frames,
           FinsIn(valid, given), FinDue(ch, awaited)
    PROVE  /\ ChannelOK(id, Closed(id, ch), js, FALSE, valid, given)
           /\ Closed(id, ch).onMessage = ch.onMessage
           /\ Closed(id, ch).recvNext = ch.recvNext
           /\ Fin(id, ch) \in valid
<1> DEFINE f == Fin(id, ch)
           mid == Sending(ch, f)
           new == Closed(id, ch)
<1>1. /\ id \in given /\ IsRecord(ch) /\ IsChannel(ch) /\ Budget(id, ch, js, awaited)
  BY DEF ChannelOK
<1>2. ch.sendSeq \in 0 .. 2 /\ ch.sendSeq <= 1 /\ ch.loop \in {"on", "last", "off"}
  BY <1>1 DEF IsChannel, Budget
<1>3. f \in valid /\ f.seq = ch.sendSeq
  <2>1. ch.sendSeq \in 0 .. 1
    BY <1>2
  <2> QED
    BY <1>1, <2>1 DEF FinsIn, Fin, Frame
<1>4. /\ IsRecord(mid)
      /\ mid.onMessage = ch.onMessage
      /\ mid.loop = ch.loop
      /\ mid.sendSeq = ch.sendSeq + 1
      /\ mid.window = Put(ch.window, f, 0)
      /\ mid.recvNext = ch.recvNext
  BY <1>1, SendingIs
<1>5. new = [mid EXCEPT !.loop = IF @ = "on" THEN "last" ELSE @]
  BY DEF Closed
<1> HIDE DEF f, mid, new
<1>6. /\ IsRecord(new)
      /\ new.onMessage = ch.onMessage
      /\ new.loop \in {"last", "off"}
      /\ new.sendSeq = ch.sendSeq + 1
      /\ new.window = Put(ch.window, f, 0)
      /\ new.recvNext = ch.recvNext
  BY <1>2, <1>4, <1>5 DEF IsRecord
<1>7. ~ FinDue(new, FALSE) /\ (ReplyDue(id, new, js) => ch.sendSeq = 0)
  BY <1>1, <1>6 DEF FinDue, ReplyDue, Budget
<1>8. ChannelOK(id, new, js, FALSE, valid, given)
  BY <1>2, <1>3, <1>6, <1>7, SendOK
<1> QED
  BY <1>3, <1>6, <1>8 DEF new, f
-----------------------------------------------------------------------------
(* A table.                                                                *)

LEMMA TableGrows ==
    ASSUME NEW table, NEW js, NEW cl, NEW b, NEW V, NEW G, TableOK(table, js, cl, b, V, G),
           NEW V2, NEW G2, V \subseteq V2, G \subseteq G2
    PROVE  TableOK(table, js, cl, b, V2, G2)
<1>1. \A id \in DOMAIN table :
        ChannelOK(id, table[id], js, cl /\ b = id, V, G)
        => ChannelOK(id, table[id], js, cl /\ b = id, V2, G2)
  BY DEF ChannelOK
<1> QED
  BY <1>1 DEF TableOK

(* A channel is as good with fewer jobs, or after its close() was awaited. *)
LEMMA SameChannelOK ==
    ASSUME NEW id, NEW ch, NEW js, NEW awaited, NEW js2, NEW awaited2, NEW valid, NEW given,
           ChannelOK(id, ch, js, awaited, valid, given),
           awaited2 => awaited,
           ReplyDue(id, ch, js2) => ReplyDue(id, ch, js)
    PROVE  ChannelOK(id, ch, js2, awaited2, valid, given)
  BY DEF ChannelOK, Budget, FinDue

(* One channel of a table is changed or added.                             *)
Changed(table, id, t2) ==
    /\ DOMAIN t2 = DOMAIN table \cup {id}
    /\ \A x \in DOMAIN table : x # id => t2[x] = table[x]

SameHandler(table, id, t2) ==
    id \in DOMAIN table =>
      /\ t2[id].onMessage = table[id].onMessage
      /\ table[id].recvNext # 0 => t2[id].recvNext # 0

LEMMA ChangedFinite ==
    ASSUME NEW table, NEW id, NEW t2, Changed(table, id, t2), IsFiniteSet(DOMAIN table)
    PROVE  IsFiniteSet(DOMAIN t2)
<1>1. IsFiniteSet(DOMAIN table \cup {id})
  BY FS_AddElement
<1> QED
  BY <1>1 DEF Changed

LEMMA TableUpdate ==
    ASSUME NEW table, NEW js, NEW cl, NEW b, NEW V, NEW G, TableOK(table, js, cl, b, V, G),
           NEW id, NEW t2, Changed(table, id, t2), SameHandler(table, id, t2),
           NEW awaited, ChannelOK(id, t2[id], js, awaited, V, G),
           NEW cl2, cl2 => cl, cl2 /\ b = id => awaited
    PROVE  TableOK(t2, js, cl2, b, V, G)
<1>1. IsFiniteSet(DOMAIN t2)
  BY ChangedFinite DEF TableOK
<1>2. ASSUME NEW x \in DOMAIN t2
      PROVE  ChannelOK(x, t2[x], js, cl2 /\ b = x, V, G)
  <2>1. CASE x = id
    <3>1. ChannelOK(id, t2[id], js, cl2 /\ b = id, V, G)
      BY SameChannelOK
    <3> QED
      BY <2>1, <3>1
  <2>2. CASE x # id
    <3>1. x \in DOMAIN table /\ t2[x] = table[x]
      BY <2>2 DEF Changed
    <3>2. ChannelOK(x, table[x], js, cl /\ b = x, V, G)
      BY <3>1 DEF TableOK
    <3>3. ChannelOK(x, table[x], js, cl2 /\ b = x, V, G)
      BY <3>2, SameChannelOK
    <3> QED
      BY <3>1, <3>3
  <2> QED
    BY <2>1, <2>2
<1>3. JobsOK(t2, js)
  BY DEF TableOK, JobsOK, Changed, SameHandler
<1>4. cl2 => b \in DOMAIN t2
  BY DEF TableOK, Changed
<1> QED
  BY <1>1, <1>2, <1>3, <1>4 DEF TableOK

LEMMA TableFewerJobs ==
    ASSUME NEW table, NEW js, NEW cl, NEW b, NEW V, NEW G, TableOK(table, js, cl, b, V, G),
           NEW js2 \in SUBSET js
    PROVE  TableOK(table, js2, cl, b, V, G)
<1>1. ASSUME NEW x \in DOMAIN table
      PROVE  ChannelOK(x, table[x], js2, cl /\ b = x, V, G)
  <2>1. ChannelOK(x, table[x], js, cl /\ b = x, V, G)
    BY DEF TableOK
  <2>2. ReplyDue(x, table[x], js2) => ReplyDue(x, table[x], js)
    BY DEF ReplyDue
  <2> QED
    BY <2>1, <2>2, SameChannelOK
<1>2. JobsOK(table, js2)
  BY DEF TableOK, JobsOK
<1> QED
  BY <1>1, <1>2 DEF TableOK

LEMMA EmptyTableOK ==
    ASSUME NEW b, NEW V, NEW G
    PROVE  TableOK([id \in {} |-> 0], {}, FALSE, b, V, G)
<1> DEFINE t == [id \in {} |-> 0]
<1>1. DOMAIN t = {}
  OBVIOUS
<1> HIDE DEF t
<1>2. TableOK(t, {}, FALSE, b, V, G)
  BY <1>1, FS_EmptySet DEF TableOK, JobsOK
<1> QED
  BY <1>2 DEF t

(* The jobs go on without the table that listed them.                      *)
LEMMA TableRelisted ==
    ASSUME NEW table, NEW js, NEW b, NEW V, NEW G, TableOK(table, js, FALSE, b, V, G),
           js \subseteq Job,
           NEW js2, js2 = {[j EXCEPT !.listed = FALSE] : j \in js}
    PROVE  TableOK(table, js2, FALSE, b, V, G)
<1>1. ASSUME NEW k \in js2
      PROVE  \E j \in js : k = [j EXCEPT !.listed = FALSE] /\ k.ch = j.ch
  BY DEF Job
<1>2. ASSUME NEW x \in DOMAIN table
      PROVE  ChannelOK(x, table[x], js2, FALSE /\ b = x, V, G)
  <2>1. ChannelOK(x, table[x], js, FALSE /\ b = x, V, G)
    BY DEF TableOK
  <2>2. ReplyDue(x, table[x], js2) => ReplyDue(x, table[x], js)
    BY <1>1 DEF ReplyDue
  <2> QED
    BY <2>1, <2>2, SameChannelOK
<1>3. ASSUME NEW k \in js2
      PROVE  /\ k.ch \in DOMAIN table
             /\ table[k.ch].onMessage = "dispatch"
             /\ table[k.ch].recvNext # 0
  BY <1>1 DEF TableOK, JobsOK
<1>4. ASSUME NEW k \in js2, NEW l \in js2, k.ch = l.ch
      PROVE  k = l
  <2>1. PICK i \in js : k = [i EXCEPT !.listed = FALSE] /\ k.ch = i.ch
    BY <1>1
  <2>2. PICK j \in js : l = [j EXCEPT !.listed = FALSE] /\ l.ch = j.ch
    BY <1>1
  <2>3. i = j
    BY <1>4, <2>1, <2>2 DEF TableOK, JobsOK
  <2> QED
    BY <2>1, <2>2, <2>3
<1> QED
  BY <1>2, <1>3, <1>4 DEF TableOK, JobsOK

(* The first frame of a channel starts its job.                            *)
LEMMA TableNewJob ==
    ASSUME NEW table, NEW js, NEW cl, NEW b, NEW V, NEW G, TableOK(table, js, cl, b, V, G),
           NEW id, NEW job, job.ch = id, \A j \in js : j.ch # id,
           NEW new, ChannelOK(id, new, js \cup {job}, cl /\ b = id, V, G),
           new.onMessage = "dispatch", new.recvNext # 0,
           NEW t2, Changed(table, id, t2), t2[id] = new
    PROVE  TableOK(t2, js \cup {job}, cl, b, V, G)
<1> DEFINE js2 == js \cup {job}
<1>1. IsFiniteSet(DOMAIN t2)
  BY ChangedFinite DEF TableOK
<1>2. ASSUME NEW x \in DOMAIN t2
      PROVE  ChannelOK(x, t2[x], js2, cl /\ b = x, V, G)
  <2>1. CASE x = id
    BY <2>1
  <2>2. CASE x # id
    <3>1. x \in DOMAIN table /\ t2[x] = table[x]
      BY <2>2 DEF Changed
    <3>2. ChannelOK(x, table[x], js, cl /\ b = x, V, G)
      BY <3>1 DEF TableOK
    <3>3. ReplyDue(x, table[x], js2) => ReplyDue(x, table[x], js)
      BY <2>2 DEF ReplyDue
    <3>4. ChannelOK(x, table[x], js2, cl /\ b = x, V, G)
      BY <3>2, <3>3, SameChannelOK
    <3> QED
      BY <3>1, <3>4
  <2> QED
    BY <2>1, <2>2
<1>3. JobsOK(t2, js2)
  <2>1. \A j \in js : j.ch # id /\ j.ch \in DOMAIN table
    BY DEF TableOK, JobsOK
  <2> QED
    BY <2>1 DEF TableOK, JobsOK, Changed
<1>4. cl => b \in DOMAIN t2
  BY DEF TableOK, Changed
<1> QED
  BY <1>1, <1>2, <1>3, <1>4 DEF TableOK
-----------------------------------------------------------------------------
(* close_all.                                                              *)

FinsOf(table, order) == [i \in DOMAIN order |-> Fin(order[i], table[order[i]])]

(* The FINs of a set of channels of a table.                               *)
LEMMA FinsType ==
    ASSUME NEW table, NEW V, NEW S \in SUBSET DOMAIN table, IsFiniteSet(DOMAIN table),
           \A id \in S : Fin(id, table[id]) \in V,
           NEW order \in SetToSeqs(S)
    PROVE  FinsOf(table, order) \in Seq(V)
<1>1. order \in Seq(S)
  BY FS_Subset, OrderType
<1>2. /\ DOMAIN order = 1 .. Len(order) /\ Len(order) \in Nat
      /\ \A i \in DOMAIN order : order[i] \in S
  BY <1>1
<1>3. FinsOf(table, order) \in [1 .. Len(order) -> V]
  BY <1>2 DEF FinsOf
<1> QED
  BY <1>2, <1>3

(* close_all blocks at b: the channels before it are closed.               *)
LEMMA BlockedTableOK ==
    ASSUME NEW table, NEW js, NEW a, NEW V, NEW G, TableOK(table, js, FALSE, a, V, G),
           V \subseteq Frames, FinsIn(V, G),
           NEW b \in DOMAIN table, NEW before \in SUBSET DOMAIN table, b \notin before,
           table[b].loop = "on", \A id \in before : table[id].loop = "on",
           NEW t2, t2 = [id \in DOMAIN table |->
                           IF id \in before THEN Closed(id, table[id])
                           ELSE IF id = b THEN [table[id] EXCEPT !.loop = "last"] ELSE table[id]]
    PROVE  TableOK(t2, js, TRUE, b, V, G)
<1>1. DOMAIN t2 = DOMAIN table /\ IsFiniteSet(DOMAIN table)
  BY DEF TableOK
<1>2. ASSUME NEW id \in DOMAIN table
      PROVE  /\ ChannelOK(id, t2[id], js, b = id, V, G)
             /\ t2[id].onMessage = table[id].onMessage
             /\ t2[id].recvNext = table[id].recvNext
  <2>1. ChannelOK(id, table[id], js, FALSE, V, G)
    <3>1. ChannelOK(id, table[id], js, FALSE /\ a = id, V, G)
      BY DEF TableOK
    <3>2. (FALSE /\ a = id) = FALSE
      OBVIOUS
    <3> QED
      BY <3>1, <3>2
  <2>2. CASE id \in before
    <3>1. /\ ChannelOK(id, Closed(id, table[id]), js, FALSE, V, G)
          /\ Closed(id, table[id]).onMessage = table[id].onMessage
          /\ Closed(id, table[id]).recvNext = table[id].recvNext
      BY <2>1, <2>2, ClosedOK DEF FinDue
    <3>2. (b = id) = FALSE
      BY <2>2
    <3> QED
      BY <2>2, <3>1, <3>2
  <2>3. CASE id = b
    <3> DEFINE ch == table[id]
               new == [ch EXCEPT !.loop = "last"]
    <3>1. IsRecord(ch) /\ IsChannel(ch)
      BY <2>1 DEF ChannelOK
    <3>2. /\ IsRecord(new) /\ new.loop = "last"
          /\ new.onMessage = ch.onMessage /\ new.recvNext = ch.recvNext
          /\ new.sendSeq = ch.sendSeq /\ new.window = ch.window
      BY <3>1 DEF IsRecord
    <3>3. t2[id] = new /\ ch.loop = "on"
      BY <2>3
    <3> HIDE DEF ch, new
    <3>4. new.recvNext \in 0 .. 2 /\ \A f \in DOMAIN new.window : new.window[f] \in 0 .. MaxRetransmits
      BY <3>1, <3>2 DEF IsChannel
    <3>5. FinDue(ch, FALSE) /\ (ReplyDue(id, new, js) => ReplyDue(id, ch, js))
      BY <3>2, <3>3 DEF FinDue, ReplyDue
    <3>6. ChannelOK(id, ch, js, FALSE, V, G)
      BY <2>1 DEF ch
    <3>7. ChannelOK(id, new, js, b = id, V, G)
      BY <3>2, <3>4, <3>5, <3>6, StayOK
    <3> QED
      BY <3>2, <3>3, <3>7 DEF ch
  <2>4. CASE id \notin before /\ id # b
    <3>1. (b = id) = FALSE /\ t2[id] = table[id]
      BY <2>4
    <3> QED
      BY <2>1, <3>1
  <2> QED
    BY <2>2, <2>3, <2>4
<1>3. JobsOK(t2, js)
  BY <1>1, <1>2 DEF TableOK, JobsOK
<1>4. \A id \in DOMAIN t2 : ChannelOK(id, t2[id], js, TRUE /\ b = id, V, G)
  <2> SUFFICES ASSUME NEW id \in DOMAIN t2
               PROVE  ChannelOK(id, t2[id], js, TRUE /\ b = id, V, G)
    OBVIOUS
  <2>1. (TRUE /\ b = id) = (b = id)
    OBVIOUS
  <2> QED
    BY <1>1, <1>2, <2>1
<1> QED
  BY <1>1, <1>3, <1>4 DEF TableOK

(* close_all is through: all channels are closed.                          *)
LEMMA ClosedTableOK ==
    ASSUME NEW table, NEW js, NEW a, NEW V, NEW G, TableOK(table, js, FALSE, a, V, G),
           V \subseteq Frames, FinsIn(V, G),
           NEW S \in SUBSET DOMAIN table, \A id \in S : table[id].loop = "on",
           NEW t2, t2 = [id \in DOMAIN table |-> IF id \in S THEN Closed(id, table[id]) ELSE table[id]]
    PROVE  TableOK(t2, js, FALSE, 0, V, G)
<1>1. DOMAIN t2 = DOMAIN table /\ IsFiniteSet(DOMAIN table)
  BY DEF TableOK
<1>2. ASSUME NEW id \in DOMAIN table
      PROVE  /\ ChannelOK(id, t2[id], js, FALSE, V, G)
             /\ t2[id].onMessage = table[id].onMessage
             /\ t2[id].recvNext = table[id].recvNext
  <2>1. ChannelOK(id, table[id], js, FALSE, V, G)
    <3>1. ChannelOK(id, table[id], js, FALSE /\ a = id, V, G)
      BY DEF TableOK
    <3>2. (FALSE /\ a = id) = FALSE
      OBVIOUS
    <3> QED
      BY <3>1, <3>2
  <2>2. CASE id \in S
    <3>1. /\ ChannelOK(id, Closed(id, table[id]), js, FALSE, V, G)
          /\ Closed(id, table[id]).onMessage = table[id].onMessage
          /\ Closed(id, table[id]).recvNext = table[id].recvNext
      BY <2>1, <2>2, ClosedOK DEF FinDue
    <3> QED
      BY <2>2, <3>1
  <2>3. CASE id \notin S
    BY <2>1, <2>3
  <2> QED
    BY <2>2, <2>3
<1>3. JobsOK(t2, js)
  BY <1>1, <1>2 DEF TableOK, JobsOK
<1>4. ASSUME NEW id \in DOMAIN t2
      PROVE  ChannelOK(id, t2[id], js, FALSE /\ 0 = id, V, G)
  <2>1. (FALSE /\ 0 = id) = FALSE
    OBVIOUS
  <2> QED
    BY <1>1, <1>2, <2>1
<1> QED
  BY <1>1, <1>3, <1>4 DEF TableOK

(* What a run of close_all up to its next await does to its peer.          *)
ClosesOn(p, table, out, V, G) ==
    /\ DOMAIN channels' = Peers /\ DOMAIN jobs' = Peers
    /\ \A q \in Peers : q # p => /\ phase'[q] = phase[q] /\ channels'[q] = channels[q]
                                /\ at'[q] = at[q] /\ jobs'[q] = jobs[q]
    /\ phase'[p] \in {"closing", "leaving"}
    /\ at'[p] \in [id : {0} \cup DOMAIN table, woken : BOOLEAN]
    /\ jobs'[p] \in {jobs[p], {[j EXCEPT !.listed = FALSE] : j \in jobs[p]}}
    /\ TableOK(channels'[p], Listed(jobs'[p]), phase'[p] = "closing", at'[p].id, V, G)
    /\ \/ /\ phase'[p] = "leaving"
          /\ TableOK(cleared'[p], Unlisted(jobs'[p]), FALSE, 0, V, G)
          /\ \A q \in Peers : q # p => cleared'[q] = cleared[q]
       \/ phase'[p] = "closing" /\ UNCHANGED <<cleared, jobs>>
    /\ \E fins \in Seq(V) : Emit(p, out \o fins)

LEMMA CloseOnOK ==
    ASSUME Types, NEW p \in Peers, jobs[p] \subseteq Job, Unlisted(jobs[p]) = {},
           NEW table, NEW out, CloseOn(p, table, out),
           NEW V, NEW G, NEW a, TableOK(table, Listed(jobs[p]), FALSE, a, V, G),
           V \subseteq Frames, FinsIn(V, G), out \in Seq(V)
    PROVE  ClosesOn(p, table, out, V, G)
<1> USE DEF ClosesOn
<1> DEFINE open == {id \in DOMAIN table : table[id].loop = "on"}
           Finishes ==
             /\ phase' = [phase EXCEPT ![p] = "leaving"]
             /\ channels' = [channels EXCEPT ![p] = [id \in {} |-> 0]]
             /\ cleared' = [cleared EXCEPT ![p] =
                  [id \in DOMAIN table |-> IF id \in open THEN Closed(id, table[id]) ELSE table[id]]]
             /\ jobs' = [jobs EXCEPT ![p] = {[j EXCEPT !.listed = FALSE] : j \in @}]
             /\ at' = [at EXCEPT ![p] = [id |-> 0, woken |-> FALSE]]
             /\ \E order \in SetToSeqs(open) : Emit(p, out \o FinsOf(table, order))
           Waits(b, before) ==
             /\ phase' = [phase EXCEPT ![p] = "closing"]
             /\ channels' = [channels EXCEPT ![p] =
                  [id \in DOMAIN table |->
                     IF id \in before THEN Closed(id, table[id])
                     ELSE IF id = b THEN [table[id] EXCEPT !.loop = "last"] ELSE table[id]]]
             /\ at' = [at EXCEPT ![p] = [id |-> b, woken |-> FALSE]]
             /\ \E order \in SetToSeqs(before) : Emit(p, out \o FinsOf(table, order))
             /\ UNCHANGED <<cleared, jobs>>
<1>a. /\ DOMAIN channels = Peers /\ DOMAIN jobs = Peers /\ DOMAIN phase = Peers /\ DOMAIN at = Peers
      /\ DOMAIN cleared = Peers
  BY DEF Types
<1>b. IsFiniteSet(DOMAIN table)
  BY DEF TableOK
<1>c. \A id \in open : Fin(id, table[id]) \in V
  <2> SUFFICES ASSUME NEW id \in open
               PROVE  Fin(id, table[id]) \in V
    OBVIOUS
  <2>1. ChannelOK(id, table[id], Listed(jobs[p]), FALSE /\ a = id, V, G)
    BY DEF TableOK
  <2>2. FinDue(table[id], FALSE /\ a = id)
    BY DEF FinDue
  <2> QED
    BY <2>1, <2>2, ClosedOK
<1>1. Finishes \/ \E b \in open : \E before \in SUBSET (open \ {b}) : Waits(b, before)
  BY DEF CloseOn, FinsOf
<1>2. CASE Finishes
  <2>1. \E fins \in Seq(V) : Emit(p, out \o fins)
    BY <1>2, <1>b, <1>c, FinsType
  <2>2. jobs'[p] = {[j EXCEPT !.listed = FALSE] : j \in jobs[p]}
    BY <1>2, <1>a
  <2>3. TableOK([id \in {} |-> 0], Listed(jobs'[p]), FALSE, at'[p].id, V, G)
    <3>1. \A j \in Job : ~ [j EXCEPT !.listed = FALSE].listed
      BY DEF Job
    <3>2. Listed(jobs'[p]) = {}
      BY <2>2, <3>1 DEF Listed
    <3> QED
      BY <3>2, EmptyTableOK
  <2>4. channels'[p] = [id \in {} |-> 0] /\ (phase'[p] = "closing") = FALSE
    BY <1>2, <1>a
  <2>5. TableOK(cleared'[p], Unlisted(jobs'[p]), FALSE, 0, V, G)
    <3> DEFINE t2 == [id \in DOMAIN table |-> IF id \in open THEN Closed(id, table[id]) ELSE table[id]]
    <3>1. cleared'[p] = t2
      BY <1>2, <1>a
    <3>2. open \in SUBSET DOMAIN table /\ \A id \in open : table[id].loop = "on"
      OBVIOUS
    <3>3. TableOK(t2, Listed(jobs[p]), FALSE, 0, V, G)
      BY <3>2, ClosedTableOK
    <3>4. Listed(jobs[p]) = jobs[p]
      BY DEF Listed, Unlisted
    <3> HIDE DEF t2, open
    <3>5. TableOK(t2, jobs'[p], FALSE, 0, V, G)
      BY <2>2, <3>3, <3>4, TableRelisted
    <3>6. Unlisted(jobs'[p]) = jobs'[p]
      <4>1. ASSUME NEW k \in jobs'[p]
            PROVE  ~k.listed
        <5>1. PICK j \in jobs[p] : k = [j EXCEPT !.listed = FALSE]
          BY <2>2
        <5> QED
          BY <5>1 DEF Job
      <4> QED
        BY <4>1 DEF Unlisted
    <3> QED
      BY <3>1, <3>5, <3>6
  <2>6. phase'[p] = "leaving" /\ \A q \in Peers : q # p => cleared'[q] = cleared[q]
    BY <1>2, <1>a
  <2> QED
    BY <1>2, <1>a, <2>1, <2>2, <2>3, <2>4, <2>5, <2>6
<1>3. ASSUME NEW b \in open, NEW before \in SUBSET (open \ {b}), Waits(b, before)
      PROVE  /\ \A q \in Peers : q # p => /\ phase'[q] = phase[q] /\ channels'[q] = channels[q]
                                         /\ at'[q] = at[q] /\ jobs'[q] = jobs[q]
             /\ phase'[p] = "closing" /\ jobs'[p] = jobs[p] /\ UNCHANGED <<cleared, jobs>>
             /\ at'[p] \in [id : {0} \cup DOMAIN table, woken : BOOLEAN]
             /\ DOMAIN channels' = Peers /\ DOMAIN jobs' = Peers
             /\ TableOK(channels'[p], Listed(jobs'[p]), TRUE, at'[p].id, V, G)
             /\ \E fins \in Seq(V) : Emit(p, out \o fins)
  <2>1. /\ phase'[p] = "closing"
        /\ at'[p] = [id |-> b, woken |-> FALSE] /\ at'[p].id = b
        /\ jobs' = jobs
    BY <1>3, <1>a
  <2>2. before \in SUBSET DOMAIN table /\ b \in DOMAIN table /\ b \notin before
    OBVIOUS
  <2>3. \E fins \in Seq(V) : Emit(p, out \o fins)
    <3>1. \A id \in before : Fin(id, table[id]) \in V
      BY <1>c
    <3> QED
      BY <1>3, <1>b, <2>2, <3>1, FinsType
  <2>4. TableOK(channels'[p], Listed(jobs[p]), TRUE, b, V, G)
    <3> DEFINE t2 == [id \in DOMAIN table |->
                        IF id \in before THEN Closed(id, table[id])
                        ELSE IF id = b THEN [table[id] EXCEPT !.loop = "last"] ELSE table[id]]
    <3>1. channels'[p] = t2
      BY <1>3, <1>a
    <3>2. table[b].loop = "on" /\ \A id \in before : table[id].loop = "on"
      OBVIOUS
    <3>3. TableOK(t2, Listed(jobs[p]), TRUE, b, V, G)
      BY <2>2, <3>2, BlockedTableOK
    <3> QED
      BY <3>1, <3>3
  <2> QED
    BY <1>3, <1>a, <2>1, <2>2, <2>3, <2>4
<1> HIDE DEF open, Finishes, Waits
<1>4. CASE \E b \in open : \E before \in SUBSET (open \ {b}) : Waits(b, before)
  <2>1. (phase'[p] = "closing") = TRUE => (phase'[p] = "closing" <=> TRUE)
    OBVIOUS
  <2> QED
    BY <1>3, <1>4, <2>1
<1> QED
  BY <1>1, <1>2, <1>4
-----------------------------------------------------------------------------
(* Types.                                                                  *)

(* The keys of a table are numbers that were given out.                    *)
LEMMA OpenedType == Types => Opened \subseteq Nat
  BY DEF Types, Opened

LEMMA TableKeys ==
    ASSUME LifeInv, NEW p \in Peers
    PROVE  /\ DOMAIN channels[p] \subseteq Opened
           /\ DOMAIN channels[p] \subseteq Nat
           /\ IsFiniteSet(DOMAIN channels[p])
           /\ \A f \in ValidTo(p) : f \in Frames
           /\ \A j \in jobs[p] : j \in Job /\ j \in ValidJobs(p)
           /\ wire[p] \in Seq(ValidTo(p))
  BY OpenedType DEF LifeInv, Tables, TableOK, ChannelOK, ValidTo, ValidJobs

LEMMA CloseOnTypes ==
    ASSUME Types, NEW p \in Peers, NEW table, DOMAIN table \subseteq Nat, NEW out,
           CloseOn(p, table, out), UNCHANGED <<ready, nextId, client, chan, answers, fetches>>,
           size' \in [Peers -> Nat]
    PROVE  Types'
<1>1. /\ \E id \in DOMAIN table \cup {0} : at' = [at EXCEPT ![p] = [id |-> id, woken |-> FALSE]]
      /\ \E ph \in {"closing", "leaving"} : phase' = [phase EXCEPT ![p] = ph]
      /\ \E t : channels' = [channels EXCEPT ![p] = t]
      /\ cleared' = cleared \/ \E t : cleared' = [cleared EXCEPT ![p] = t]
      /\ jobs' = jobs \/ \E js : jobs' = [jobs EXCEPT ![p] = js]
      /\ \E o : Emit(p, o)
  BY DEF CloseOn
<1>2. at' \in [Peers -> [id : Nat, woken : BOOLEAN]]
  BY <1>1 DEF Types
<1>3. phase' \in [Peers -> {"connecting", "starting", "serving", "stopping",
                            "closing", "leaving", "over"}]
  BY <1>1 DEF Types
<1>4. /\ DOMAIN channels' = Peers /\ DOMAIN cleared' = Peers
      /\ DOMAIN jobs' = Peers /\ DOMAIN wire' = Peers
      /\ wire' = [q \in Peers |-> wire'[q]]
  BY <1>1 DEF Types, Emit, Wires
<1> QED
  BY <1>2, <1>3, <1>4 DEF Types

LEMMA EndsTypes ==
    ASSUME Types, NEW p \in Peers, NEW out, Ends(p, out)
    PROVE  Types'
  BY DEF Ends, Types, Wires

LEMMA HandleRawTypes ==
    ASSUME LifeInv, NEW p \in Peers, HandleRaw(p)
    PROVE  Types'
<1> DEFINE f == Head(wire[p])
           ch == GetOrCreate(p, f.ch)
<1>1. f \in ValidTo(p) /\ f \in Frames
  BY TableKeys DEF HandleRaw
<1>2. f.req \in Clients
  BY <1>1 DEF Frames
<1>3. HandleAck(p, ch, f) \/ (HandleData(p, ch, f) /\ IsData(f)) \/ HandleFin(p, ch, f)
  BY DEF HandleRaw
<1>4. UNCHANGED <<phase, ready, nextId, size, cleared, chan>>
  BY DEF HandleRaw
<1> HIDE DEF f, ch
<1>5. Types
  BY DEF LifeInv
<1>6. CASE HandleAck(p, ch, f)
  BY <1>4, <1>5, <1>6 DEF HandleAck, Types, Wires
<1>7. CASE HandleFin(p, ch, f)
  BY <1>4, <1>5, <1>7 DEF HandleFin, Types, Wires
<1>8. CASE HandleData(p, ch, f)
  <2>1. /\ DOMAIN wire' = Peers /\ DOMAIN channels' = Peers /\ UNCHANGED at
        /\ wire' = [q \in Peers |-> wire'[q]]
    BY <1>5, <1>8 DEF HandleData, Types, Wires
  <2>2. OnMessage(p, ch.onMessage, f) \/ UNCHANGED <<jobs, client, answers, fetches>>
    BY <1>8 DEF HandleData
  <2>3. CASE OnMessage(p, ch.onMessage, f)
    <3>1. client' \in [Clients -> {"new", "sending", "waiting", "answered", "timeout", "gone"}]
      BY <1>5, <2>3 DEF OnMessage, Types
    <3>2. \A c \in Clients : answers'[c] \subseteq Frames
      BY <1>1, <1>5, <2>3 DEF OnMessage, Types
    <3>3. DOMAIN jobs' = Peers /\ fetches' \in [Clients -> Nat]
      BY <1>2, <1>5, <2>3 DEF OnMessage, Types
    <3> QED
      BY <1>4, <1>5, <2>1, <3>1, <3>2, <3>3 DEF Types
  <2>4. CASE UNCHANGED <<jobs, client, answers, fetches>>
    BY <1>4, <1>5, <2>1, <2>4 DEF Types
  <2> QED
    BY <2>2, <2>3, <2>4
<1> QED
  BY <1>3, <1>6, <1>7, <1>8

LEMMA TypesStep == LifeInv /\ [Next]_vars => Types'
<1> SUFFICES ASSUME LifeInv, Types, [Next]_vars
             PROVE  Types'
  BY DEF LifeInv
<1> USE DEF exchange, closing
<1>1. ASSUME NEW c \in Clients, Request(c)
      PROVE  Types'
  <2>1. Home(c) \in Peers
    BY PeersAre
  <2> QED
    BY <1>1, <2>1 DEF Request, Types, Emit, Wires, Step
<1>2. ASSUME NEW c \in Clients, Timeout(c)
      PROVE  Types'
  BY <1>2 DEF Timeout, Types
<1>3. ASSUME NEW p \in Peers, Attach(p) \/ SetUp(p) \/ Stop(p)
      PROVE  Types'
  <2>1. \E to \in {"starting", "serving", "stopping"} : phase' = [phase EXCEPT ![p] = to]
    BY <1>3 DEF Attach, SetUp, Stop, Moves
  <2>2. UNCHANGED <<ready, nextId, channels, closing, jobs, wire, exchange, fetches>>
    BY <1>3 DEF Attach, SetUp, Stop
  <2> QED
    BY <2>1, <2>2 DEF Types
<1>4. ASSUME NEW p \in Peers, CloseAll(p)
      PROVE  Types'
  <2>1. Cardinality(DOMAIN channels[p]) \in Nat
    BY TableKeys, FS_CardinalityType
  <2>2. size' \in [Peers -> Nat] /\ CloseOn(p, channels[p], <<>>)
    BY <1>4, <2>1 DEF CloseAll, Types
  <2> QED
    BY <1>4, <2>2, TableKeys, CloseOnTypes DEF CloseAll
<1>5. ASSUME NEW p \in Peers, CloseResumes(p)
      PROVE  Types'
  <2> DEFINE id == at[p].id
             table == [channels[p] EXCEPT ![id] = Closed(id, channels[p][id])]
             fin == <<Fin(id, channels[p][id])>>
  <2>1. \/ Ends(p, fin)
        \/ CloseOn(p, table, fin) /\ UNCHANGED <<ready, nextId, size, exchange, fetches>>
    BY <1>5 DEF CloseResumes
  <2>2. DOMAIN table \subseteq Nat
    BY TableKeys
  <2>3. size \in [Peers -> Nat]
    BY DEF Types
  <2> HIDE DEF table, fin
  <2> QED
    BY <2>1, <2>2, <2>3, CloseOnTypes, EndsTypes
<1>6. ASSUME NEW p \in Peers, Leave(p)
      PROVE  Types'
  BY <1>6, EndsTypes DEF Leave
<1>7. ASSUME NEW p \in Peers, HandleRaw(p)
      PROVE  Types'
  BY <1>7, HandleRawTypes
<1>8. ASSUME NEW p \in Peers, Discard(p) \/ Disconnect(p)
      PROVE  Types'
  BY <1>8 DEF Discard, Disconnect, Types
<1>9. ASSUME NEW p \in Peers, NEW id, NEW due, RetransmitPass(p, id, due) \/ LastPass(p, id, due)
      PROVE  Types'
  BY <1>9 DEF RetransmitPass, LastPass, Resends, Emit, Wires, Types
<1>10. ASSUME NEW p \in Peers, NEW j, NEW ok, Respond(p, j, ok)
      PROVE  Types'
  BY <1>10 DEF Respond, Emit, Wires, Types
<1>11. CASE UNCHANGED vars
  BY <1>11 DEF vars, Types
<1> QED
  BY <1>1, <1>2, <1>3, <1>4, <1>5, <1>6, <1>7, <1>8, <1>9, <1>10, <1>11 DEF Next
-----------------------------------------------------------------------------
(* What has been given out and what has been done stays so.                *)

LEMMA OnMessageFacts ==
    ASSUME Types, NEW p, NEW handler, NEW f, OnMessage(p, handler, f)
    PROVE  /\ \A c \in Clients : client'[c] # "new" <=> client[c] # "new"
           /\ \A c \in Clients : fetches'[c] >= fetches[c]
<1>1. \A c \in Clients : client'[c] # "new" <=> client[c] # "new"
  BY DEF OnMessage, Types
<1>2. fetches' = fetches \/ fetches' = [fetches EXCEPT ![f.req] = @ + IF SessionOpen(p) THEN 1 ELSE 0]
  BY DEF OnMessage
<1>3. \A c \in Clients : fetches'[c] >= fetches[c]
  BY <1>2 DEF Types
<1> QED
  BY <1>1, <1>3

LEMMA StepFacts ==
    ASSUME Types, [Next]_vars
    PROVE  /\ \A c \in Clients : fetches'[c] >= fetches[c]
           /\ \A c \in Clients : Started(c) => client'[c] # "new" /\ chan'[c] = chan[c]
           /\ \/ \E c \in Clients : Request(c)
              \/ /\ UNCHANGED <<nextId, chan>>
                 /\ \A c \in Clients : client'[c] # "new" => Started(c)
<1> DEFINE Same == \A c \in Clients : client'[c] # "new" <=> client[c] # "new"
           More == \A c \in Clients : fetches'[c] >= fetches[c]
<1> USE DEF exchange, closing
<1>a. UNCHANGED client => Same
  OBVIOUS
<1>b. UNCHANGED fetches => More
  BY DEF Types
<1>1. ASSUME NEW c \in Clients, Request(c)
      PROVE  More /\ \A d \in Clients : Started(d) => client'[d] # "new" /\ chan'[d] = chan[d]
  BY <1>1, <1>b DEF Request, Started, Types
<1>2. ASSUME NEW c \in Clients, Timeout(c)
      PROVE  Same /\ More /\ UNCHANGED <<nextId, chan>>
  BY <1>2, <1>b DEF Timeout, Types
<1>3. ASSUME NEW p \in Peers, HandleRaw(p)
      PROVE  Same /\ More /\ UNCHANGED <<nextId, chan>>
  <2>1. \/ UNCHANGED <<client, fetches>>
        \/ \E h, f : OnMessage(p, h, f)
    BY <1>3 DEF HandleRaw, HandleAck, HandleData, HandleFin
  <2>2. UNCHANGED <<nextId, chan>>
    BY <1>3 DEF HandleRaw
  <2> QED
    BY <1>a, <1>b, <2>1, <2>2, OnMessageFacts
<1>4. ASSUME NEW p \in Peers, NEW out, Ends(p, out)
      PROVE  Same /\ More /\ UNCHANGED <<nextId, chan>>
  <2>1. Same
    BY <1>4 DEF Ends
  <2> QED
    BY <1>4, <1>b, <2>1 DEF Ends
<1>5. ASSUME NEW p \in Peers, CloseResumes(p)
      PROVE  Same /\ More /\ UNCHANGED <<nextId, chan>>
  <2>1. (\E out : Ends(p, out)) \/ UNCHANGED <<nextId, client, chan, fetches>>
    BY <1>5 DEF CloseResumes
  <2> QED
    BY <1>a, <1>b, <1>4, <2>1
<1>6. ASSUME NEW p \in Peers, Leave(p)
      PROVE  Same /\ More /\ UNCHANGED <<nextId, chan>>
  BY <1>4, <1>6 DEF Leave
<1>7. ASSUME \/ UNCHANGED vars
             \/ \E p \in Peers :
                  \/ Attach(p) \/ SetUp(p) \/ Stop(p) \/ CloseAll(p) \/ Discard(p) \/ Disconnect(p)
                  \/ \E id \in DOMAIN channels[p] :
                       \E due \in SUBSET DOMAIN channels[p][id].window : RetransmitPass(p, id, due)
                  \/ \E id \in DOMAIN cleared[p] :
                       \E due \in SUBSET DOMAIN cleared[p][id].window : LastPass(p, id, due)
                  \/ \E j \in jobs[p], ok \in BOOLEAN : Respond(p, j, ok)
      PROVE  Same /\ More /\ UNCHANGED <<nextId, chan>>
  <2>1. UNCHANGED <<nextId, client, chan, fetches>>
    BY <1>7, PassKeeps, RespondKeeps DEF vars, Attach, SetUp, Stop, CloseAll, Discard, Disconnect
  <2> QED
    BY <1>a, <1>b, <2>1
<1>8. Same => \A c \in Clients : Started(c) <=> client'[c] # "new"
  BY DEF Started
<1> HIDE DEF Same, More
<1>9. \/ \E c \in Clients : Request(c)
      \/ Same /\ More /\ UNCHANGED <<nextId, chan>>
  BY <1>2, <1>3, <1>5, <1>6, <1>7 DEF Next
<1> QED
  BY <1>1, <1>8, <1>9 DEF More

(* The sets the invariant is about grow.                                   *)
Grows ==
    /\ Opened \subseteq Opened'
    /\ \A q \in Peers : ValidTo(q) \subseteq ValidTo(q)' /\ ValidJobs(q) \subseteq ValidJobs(q)'

LEMMA StepGrows ==
    ASSUME Types, Types', [Next]_vars
    PROVE  Grows
<1>1. \A c \in Clients :
        /\ Started(c) => client'[c] # "new" /\ chan'[c] = chan[c]
        /\ fetches[c] >= 1 => fetches'[c] >= 1
  BY StepFacts DEF Types
<1>2. Opened \subseteq Opened'
  BY <1>1 DEF Opened, Started
<1>3. ASSUME NEW q \in Peers, NEW f \in ValidTo(q)
      PROVE  f \in ValidTo(q)'
  <2>1. f \in Frames /\ f.ch \in Opened' /\ f.req \in Clients
    BY <1>2 DEF ValidTo, Frames
  <2>2. /\ IsData(f) => client'[f.req] # "new" /\ f.ch = chan'[f.req]
        /\ f.type = "response" /\ f.ok => fetches'[f.req] >= 1
    BY <1>1, <2>1 DEF ValidTo
  <2> QED
    BY <2>1, <2>2 DEF ValidTo, Started
<1>4. ASSUME NEW q \in Peers, NEW j \in ValidJobs(q)
      PROVE  j \in ValidJobs(q)'
  <2>1. j \in Job /\ j.req \in Clients
    BY DEF ValidJobs, Job
  <2>2. /\ client'[j.req] # "new" /\ j.ch = chan'[j.req]
        /\ j.made => fetches'[j.req] >= 1
    BY <1>1, <2>1 DEF ValidJobs
  <2> QED
    BY <2>1, <2>2 DEF ValidJobs, Started
<1> QED
  BY <1>2, <1>3, <1>4 DEF Grows
-----------------------------------------------------------------------------
(* Numbers.                                                                *)

LEMMA OwnApart ==
    ASSUME NEW p \in Peers, NEW q \in Peers, NEW n \in Nat, Own(p, n), Own(q, n)
    PROVE  p = q
  BY DEF Own, FirstId, Step, Peers

LEMMA NumbersStep == LifeInv /\ [Next]_vars => Numbers'
<1> SUFFICES ASSUME Types, Numbers, [Next]_vars
             PROVE  Numbers'
  BY DEF LifeInv
<1>1. CASE \E c \in Clients : Request(c)
  <2>1. PICK c \in Clients : Request(c)
    BY <1>1
  <2> DEFINE p == Home(c)
             id == nextId[p]
  <2>2. p \in Peers /\ id \in Nat /\ Own(p, id) /\ \A q \in Peers : nextId[q] \in Nat
    BY PeersAre DEF Types, Numbers
  <2>3. /\ nextId' = [nextId EXCEPT ![p] = id + 2]
        /\ chan' = [chan EXCEPT ![c] = id]
        /\ client' = [client EXCEPT ![c] = IF ready[p] THEN "waiting" ELSE "sending"]
        /\ client[c] = "new"
    BY <2>1 DEF Request, Step
  <2>4. /\ nextId'[p] = id + 2
        /\ \A q \in Peers : q # p => nextId'[q] = nextId[q]
        /\ chan'[c] = id
        /\ \A d \in Clients : d # c => chan'[d] = chan[d] /\ client'[d] = client[d]
    BY <2>2, <2>3 DEF Types
  <2> HIDE DEF p, id
  <2>5. \A q \in Peers : Own(q, nextId'[q])
    <3>1. Own(p, id + 2)
      <4>1. PICK k \in 0 .. id : id = FirstId(p) + 2 * k
        BY <2>2 DEF Own, Step
      <4>2. k + 1 \in 0 .. id + 2 /\ id + 2 = FirstId(p) + 2 * (k + 1)
        BY <2>2, <4>1 DEF FirstId
      <4> QED
        BY <4>2 DEF Own, Step
    <3> QED
      BY <2>4, <3>1 DEF Numbers
  <2>6. ASSUME NEW d \in Clients, client'[d] # "new"
        PROVE  Own(Home(d), chan'[d]) /\ chan'[d] < nextId'[Home(d)] /\ (d # c => chan'[d] # id)
    <3>1. CASE d = c
      BY <2>2, <2>4, <3>1 DEF p
    <3>2. CASE d # c
      <4>1. Started(d) /\ chan'[d] = chan[d] /\ Home(d) \in Peers /\ chan[d] \in Nat
        BY <2>4, <2>6, <3>2, PeersAre DEF Started, Types
      <4>2. Own(Home(d), chan[d]) /\ chan[d] < nextId[Home(d)]
        BY <4>1 DEF Numbers
      <4>3. chan[d] < nextId'[Home(d)]
        BY <2>2, <2>4, <4>1, <4>2 DEF id
      <4>4. chan[d] # id
        <5>1. CASE Home(d) = p
          BY <2>2, <4>1, <4>2, <5>1 DEF id
        <5>2. CASE Home(d) # p
          BY <2>2, <4>1, <4>2, <5>2, OwnApart
        <5> QED
          BY <5>1, <5>2
      <4> QED
        BY <4>1, <4>2, <4>3, <4>4
    <3> QED
      BY <3>1, <3>2
  <2>7. ASSUME NEW d \in Clients, NEW e \in Clients, client'[d] # "new", client'[e] # "new",
               chan'[d] = chan'[e]
        PROVE  d = e
    <3>1. CASE d # c /\ e # c
      BY <2>4, <2>7, <3>1 DEF Numbers, Started
    <3>2. CASE d = c \/ e = c
      BY <2>4, <2>6, <2>7, <3>2
    <3> QED
      BY <3>1, <3>2
  <2> QED
    BY <2>5, <2>6, <2>7 DEF Numbers, Started, Own
<1>2. CASE UNCHANGED <<nextId, chan>> /\ \A c \in Clients : client'[c] # "new" => Started(c)
  BY <1>2 DEF Numbers, Started, Own
<1> QED
  BY <1>1, <1>2, StepFacts
-----------------------------------------------------------------------------
(* The tables.                                                             *)

LEMMA SeqGrows ==
    ASSUME NEW S, NEW T, S \subseteq T, NEW q \in Seq(S)
    PROVE  q \in Seq(T)
  OBVIOUS

(* The state before a step, by what is valid after it.                     *)
LEMMA TablesBefore ==
    ASSUME LifeInv, Types', Grows, NEW p \in Peers
    PROVE  /\ TableOK(channels[p], Listed(jobs[p]), phase[p] = "closing", at[p].id,
                      ValidTo(Other(p))', Opened')
           /\ TableOK(cleared[p], Unlisted(jobs[p]), FALSE, 0, ValidTo(Other(p))', Opened')
           /\ jobs[p] \subseteq ValidJobs(p)' /\ jobs[p] \subseteq Job
           /\ wire[p] \in Seq(ValidTo(p)')
           /\ ValidTo(p)' \subseteq Frames /\ ValidTo(Other(p))' \subseteq Frames
           /\ FinsIn(ValidTo(Other(p))', Opened')
<1>1. Other(p) \in Peers
  BY PeersAre
<1>2. TableOK(channels[p], Listed(jobs[p]), phase[p] = "closing", at[p].id, ValidTo(Other(p)), Opened)
  BY DEF LifeInv, Tables
<1>3. TableOK(channels[p], Listed(jobs[p]), phase[p] = "closing", at[p].id, ValidTo(Other(p))', Opened')
  BY <1>1, <1>2, TableGrows DEF Grows
<1>3a. TableOK(cleared[p], Unlisted(jobs[p]), FALSE, 0, ValidTo(Other(p))', Opened')
  BY <1>1, TableGrows DEF Grows, LifeInv, Leftovers
<1>4. wire[p] \in Seq(ValidTo(p)')
  BY SeqGrows DEF LifeInv, Tables, Grows
<1>5. jobs[p] \subseteq ValidJobs(p)' /\ jobs[p] \subseteq Job
  BY DEF LifeInv, Tables, Grows, ValidJobs
<1>6. ValidTo(p)' \subseteq Frames /\ ValidTo(Other(p))' \subseteq Frames
  BY DEF ValidTo
<1>7. ASSUME NEW id \in Opened', NEW s \in 0 .. 1
      PROVE  Frame("fin", id, s, CHOOSE c \in Clients : TRUE, TRUE) \in ValidTo(Other(p))'
  <2> DEFINE c == CHOOSE d \in Clients : TRUE
             f == Frame("fin", id, s, c, TRUE)
  <2>1. c \in Clients /\ id \in Nat
    BY OpenedType DEF Opened, Types
  <2> HIDE DEF c
  <2>2. f \in Frames
    BY <2>1 DEF Frame, Frames
  <2>3. f.type = "fin" /\ f.ch = id /\ f.seq = s
    BY DEF Frame
  <2> HIDE DEF f
  <2>4. f \in ValidTo(Other(p))'
    BY <2>2, <2>3 DEF ValidTo, IsData
  <2> QED
    BY <2>4 DEF f, c
<1> QED
  BY <1>3, <1>3a, <1>4, <1>5, <1>6, <1>7 DEF FinsIn

(* A step of one peer.                                                     *)
LEMMA TablesAfter ==
    ASSUME LifeInv, Types', Grows, NEW p \in Peers,
           \A q \in Peers :
             q # p => /\ channels'[q] = channels[q] /\ jobs'[q] = jobs[q]
                      /\ phase'[q] = phase[q] /\ at'[q] = at[q],
           jobs'[p] \subseteq ValidJobs(p)',
           TableOK(channels'[p], Listed(jobs'[p]), phase'[p] = "closing", at'[p].id,
                   ValidTo(Other(p))', Opened'),
           \A q \in Peers : wire'[q] \in Seq(ValidTo(q)')
    PROVE  Tables'
<1>1. ASSUME NEW q \in Peers
      PROVE  /\ jobs'[q] \subseteq ValidJobs(q)'
             /\ TableOK(channels'[q], Listed(jobs'[q]), phase'[q] = "closing", at'[q].id,
                        ValidTo(Other(q))', Opened')
  <2>1. CASE q = p
    BY <2>1
  <2>2. CASE q # p
    BY <2>2, TablesBefore
  <2> QED
    BY <2>1, <2>2
<1> QED
  BY <1>1 DEF Tables, TableOK, JobsOK, ChannelOK

LEMMA LeftoversAfter ==
    ASSUME LifeInv, Types', Grows, NEW p \in Peers,
           \A q \in Peers :
             q # p => /\ cleared'[q] = cleared[q] /\ Unlisted(jobs'[q]) = Unlisted(jobs[q])
                      /\ phase'[q] = phase[q],
           TableOK(cleared'[p], Unlisted(jobs'[p]), FALSE, 0, ValidTo(Other(p))', Opened'),
           phase'[p] # "leaving" => Unlisted(jobs'[p]) = {}
    PROVE  Leftovers'
<1>1. ASSUME NEW q \in Peers
      PROVE  /\ TableOK(cleared'[q], Unlisted(jobs'[q]), FALSE, 0, ValidTo(Other(q))', Opened')
             /\ phase'[q] # "leaving" => Unlisted(jobs'[q]) = {}
  <2>1. CASE q = p
    BY <2>1
  <2>2. CASE q # p
    <3>1. TableOK(cleared[q], Unlisted(jobs[q]), FALSE, 0, ValidTo(Other(q))', Opened')
      BY TablesBefore
    <3> QED
      BY <2>2, <3>1 DEF LifeInv, Leftovers
  <2> QED
    BY <2>1, <2>2
<1> QED
  BY <1>1 DEF Leftovers, TableOK, JobsOK, ChannelOK, Unlisted

(* A step that leaves them and their jobs alone.                           *)
LEMMA LeftoversSame ==
    ASSUME LifeInv, Types', Grows, cleared' = cleared,
           \A q \in Peers : Unlisted(jobs'[q]) = Unlisted(jobs[q]),
           \A q \in Peers : phase[q] = "leaving" => phase'[q] = "leaving"
    PROVE  Leftovers'
<1>1. ASSUME NEW q \in Peers
      PROVE  /\ TableOK(cleared'[q], Unlisted(jobs'[q]), FALSE, 0, ValidTo(Other(q))', Opened')
             /\ phase'[q] # "leaving" => Unlisted(jobs'[q]) = {}
  <2>1. TableOK(cleared[q], Unlisted(jobs[q]), FALSE, 0, ValidTo(Other(q))', Opened')
    BY TablesBefore
  <2>2. cleared'[q] = cleared[q] /\ Unlisted(jobs'[q]) = Unlisted(jobs[q])
    OBVIOUS
  <2> QED
    BY <2>1, <2>2 DEF LifeInv, Leftovers
<1> QED
  BY <1>1 DEF Leftovers, TableOK, JobsOK, ChannelOK, Unlisted

LEMMA WiresAfter ==
    ASSUME LifeInv, Types', Grows, NEW p \in Peers,
           NEW in \in Seq(ValidTo(p)'), NEW out \in Seq(ValidTo(Other(p))'),
           wire' = Wires(p, in, out)
    PROVE  \A q \in Peers : wire'[q] \in Seq(ValidTo(q)')
<1> DEFINE V == [q \in Peers |-> ValidTo(q)']
<1>1. Other(p) \in Peers /\ DOMAIN wire = Peers
  BY PeersAre DEF LifeInv, Types
<1>2. \A q \in Peers : V[q] = ValidTo(q)'
  OBVIOUS
<1>3. \A q \in Peers : wire[q] \in Seq(V[q])
  BY <1>2, TablesBefore
<1> HIDE DEF V
<1>4. in \in Seq(V[p]) /\ out \in Seq(V[Other(p)])
  BY <1>1, <1>2
<1>5. \A q \in Peers : Wires(p, in, out)[q] \in Seq(V[q])
  BY <1>1, <1>3, <1>4, WiresType
<1>6. ASSUME NEW q \in Peers
      PROVE  wire'[q] \in Seq(ValidTo(q)')
  <2>1. wire'[q] \in Seq(V[q])
    BY <1>5
  <2>2. V[q] = ValidTo(q)'
    BY <1>2
  <2> QED
    BY <2>1, <2>2
<1> QED
  BY <1>6

LEMMA EmitAfter ==
    ASSUME LifeInv, Types', Grows, NEW p \in Peers,
           NEW out \in Seq(ValidTo(Other(p))'), Emit(p, out)
    PROVE  \A q \in Peers : wire'[q] \in Seq(ValidTo(q)')
  BY TablesBefore, WiresAfter DEF Emit
(* The number a request takes was not given out.                           *)
LEMMA FreshId ==
    ASSUME LifeInv, NEW p \in Peers
    PROVE  nextId[p] \in Nat /\ nextId[p] \notin Opened
<1> DEFINE id == nextId[p]
<1>1. id \in Nat /\ Own(p, id)
  BY DEF LifeInv, Types, Numbers
<1>2. ASSUME NEW d \in Clients, Started(d)
      PROVE  chan[d] # id
  <2>1. Home(d) \in Peers /\ chan[d] \in Nat /\ Own(Home(d), chan[d]) /\ chan[d] < nextId[Home(d)]
    BY <1>2, PeersAre DEF LifeInv, Types, Numbers
  <2>2. CASE Home(d) = p
    BY <1>1, <2>1, <2>2
  <2>3. CASE Home(d) # p
    BY <1>1, <2>1, <2>3, OwnApart
  <2> QED
    BY <2>2, <2>3
<1> QED
  BY <1>1, <1>2 DEF Opened

-----------------------------------------------------------------------------
(* Step by step.                                                           *)

LEMMA PassedIs ==
    ASSUME NEW ch, IsRecord(ch), NEW due, NEW expired, NEW new, new = Passed(ch, due, expired)
    PROVE  /\ IsRecord(new)
           /\ new.onMessage = ch.onMessage
           /\ new.loop = IF ch.loop = "last" THEN "off" ELSE "on"
           /\ new.sendSeq = ch.sendSeq
           /\ DOMAIN new.window = DOMAIN ch.window \ expired
           /\ \A f \in DOMAIN new.window :
                new.window[f] = IF f \in due THEN ch.window[f] + 1 ELSE ch.window[f]
           /\ new.recvNext = ch.recvNext
<1>1. /\ IsRecord(new)
      /\ new.onMessage = ch.onMessage
      /\ new.loop = IF ch.loop = "last" THEN "off" ELSE "on"
      /\ new.sendSeq = ch.sendSeq
      /\ new.recvNext = ch.recvNext
  BY DEF Passed, IsRecord
<1>2. new.window = [f \in DOMAIN ch.window \ expired |->
                      IF f \in due THEN ch.window[f] + 1 ELSE ch.window[f]]
  BY DEF Passed, IsRecord
<1> QED
  BY <1>1, <1>2

(* What a pass of the loop of one channel does to its table.               *)
Removes(ch, due, expired) == \A f \in due : f \notin expired => ~Expired(ch, f)

LEMMA PassTableOK ==
    ASSUME NEW table, NEW js, NEW cl, NEW b, NEW V, NEW G, TableOK(table, js, cl, b, V, G),
           NEW id \in DOMAIN table, NEW ch, ch = table[id], ch.loop # "off",
           NEW due \in SUBSET DOMAIN ch.window,
           NEW expired, Removes(ch, due, expired),
           NEW t2, Changed(table, id, t2), t2[id] = Passed(ch, due, expired)
    PROVE  TableOK(t2, js, cl, b, V, G)
<1> DEFINE new == Passed(ch, due, expired)
           awaited == cl /\ b = id
<1>1. ChannelOK(id, ch, js, awaited, V, G)
  BY DEF TableOK
<1>2. IsRecord(ch) /\ IsChannel(ch)
  BY <1>1 DEF ChannelOK
<1>3. new = Passed(ch, due, expired) /\ t2[id] = new
  OBVIOUS
<1>4. cl /\ b = id => awaited
  OBVIOUS
<1> HIDE DEF new, awaited
<1>5. /\ IsRecord(new) /\ new.onMessage = ch.onMessage /\ new.sendSeq = ch.sendSeq
      /\ new.recvNext = ch.recvNext
      /\ new.loop = IF ch.loop = "last" THEN "off" ELSE "on"
      /\ DOMAIN new.window = DOMAIN ch.window \ expired
      /\ \A f \in DOMAIN new.window :
           new.window[f] = IF f \in due THEN ch.window[f] + 1 ELSE ch.window[f]
  BY <1>2, <1>3, PassedIs
<1>6. ASSUME NEW f \in DOMAIN new.window
      PROVE  new.window[f] \in 0 .. MaxRetransmits
  <2>1. f \in DOMAIN ch.window /\ f \notin expired /\ ch.window[f] \in 0 .. MaxRetransmits
    BY <1>2, <1>5 DEF IsChannel
  <2>2. f \in due => ~(ch.window[f] >= MaxRetransmits)
    BY <2>1 DEF Expired, Removes
  <2> QED
    BY <1>5, <2>1, <2>2, LifeAssumption
<1>7. /\ new.recvNext \in 0 .. 2 /\ ch.loop \in {"on", "last", "off"}
      /\ new.loop \in {"on", "last", "off"} /\ DOMAIN new.window \subseteq DOMAIN ch.window
  BY <1>2, <1>5 DEF IsChannel
<1>8. FinDue(new, awaited) => FinDue(ch, awaited)
  BY <1>5, <1>7 DEF FinDue
<1>9. ReplyDue(id, new, js) => ReplyDue(id, ch, js)
  BY <1>5 DEF ReplyDue
<1>10. ChannelOK(id, t2[id], js, awaited, V, G)
  <2>1. ChannelOK(id, new, js, awaited, V, G)
    BY <1>1, <1>5, <1>6, <1>7, <1>8, <1>9, StayOK
  <2> QED
    BY <1>3, <2>1
<1>11. SameHandler(table, id, t2)
  BY <1>3, <1>5 DEF SameHandler
<1> QED
  BY <1>4, <1>10, <1>11, TableUpdate

(* What the pass sends.                                                    *)
LEMMA PassSends ==
    ASSUME NEW table, NEW js, NEW cl, NEW b, NEW V, NEW G, TableOK(table, js, cl, b, V, G),
           NEW id \in DOMAIN table, NEW ch, ch = table[id],
           NEW sent \in SUBSET DOMAIN ch.window,
           NEW out \in InOrder(sent)
    PROVE  out \in Seq(V)
<1>1. ChannelOK(id, ch, js, cl /\ b = id, V, G)
  BY DEF TableOK
<1>2. IsFiniteSet(sent) /\ sent \subseteq V
  BY <1>1, FS_Subset DEF ChannelOK
<1>3. out \in SetToSeqs(sent)
  BY DEF InOrder
<1>4. out \in Seq(sent)
  BY <1>2, <1>3, OrderType
<1> QED
  BY <1>2, <1>4, SeqGrows

LEMMA RetransmitTables ==
    ASSUME LifeInv, Types', Grows, NEW p \in Peers, NEW id \in DOMAIN channels[p],
           NEW due \in SUBSET DOMAIN channels[p][id].window, RetransmitPass(p, id, due)
    PROVE  Tables'
<1> DEFINE V == ValidTo(Other(p))'
           G == Opened'
           js == Listed(jobs[p])
           cl == phase[p] = "closing"
           b == at[p].id
           table == channels[p]
           ch == table[id]
           expired == {f \in due : Expired(ch, f)}
           sent == {f \in due : ~Expired(ch, f)}
           t2 == [table EXCEPT ![id] = Passed(ch, due, expired)]
<1>1. /\ channels' = [channels EXCEPT ![p] = t2]
      /\ \E out \in InOrder(sent) : Emit(p, out)
      /\ ch.loop # "off"
      /\ UNCHANGED <<phase, at, jobs>>
  BY DEF RetransmitPass, Resends
<1>2. TableOK(table, js, cl, b, V, G)
  BY TablesBefore
<1>3. ch = table[id] /\ due \in SUBSET DOMAIN ch.window /\ id \in DOMAIN table
      /\ sent \in SUBSET DOMAIN ch.window /\ Removes(ch, due, expired)
      /\ Changed(table, id, t2) /\ t2[id] = Passed(ch, due, expired)
  BY DEF Changed, Removes
<1>4. channels'[p] = t2 /\ \A q \in Peers : q # p => channels'[q] = channels[q]
  BY <1>1 DEF LifeInv, Types
<1>5. jobs'[p] \subseteq ValidJobs(p)'
  BY <1>1, TablesBefore
<1> HIDE DEF V, G, js, cl, b, table, ch, expired, sent, t2
<1>6. TableOK(t2, js, cl, b, V, G)
  BY <1>1, <1>2, <1>3, PassTableOK
<1>6a. \A out \in InOrder(sent) : out \in Seq(V)
  BY <1>2, <1>3, PassSends
<1>7. \A q \in Peers : wire'[q] \in Seq(ValidTo(q)')
  BY <1>1, <1>6a, EmitAfter DEF V
<1> QED
  BY <1>1, <1>4, <1>5, <1>6, <1>7, TablesAfter DEF V, G, js, cl, b

LEMMA LastPassTables ==
    ASSUME LifeInv, Types', Grows, NEW p \in Peers, NEW id \in DOMAIN cleared[p],
           NEW due \in SUBSET DOMAIN cleared[p][id].window, LastPass(p, id, due)
    PROVE  Tables' /\ Leftovers'
<1> DEFINE V == ValidTo(Other(p))'
           G == Opened'
           js == Unlisted(jobs[p])
           table == cleared[p]
           ch == table[id]
           expired == {f \in due : Expired(ch, f)}
           sent == {f \in due : ~Expired(ch, f)}
           t2 == [table EXCEPT ![id] = Passed(ch, due, expired)]
<1>1. /\ cleared' = [cleared EXCEPT ![p] = t2]
      /\ \E out \in InOrder(sent) : Emit(p, out)
      /\ ch.loop # "off"
      /\ UNCHANGED <<phase, at, jobs, channels>>
  BY DEF LastPass, Resends
<1>2. TableOK(table, js, FALSE, 0, V, G)
  BY TablesBefore
<1>3. ch = table[id] /\ due \in SUBSET DOMAIN ch.window /\ id \in DOMAIN table
      /\ sent \in SUBSET DOMAIN ch.window /\ Removes(ch, due, expired)
      /\ Changed(table, id, t2) /\ t2[id] = Passed(ch, due, expired)
  BY DEF Changed, Removes
<1>4. cleared'[p] = t2 /\ \A q \in Peers : q # p => cleared'[q] = cleared[q]
  BY <1>1 DEF LifeInv, Types
<1>5. jobs'[p] \subseteq ValidJobs(p)'
  BY <1>1, TablesBefore
<1> HIDE DEF V, G, js, table, ch, expired, sent, t2
<1>6. TableOK(t2, js, FALSE, 0, V, G)
  BY <1>1, <1>2, <1>3, PassTableOK
<1>6a. \A out \in InOrder(sent) : out \in Seq(V)
  BY <1>2, <1>3, PassSends
<1>7. \A q \in Peers : wire'[q] \in Seq(ValidTo(q)')
  BY <1>1, <1>6a, EmitAfter DEF V
<1>8. Tables'
  BY <1>1, <1>5, <1>7, TablesBefore, TablesAfter
<1>9. Leftovers'
  <2>1. phase'[p] # "leaving" => Unlisted(jobs'[p]) = {}
    BY <1>1 DEF LifeInv, Leftovers
  <2>2. TableOK(cleared'[p], Unlisted(jobs'[p]), FALSE, 0, V, G)
    BY <1>1, <1>4, <1>6 DEF js
  <2>3. \A q \in Peers : phase'[q] = phase[q] /\ Unlisted(jobs'[q]) = Unlisted(jobs[q])
    BY <1>1
  <2> QED
    BY <1>4, <2>1, <2>2, <2>3, LeftoversAfter DEF V, G
<1> QED
  BY <1>8, <1>9

LEMMA RequestTables ==
    ASSUME LifeInv, Types', Grows, NEW c \in Clients, Request(c)
    PROVE  Tables'
<1> DEFINE p == Home(c)
           id == nextId[p]
           f == Frame("request", id, 0, c, TRUE)
           fresh == NewChannel("future")
           new == Sending(fresh, f)
           V == ValidTo(Other(p))'
           G == Opened'
           js == Listed(jobs[p])
           cl == phase[p] = "closing"
           b == at[p].id
           table == channels[p]
           t2 == Put(table, id, new)
<1>1. /\ channels' = [channels EXCEPT ![p] = t2]
      /\ chan' = [chan EXCEPT ![c] = id]
      /\ client'[c] # "new"
      /\ Emit(p, IF ready[p] THEN <<f>> ELSE <<>>)
      /\ UNCHANGED <<phase, at, jobs, fetches>>
  BY DEF Request, closing, LifeInv, Types
<1>2. p \in Peers /\ Other(p) \in Peers /\ Other(Other(p)) = p /\ id \in Nat /\ chan'[c] = id
  BY <1>1, PeersAre DEF LifeInv, Types
<1>3. TableOK(table, js, cl, b, V, G) /\ V \subseteq Frames
  BY <1>2, TablesBefore
<1>4. id \in G
  BY <1>1, <1>2 DEF Opened, Started
<1>5. id \notin DOMAIN table
  BY <1>2, FreshId, TableKeys
<1>6. f \in V /\ f.seq = 0
  <2>1. f \in Frames /\ f.type = "request" /\ f.ch = id /\ f.seq = 0 /\ f.req = c
    BY <1>2 DEF Frame, Frames
  <2> HIDE DEF f, id
  <2>2. f \in ValidTo(Other(p))'
    BY <1>1, <1>2, <1>4, <2>1 DEF ValidTo, IsData, Started
  <2> QED
    BY <2>1, <2>2
<1> DEFINE no == FALSE
<1>7. ChannelOK(id, new, js, no, V, G)
  <2>1. /\ fresh.onMessage = "future" /\ fresh.loop = "on" /\ fresh.sendSeq = 0 /\ fresh.recvNext = 0
        /\ IsRecord(fresh)
    BY DEF NewChannel, IsRecord
  <2> HIDE DEF V, G, js, f, id
  <2>2. ChannelOK(id, fresh, js, no, V, G)
    BY <1>4, NewChannelOK
  <2> HIDE DEF fresh, new, no
  <2>3. /\ IsRecord(new)
        /\ new.onMessage = "future" /\ new.loop = "on" /\ new.recvNext = 0
        /\ new.sendSeq = fresh.sendSeq + 1
        /\ new.window = Put(fresh.window, f, 0)
    BY <2>1, SendingIs DEF new
  <2>4. ~ ReplyDue(id, new, js)
    BY <2>3 DEF ReplyDue
  <2> QED
    BY <1>3, <1>6, <2>1, <2>2, <2>3, <2>4, SendOK
<1>8. Changed(table, id, t2) /\ t2[id] = new /\ SameHandler(table, id, t2)
  BY <1>5 DEF Changed, SameHandler, Put
<1>9. cl /\ b = id => no
  BY <1>3, <1>5 DEF TableOK
<1>10. channels'[p] = t2 /\ \A q \in Peers : q # p => channels'[q] = channels[q]
  BY <1>1, <1>2 DEF LifeInv, Types
<1>11. \A q \in Peers : wire'[q] \in Seq(ValidTo(q)')
  <2>1. (IF ready[p] THEN <<f>> ELSE <<>>) \in Seq(V)
    <3> HIDE DEF f, V
    <3> QED
      BY <1>6
  <2> HIDE DEF f, p
  <2> QED
    BY <1>1, <1>2, <2>1, EmitAfter
<1>12. jobs'[p] \subseteq ValidJobs(p)'
  BY <1>1, <1>2, TablesBefore
<1> HIDE DEF V, G, js, cl, b, table, t2, new, id, p, no
<1>13. TableOK(t2, js, cl, b, V, G)
  BY <1>3, <1>7, <1>8, <1>9, TableUpdate
<1> QED
  BY <1>1, <1>2, <1>10, <1>11, <1>12, <1>13, TablesAfter DEF V, G, js, cl, b

(* The channel that handle_raw finds or creates.                           *)
LEMMA FoundOK ==
    ASSUME LifeInv, Types', Grows, NEW p \in Peers, NEW f \in ValidTo(p),
           NEW awaited, awaited = (phase[p] = "closing" /\ at[p].id = f.ch),
           NEW ch, ch = GetOrCreate(p, f.ch)
    PROVE  /\ ChannelOK(f.ch, ch, Listed(jobs[p]), awaited, ValidTo(Other(p))', Opened')
           /\ f.ch \in DOMAIN channels[p] => ch = channels[p][f.ch]
           /\ f.ch \in Opened'
<1> DEFINE V == ValidTo(Other(p))'
           G == Opened'
           id == f.ch
<1>1. TableOK(channels[p], Listed(jobs[p]), phase[p] = "closing", at[p].id, V, G)
  BY TablesBefore
<1>2. id \in G
  BY DEF ValidTo, Grows
<1>3. CASE id \in DOMAIN channels[p]
  <2>1. ChannelOK(id, channels[p][id], Listed(jobs[p]), phase[p] = "closing" /\ at[p].id = id, V, G)
    BY <1>1, <1>3 DEF TableOK
  <2>2. ch = channels[p][id]
    BY <1>3 DEF GetOrCreate
  <2> QED
    BY <1>2, <2>1, <2>2
<1>4. CASE id \notin DOMAIN channels[p]
  <2>1. ch = NewChannel(OnChannel(p)) /\ OnChannel(p) \in {"none", "future", "dispatch"}
    BY <1>4 DEF GetOrCreate, OnChannel
  <2> HIDE DEF V, G, id
  <2>2. ChannelOK(id, ch, Listed(jobs[p]), awaited, V, G)
    BY <1>2, <2>1, NewChannelOK
  <2> QED
    BY <1>2, <1>4, <2>2 DEF V, G, id
<1> QED
  BY <1>3, <1>4

LEMMA HandleAckTables ==
    ASSUME LifeInv, Types', Grows, NEW p \in Peers, NEW f \in ValidTo(p),
           NEW ch, ch = GetOrCreate(p, f.ch), HandleAck(p, ch, f), phase' = phase,
           Tail(wire[p]) \in Seq(ValidTo(p)')
    PROVE  Tables'
<1> DEFINE V == ValidTo(Other(p))'
           G == Opened'
           id == f.ch
           js == Listed(jobs[p])
           cl == phase[p] = "closing"
           b == at[p].id
           awaited == cl /\ b = id
           table == channels[p]
           kept == [g \in Unacked(ch, f.seq) |-> ch.window[g]]
           new == [ch EXCEPT !.window = kept]
           t2 == Put(table, id, new)
<1>1. /\ channels' = [channels EXCEPT ![p] = t2]
      /\ wire' = Wires(p, Tail(wire[p]), <<>>)
      /\ jobs' = jobs
      /\ at' = at \/ at' = [at EXCEPT ![p].woken = TRUE]
  BY DEF HandleAck
<1>2. TableOK(table, js, cl, b, V, G)
  BY TablesBefore
<1>3. /\ ChannelOK(id, ch, js, awaited, V, G)
      /\ id \in DOMAIN table => ch = table[id]
  BY FoundOK
<1>4. IsRecord(ch) /\ IsChannel(ch)
  BY <1>3 DEF ChannelOK
<1>5. /\ IsRecord(new) /\ new.onMessage = ch.onMessage /\ new.sendSeq = ch.sendSeq
      /\ new.recvNext = ch.recvNext /\ new.window = kept /\ new.loop = ch.loop
  BY <1>4 DEF IsRecord
<1>6. /\ DOMAIN kept \subseteq DOMAIN ch.window
      /\ \A g \in DOMAIN kept : kept[g] \in 0 .. MaxRetransmits
      /\ new.loop \in {"on", "last", "off"} /\ new.recvNext \in 0 .. 2
  BY <1>4, <1>5 DEF IsChannel, Unacked
<1>7. Changed(table, id, t2) /\ t2[id] = new
  BY DEF Changed, Put
<1>8. channels'[p] = t2 /\ \A q \in Peers : q # p => channels'[q] = channels[q]
  BY <1>1 DEF LifeInv, Types
<1>9. at'[p].id = b /\ \A q \in Peers : q # p => at'[q] = at[q]
  BY <1>1 DEF LifeInv, Types
<1>10. jobs'[p] \subseteq ValidJobs(p)'
  BY <1>1, TablesBefore
<1>11. \A q \in Peers : wire'[q] \in Seq(ValidTo(q)')
  <2>1. <<>> \in Seq(ValidTo(Other(p))')
    OBVIOUS
  <2> QED
    BY <1>1, <2>1, WiresAfter
<1>12. cl /\ b = id => awaited
  OBVIOUS
<1> HIDE DEF V, G, js, cl, b, id, table, t2, new, kept, awaited
<1>13. ChannelOK(id, new, js, awaited, V, G)
  <2>1. FinDue(new, awaited) => FinDue(ch, awaited)
    BY <1>5 DEF FinDue
  <2>2. ReplyDue(id, new, js) => ReplyDue(id, ch, js)
    BY <1>5 DEF ReplyDue
  <2> QED
    BY <1>3, <1>5, <1>6, <2>1, <2>2, StayOK
<1>14. SameHandler(table, id, t2)
  BY <1>3, <1>5, <1>7 DEF SameHandler
<1>15. TableOK(t2, js, cl, b, V, G)
  BY <1>2, <1>7, <1>12, <1>13, <1>14, TableUpdate
<1> QED
  BY <1>1, <1>8, <1>9, <1>10, <1>11, <1>15, TablesAfter DEF V, G, js, cl, b

(* A frame that changes nothing of its channel, which it may have created. *)
LEMMA SameTables ==
    ASSUME LifeInv, Types', Grows, NEW p \in Peers, NEW f \in ValidTo(p),
           NEW ch, ch = GetOrCreate(p, f.ch),
           channels' = [channels EXCEPT ![p] = Put(@, f.ch, ch)],
           UNCHANGED <<phase, at, jobs>>,
           \A q \in Peers : wire'[q] \in Seq(ValidTo(q)')
    PROVE  Tables'
<1> DEFINE V == ValidTo(Other(p))'
           G == Opened'
           id == f.ch
           js == Listed(jobs[p])
           cl == phase[p] = "closing"
           b == at[p].id
           awaited == cl /\ b = id
           table == channels[p]
           t2 == Put(table, id, ch)
<1>1. TableOK(table, js, cl, b, V, G)
  BY TablesBefore
<1>2. /\ ChannelOK(id, ch, js, awaited, V, G)
      /\ id \in DOMAIN table => ch = table[id]
  BY FoundOK
<1>3. Changed(table, id, t2) /\ t2[id] = ch
  BY DEF Changed, Put
<1>4. channels'[p] = t2 /\ \A q \in Peers : q # p => channels'[q] = channels[q]
  BY DEF LifeInv, Types
<1>5. jobs'[p] \subseteq ValidJobs(p)'
  BY TablesBefore
<1>6. cl /\ b = id => awaited
  OBVIOUS
<1> HIDE DEF V, G, js, cl, b, id, table, t2, awaited
<1>7. SameHandler(table, id, t2)
  BY <1>2, <1>3 DEF SameHandler
<1>8. TableOK(t2, js, cl, b, V, G)
  <2>1. ChannelOK(id, t2[id], js, awaited, V, G)
    BY <1>2, <1>3
  <2> QED
    BY <1>1, <1>3, <1>6, <1>7, <2>1, TableUpdate
<1> QED
  BY <1>4, <1>5, <1>8, TablesAfter DEF V, G, js, cl, b

(* The next data frame of a channel.                                       *)
LEMMA DeliverTables ==
    ASSUME LifeInv, Types', Grows, NEW p \in Peers, NEW f \in ValidTo(p), IsData(f),
           NEW ch, ch = GetOrCreate(p, f.ch), f.seq = ch.recvNext,
           channels' = [channels EXCEPT ![p] = Put(@, f.ch, [ch EXCEPT !.recvNext = @ + 1])],
           OnMessage(p, ch.onMessage, f),
           UNCHANGED <<phase, at, chan>>,
           \A q \in Peers : wire'[q] \in Seq(ValidTo(q)')
    PROVE  Tables'
<1> DEFINE V == ValidTo(Other(p))'
           G == Opened'
           id == f.ch
           js == Listed(jobs[p])
           cl == phase[p] = "closing"
           b == at[p].id
           awaited == cl /\ b = id
           table == channels[p]
           new == [ch EXCEPT !.recvNext = @ + 1]
           t2 == Put(table, id, new)
           job == [ch |-> id, req |-> f.req, made |-> SessionOpen(p), listed |-> TRUE]
           starts == ch.onMessage = "dispatch" /\ f.type = "request"
<1>1. TableOK(table, js, cl, b, V, G)
  BY TablesBefore
<1>2. /\ ChannelOK(id, ch, js, awaited, V, G)
      /\ id \in DOMAIN table => ch = table[id]
  BY FoundOK
<1>3. IsRecord(ch) /\ IsChannel(ch)
  BY <1>2 DEF ChannelOK
<1>4. f.seq \in 0 .. 1 /\ f.req \in Clients /\ id \in Nat
  BY DEF ValidTo, Frames, IsData
<1>5. /\ IsRecord(new) /\ new.onMessage = ch.onMessage /\ new.sendSeq = ch.sendSeq
      /\ new.recvNext = f.seq + 1 /\ new.window = ch.window /\ new.loop = ch.loop
  BY <1>3 DEF IsRecord
<1>6. /\ \A g \in DOMAIN new.window : new.window[g] \in 0 .. MaxRetransmits
      /\ new.loop \in {"on", "last", "off"} /\ new.recvNext \in 0 .. 2 /\ new.recvNext # 0
  BY <1>3, <1>4, <1>5 DEF IsChannel
<1>7. Changed(table, id, t2) /\ t2[id] = new
  BY DEF Changed, Put
<1>8. channels'[p] = t2 /\ \A q \in Peers : q # p => channels'[q] = channels[q]
  BY DEF LifeInv, Types
<1>9. \/ starts /\ jobs' = [jobs EXCEPT ![p] = @ \cup {job}]
           /\ fetches' = [fetches EXCEPT ![f.req] = @ + IF SessionOpen(p) THEN 1 ELSE 0]
      \/ ~starts /\ UNCHANGED jobs
  BY DEF OnMessage
<1>10. cl /\ b = id => awaited
  OBVIOUS
<1>11. jobs[p] \subseteq ValidJobs(p)' /\ jobs[p] \subseteq Job
  BY TablesBefore
<1>12. FinDue(new, awaited) => FinDue(ch, awaited)
  BY <1>5 DEF FinDue
<1>13. CASE ~starts
  <2> HIDE DEF V, G, js, cl, b, id, table, t2, new, awaited, job, starts
  <2>1. ASSUME ReplyDue(id, new, js)
        PROVE  ReplyDue(id, ch, js)
    BY <1>5, <1>6, <2>1 DEF ReplyDue
  <2>2. ChannelOK(id, new, js, awaited, V, G)
    BY <1>2, <1>5, <1>6, <1>12, <2>1, StayOK
  <2>3. SameHandler(table, id, t2)
    BY <1>2, <1>5, <1>6, <1>7 DEF SameHandler
  <2>4. TableOK(t2, js, cl, b, V, G)
    BY <1>1, <1>7, <1>10, <2>2, <2>3, TableUpdate
  <2>5. jobs' = jobs
    BY <1>9, <1>13
  <2> QED
    BY <1>8, <1>11, <2>4, <2>5, TablesAfter DEF V, G, js, cl, b
<1>14. CASE starts
  <2> DEFINE js2 == js \cup {job}
             all == jobs[p] \cup {job}
  <2>1. /\ jobs' = [jobs EXCEPT ![p] = @ \cup {job}]
        /\ fetches' = [fetches EXCEPT ![f.req] = @ + IF SessionOpen(p) THEN 1 ELSE 0]
    BY <1>9, <1>14
  <2>2. jobs'[p] = all /\ \A q \in Peers : q # p => jobs'[q] = jobs[q]
    BY <2>1 DEF LifeInv, Types
  <2>3. job \in ValidJobs(p)'
    <3>1. f \in ValidTo(p)'
      BY DEF Grows
    <3>2. Started(f.req)' /\ id = chan'[f.req] /\ Home(f.req) = Other(p)
      BY <1>14, <3>1 DEF ValidTo, IsData
    <3>3. SessionOpen(p) => fetches'[f.req] >= 1
      BY <1>4, <2>1 DEF LifeInv, Types
    <3>4. job \in Job /\ job.req = f.req /\ job.ch = id /\ (job.made <=> SessionOpen(p))
      BY <1>4 DEF Job, SessionOpen
    <3> HIDE DEF job, id
    <3> QED
      BY <3>2, <3>3, <3>4 DEF ValidJobs, Started
  <2>4. ch.recvNext = 0 /\ ch.onMessage = "dispatch"
    BY <1>14 DEF ValidTo
  <2>5. ASSUME NEW j \in js, j.ch = id
        PROVE  FALSE
    <3>1. id \in DOMAIN table /\ table[id].recvNext # 0
      BY <1>1, <2>5 DEF TableOK, JobsOK
    <3> QED
      BY <1>2, <2>4, <3>1
  <2>6. job.ch = id /\ Listed(jobs'[p]) = js2
    BY <2>2 DEF Listed
  <2> HIDE DEF V, G, js, cl, b, id, table, t2, new, awaited, job, starts, js2
  <2>7. ReplyDue(id, ch, js)
    BY <2>4 DEF ReplyDue
  <2>8. ChannelOK(id, new, js2, awaited, V, G)
    BY <1>2, <1>5, <1>6, <1>12, <2>7, StayOK
  <2>9. TableOK(t2, js2, cl, b, V, G)
    BY <1>1, <1>5, <1>6, <1>7, <2>4, <2>5, <2>6, <2>8, TableNewJob DEF js2, awaited
  <2>10. jobs'[p] \subseteq ValidJobs(p)'
    BY <1>11, <2>2, <2>3
  <2> QED
    BY <1>8, <2>2, <2>6, <2>9, <2>10, TablesAfter DEF V, G, cl, b
<1> QED
  BY <1>13, <1>14

LEMMA HandleRawTables ==
    ASSUME LifeInv, Types', Grows, NEW p \in Peers, HandleRaw(p)
    PROVE  Tables'
<1> DEFINE f == Head(wire[p])
           ch == GetOrCreate(p, f.ch)
           ack == Frame("ack", f.ch, f.seq + 1, f.req, TRUE)
<1>1. f \in ValidTo(p) /\ Tail(wire[p]) \in Seq(ValidTo(p)')
  <2>1. wire[p] \in Seq(ValidTo(p)) /\ wire[p] \in Seq(ValidTo(p)') /\ wire[p] # <<>>
    BY TableKeys, TablesBefore DEF HandleRaw
  <2> QED
    BY <2>1
<1>2. /\ UNCHANGED <<phase, chan>>
      /\ HandleAck(p, ch, f) \/ (IsData(f) /\ HandleData(p, ch, f)) \/ HandleFin(p, ch, f)
  BY DEF HandleRaw
<1> HIDE DEF f
<1>3. CASE HandleAck(p, ch, f)
  BY <1>1, <1>2, <1>3, HandleAckTables
<1>4. CASE HandleFin(p, ch, f)
  <2>1. <<>> \in Seq(ValidTo(Other(p))')
    OBVIOUS
  <2>2. \A q \in Peers : wire'[q] \in Seq(ValidTo(q)')
    BY <1>1, <1>4, <2>1, WiresAfter DEF HandleFin
  <2> QED
    BY <1>1, <1>2, <1>4, <2>2, SameTables DEF HandleFin
<1>5. CASE IsData(f) /\ HandleData(p, ch, f)
  <2>1. ack \in ValidTo(Other(p))'
    <3>1. f \in Frames /\ f.ch \in Opened' /\ f.seq \in 0 .. 1
      BY <1>1, <1>5 DEF ValidTo, Grows, Frames, IsData
    <3>2. ack \in Frames /\ ack.type = "ack" /\ ack.ch = f.ch
      BY <3>1 DEF Frame, Frames
    <3> HIDE DEF ack
    <3> QED
      BY <3>1, <3>2 DEF ValidTo, IsData
  <2>2. \A q \in Peers : wire'[q] \in Seq(ValidTo(q)')
    <3>1. wire' = Wires(p, Tail(wire[p]), <<ack>>)
      BY <1>5 DEF HandleData
    <3> HIDE DEF ack
    <3>2. <<ack>> \in Seq(ValidTo(Other(p))')
      BY <2>1
    <3> QED
      BY <1>1, <3>1, <3>2, WiresAfter
  <2>3. UNCHANGED at
    BY <1>5 DEF HandleData
  <2> HIDE DEF ch
  <2>4. ch = GetOrCreate(p, f.ch)
    BY DEF ch
  <2>5. CASE /\ f.seq = ch.recvNext
             /\ channels' = [channels EXCEPT ![p] = Put(@, f.ch, [ch EXCEPT !.recvNext = @ + 1])]
             /\ OnMessage(p, ch.onMessage, f)
    BY <1>1, <1>2, <1>5, <2>2, <2>3, <2>4, <2>5, DeliverTables
  <2>6. CASE /\ channels' = [channels EXCEPT ![p] = Put(@, f.ch, ch)]
             /\ UNCHANGED <<jobs, client, answers, fetches>>
    BY <1>1, <1>2, <2>2, <2>3, <2>4, <2>6, SameTables
  <2> QED
    BY <1>5, <2>5, <2>6 DEF HandleData
<1> QED
  BY <1>2, <1>3, <1>4, <1>5

(* A response takes the number that was kept for it.                       *)
LEMMA ReplyTableOK ==
    ASSUME NEW table, NEW js, NEW cl, NEW b, NEW V, NEW G, TableOK(table, js, cl, b, V, G),
           V \subseteq Frames, NEW j \in js, NEW ch, ch = table[j.ch]
    PROVE  /\ ch.sendSeq \in 0 .. 1
           /\ \A f \in V : f.seq = ch.sendSeq =>
                TableOK([table EXCEPT ![j.ch] = Sending(ch, f)], js \ {j}, cl, b, V, G)
<1> DEFINE id == j.ch
           js2 == js \ {j}
           awaited == cl /\ b = id
<1>1. /\ id \in DOMAIN table
      /\ ch.onMessage = "dispatch"
      /\ \A k \in js2 : k.ch # id
      /\ ch.recvNext # 0
  BY DEF TableOK, JobsOK
<1>2. ChannelOK(id, ch, js, awaited, V, G)
  BY <1>1 DEF TableOK
<1>3. ReplyDue(id, ch, js)
  BY <1>1 DEF ReplyDue
<1>4. ch.sendSeq <= 1 /\ (FinDue(ch, awaited) => ch.sendSeq = 0) /\ ch.sendSeq \in 0 .. 1
  BY <1>2, <1>3 DEF ChannelOK, Budget, IsChannel
<1>5. IsRecord(ch) /\ ch.loop \in {"on", "last", "off"}
  BY <1>2 DEF ChannelOK, IsChannel
<1>6. TableOK(table, js2, cl, b, V, G)
  <2>1. js2 \in SUBSET js
    OBVIOUS
  <2> HIDE DEF js2
  <2> QED
    BY <2>1, TableFewerJobs
<1>7. ASSUME NEW f \in V, f.seq = ch.sendSeq
      PROVE  TableOK([table EXCEPT ![id] = Sending(ch, f)], js2, cl, b, V, G)
  <2> DEFINE new == Sending(ch, f)
             t2 == [table EXCEPT ![id] = new]
  <2>1. Changed(table, id, t2) /\ t2[id] = new
    BY <1>1 DEF Changed
  <2>2. cl /\ b = id => awaited
    OBVIOUS
  <2>3. new = Sending(ch, f) /\ ch = table[id]
    OBVIOUS
  <2> HIDE DEF js2, id, new, t2, awaited
  <2>4. /\ IsRecord(new)
        /\ new.onMessage = ch.onMessage /\ new.loop = ch.loop /\ new.recvNext = ch.recvNext
        /\ new.sendSeq = ch.sendSeq + 1
        /\ new.window = Put(ch.window, f, 0)
    BY <1>5, <2>3, SendingIs
  <2>5. ~ ReplyDue(id, new, js2) /\ (FinDue(new, awaited) => ch.sendSeq = 0)
    BY <1>1, <1>4, <2>4 DEF ReplyDue, FinDue
  <2>6. ChannelOK(id, new, js2, awaited, V, G)
    BY <1>2, <1>4, <1>5, <1>7, <2>4, <2>5, SendOK
  <2>7. SameHandler(table, id, t2)
    BY <2>1, <2>3, <2>4 DEF SameHandler
  <2>8. TableOK(t2, js2, cl, b, V, G)
    <3>1. ChannelOK(id, t2[id], js2, awaited, V, G)
      BY <2>1, <2>6
    <3> QED
      BY <1>6, <2>1, <2>2, <2>7, <3>1, TableUpdate
  <2> QED
    BY <2>8 DEF t2, new
<1> QED
  BY <1>4, <1>7

LEMMA RespondTables ==
    ASSUME LifeInv, Types', Grows, NEW p \in Peers, NEW j \in jobs[p], NEW ok \in BOOLEAN,
           Respond(p, j, ok)
    PROVE  Tables' /\ Leftovers'
<1> DEFINE V == ValidTo(Other(p))'
           G == Opened'
           id == j.ch
           cl == phase[p] = "closing"
           b == at[p].id
           ch == IF j.listed THEN channels[p][id] ELSE cleared[p][id]
           f == Frame("response", id, ch.sendSeq, j.req, ok)
           js == Listed(jobs[p])
           us == Unlisted(jobs[p])
           table == channels[p]
           left == cleared[p]
<1>1. /\ TableOK(table, js, cl, b, V, G) /\ V \subseteq Frames
      /\ TableOK(left, us, FALSE, 0, V, G)
  BY TablesBefore
<1>2. /\ jobs' = [jobs EXCEPT ![p] = @ \ {j}]
      /\ ok => j.made
      /\ UNCHANGED <<phase, at, chan, client, fetches>>
      /\ Emit(p, <<f>>)
      /\ \/ /\ j.listed
            /\ channels' = [channels EXCEPT ![p][id] = Sending(ch, f)]
            /\ UNCHANGED cleared
         \/ /\ ~j.listed
            /\ cleared' = [cleared EXCEPT ![p][id] = Sending(ch, f)]
            /\ UNCHANGED channels
  BY DEF Respond, exchange
<1>3. jobs'[p] = jobs[p] \ {j} /\ \A q \in Peers : q # p => jobs'[q] = jobs[q]
  BY <1>2 DEF LifeInv, Types
<1>4. j \in Job /\ j \in ValidJobs(p) /\ j.req \in Clients /\ id \in Nat /\ j.made \in BOOLEAN
  BY TableKeys DEF Job
<1>5. ASSUME NEW s \in 0 .. 1
      PROVE  Frame("response", id, s, j.req, ok) \in V /\ Frame("response", id, s, j.req, ok).seq = s
  <2> DEFINE g == Frame("response", id, s, j.req, ok)
  <2>1. /\ g \in Frames /\ g.type = "response" /\ g.ch = id /\ g.seq = s
        /\ g.req = j.req /\ g.ok = ok
    BY <1>4 DEF Frame, Frames
  <2>2. Started(j.req) /\ id = chan[j.req] /\ Home(j.req) = Other(p) /\ (ok => fetches[j.req] >= 1)
    BY <1>2, <1>4 DEF ValidJobs
  <2>3. id \in Opened
    BY <1>4, <2>2 DEF Opened
  <2> HIDE DEF g, id
  <2>4. g \in ValidTo(Other(p))
    BY <2>1, <2>2, <2>3 DEF ValidTo, IsData
  <2>5. Other(p) \in Peers
    BY PeersAre
  <2> QED
    BY <2>1, <2>4, <2>5 DEF Grows, g
<1>6. jobs'[p] \subseteq ValidJobs(p)'
  BY <1>3, TablesBefore
<1>7. ch.sendSeq \in 0 .. 1 =>
        /\ f \in V /\ f.seq = ch.sendSeq
        /\ \A q \in Peers : wire'[q] \in Seq(ValidTo(q)')
  <2> SUFFICES ASSUME ch.sendSeq \in 0 .. 1
               PROVE  /\ f \in V /\ f.seq = ch.sendSeq
                      /\ \A q \in Peers : wire'[q] \in Seq(ValidTo(q)')
    OBVIOUS
  <2> HIDE DEF ch
  <2>1. f \in V /\ f.seq = ch.sendSeq
    BY <1>5
  <2> HIDE DEF f
  <2>2. <<f>> \in Seq(V)
    <3> HIDE DEF V
    <3> QED
      BY <2>1
  <2> QED
    BY <1>2, <2>1, <2>2, EmitAfter
<1>8. CASE j.listed
  <2> DEFINE t2 == [table EXCEPT ![id] = Sending(ch, f)]
  <2>1. /\ channels' = [channels EXCEPT ![p] = t2]
        /\ UNCHANGED cleared
    BY <1>2, <1>8
  <2>2. ch = table[id] /\ j \in js
    BY <1>8 DEF Listed
  <2>3. Listed(jobs'[p]) = js \ {j} /\ Unlisted(jobs'[p]) = us
    BY <1>3, <1>8 DEF Listed, Unlisted
  <2>4. channels'[p] = t2 /\ \A q \in Peers : q # p => channels'[q] = channels[q]
    BY <2>1 DEF LifeInv, Types
  <2>5. t2 = [table EXCEPT ![id] = Sending(ch, f)] /\ id = j.ch
    OBVIOUS
  <2> HIDE DEF V, G, cl, b, ch, f, js, us, table, left, t2, id
  <2>6. ch.sendSeq \in 0 .. 1 /\ TableOK(t2, js \ {j}, cl, b, V, G)
    <3>1. TableOK(table, js, cl, b, V, G) /\ V \subseteq Frames
      BY <1>1
    <3>2. /\ ch.sendSeq \in 0 .. 1
          /\ \A g \in V : g.seq = ch.sendSeq =>
               TableOK([table EXCEPT ![j.ch] = Sending(ch, g)], js \ {j}, cl, b, V, G)
      BY <2>2, <2>5, <3>1, ReplyTableOK
    <3> QED
      BY <1>7, <2>5, <3>2
  <2>7. Tables'
    BY <1>2, <1>3, <1>6, <1>7, <2>3, <2>4, <2>6, TablesAfter DEF V, G, cl, b
  <2>8. Leftovers'
    BY <1>2, <1>3, <2>1, <2>3, LeftoversSame DEF us
  <2> QED
    BY <2>7, <2>8
<1>9. CASE ~j.listed
  <2> DEFINE t2 == [left EXCEPT ![id] = Sending(ch, f)]
  <2>1. /\ cleared' = [cleared EXCEPT ![p] = t2]
        /\ UNCHANGED channels
    BY <1>2, <1>9
  <2>2. ch = left[id] /\ j \in us
    BY <1>9 DEF Unlisted
  <2>3. Unlisted(jobs'[p]) = us \ {j} /\ Listed(jobs'[p]) = js
    BY <1>3, <1>9 DEF Listed, Unlisted
  <2>4. cleared'[p] = t2 /\ \A q \in Peers : q # p => cleared'[q] = cleared[q]
    BY <2>1 DEF LifeInv, Types
  <2>5. t2 = [left EXCEPT ![id] = Sending(ch, f)] /\ id = j.ch
    OBVIOUS
  <2>6. channels'[p] = table /\ phase'[p] = "leaving"
    BY <1>2, <2>1, <2>2 DEF LifeInv, Leftovers
  <2> HIDE DEF V, G, cl, b, ch, f, js, us, table, left, t2, id
  <2>7. ch.sendSeq \in 0 .. 1 /\ TableOK(t2, us \ {j}, FALSE, 0, V, G)
    BY <1>1, <1>7, <2>2, <2>5, ReplyTableOK
  <2>8. Tables'
    BY <1>1, <1>2, <1>3, <1>6, <1>7, <2>1, <2>3, <2>6, <2>7, TablesAfter DEF V, G, cl, b
  <2>9. Leftovers'
    BY <1>2, <1>3, <2>3, <2>4, <2>6, <2>7, LeftoversAfter DEF V, G
  <2> QED
    BY <2>8, <2>9
<1> QED
  BY <1>8, <1>9

(* The end of a process.                                                   *)
LEMMA EndsTables ==
    ASSUME LifeInv, Types', Grows, NEW p \in Peers, NEW out \in Seq(ValidTo(Other(p))'), Ends(p, out)
    PROVE  Tables' /\ Leftovers'
<1> DEFINE V == ValidTo(Other(p))'
           G == Opened'
<1>1. /\ phase'[p] = "over" /\ channels'[p] = [id \in {} |-> 0] /\ jobs'[p] = {}
      /\ cleared'[p] = [id \in {} |-> 0] /\ \A q \in Peers : q # p => cleared'[q] = cleared[q]
      /\ \A q \in Peers : q # p => /\ channels'[q] = channels[q] /\ jobs'[q] = jobs[q]
                                   /\ phase'[q] = phase[q] /\ at'[q] = at[q]
      /\ wire' = Wires(p, <<>>, out)
  BY DEF Ends, LifeInv, Types
<1>2. \A q \in Peers : wire'[q] \in Seq(ValidTo(q)')
  <2>1. <<>> \in Seq(ValidTo(p)')
    OBVIOUS
  <2> QED
    BY <1>1, <2>1, WiresAfter
<1>3. TableOK(channels'[p], Listed(jobs'[p]), FALSE, at'[p].id, V, G)
  <2>1. Listed(jobs'[p]) = {}
    BY <1>1 DEF Listed
  <2>2. TableOK([id \in {} |-> 0], Listed(jobs'[p]), FALSE, at'[p].id, V, G)
    BY <2>1, EmptyTableOK
  <2> QED
    BY <1>1, <2>2
<1>4. (phase'[p] = "closing") = FALSE
  BY <1>1
<1>5. TableOK(channels'[p], Listed(jobs'[p]), phase'[p] = "closing", at'[p].id, V, G)
  BY <1>3, <1>4
<1>6. Tables'
  BY <1>1, <1>2, <1>5, TablesAfter
<1>7. Unlisted(jobs'[p]) = {} /\ \A q \in Peers : q # p => Unlisted(jobs'[q]) = Unlisted(jobs[q])
  BY <1>1 DEF Unlisted
<1>8. TableOK(cleared'[p], Unlisted(jobs'[p]), FALSE, 0, V, G)
  <2>1. TableOK([id \in {} |-> 0], {}, FALSE, 0, V, G)
    BY EmptyTableOK
  <2> QED
    BY <1>1, <1>7, <2>1
<1>9. Leftovers'
  BY <1>1, <1>7, <1>8, LeftoversAfter
<1> QED
  BY <1>6, <1>9

(* A run of close_all up to its next await.                                *)
LEMMA CloseOnTables ==
    ASSUME LifeInv, Types', Grows, NEW p \in Peers,
           NEW table, NEW out \in Seq(ValidTo(Other(p))'), CloseOn(p, table, out),
           TableOK(table, Listed(jobs[p]), FALSE, at[p].id, ValidTo(Other(p))', Opened'),
           phase[p] # "leaving"
    PROVE  Tables' /\ Leftovers'
<1> DEFINE V == ValidTo(Other(p))'
           G == Opened'
<1>1. /\ Types /\ jobs[p] \subseteq Job /\ jobs[p] \subseteq ValidJobs(p)'
      /\ V \subseteq Frames /\ FinsIn(V, G) /\ Unlisted(jobs[p]) = {}
  BY TablesBefore DEF LifeInv, Leftovers
<1>2. ClosesOn(p, table, out, V, G)
  <2> HIDE DEF V, G
  <2>1. out \in Seq(V) /\ TableOK(table, Listed(jobs[p]), FALSE, at[p].id, V, G)
    BY DEF V, G
  <2> QED
    BY <1>1, <2>1, CloseOnOK
<1>3. jobs'[p] \subseteq ValidJobs(p)'
  <2>1. ASSUME NEW j \in jobs[p]
        PROVE  [j EXCEPT !.listed = FALSE] \in ValidJobs(p)'
    <3>1. j \in Job /\ j \in ValidJobs(p)'
      BY <1>1
    <3> DEFINE k == [j EXCEPT !.listed = FALSE]
    <3>2. k \in Job /\ k.ch = j.ch /\ k.req = j.req /\ k.made = j.made
      BY <3>1 DEF Job
    <3> HIDE DEF k
    <3>3. k \in ValidJobs(p)'
      BY <3>1, <3>2 DEF ValidJobs
    <3> QED
      BY <3>3 DEF k
  <2>2. jobs'[p] \in {jobs[p], {[j EXCEPT !.listed = FALSE] : j \in jobs[p]}}
    BY <1>2 DEF ClosesOn
  <2> QED
    BY <1>1, <2>1, <2>2
<1>4. \A q \in Peers : wire'[q] \in Seq(ValidTo(q)')
  <2>1. PICK fins \in Seq(V) : Emit(p, out \o fins)
    BY <1>2 DEF ClosesOn
  <2>2. out \o fins \in Seq(V)
    <3> HIDE DEF V
    <3>1. out \in Seq(V)
      BY DEF V
    <3> QED
      BY <2>1, <3>1
  <2> QED
    BY <2>1, <2>2, EmitAfter
<1>5. \A q \in Peers : q # p => /\ phase'[q] = phase[q] /\ channels'[q] = channels[q]
                              /\ at'[q] = at[q] /\ jobs'[q] = jobs[q]
  BY <1>2 DEF ClosesOn
<1>6. Tables'
  <2>1. TableOK(channels'[p], Listed(jobs'[p]), phase'[p] = "closing", at'[p].id, V, G)
    BY <1>2 DEF ClosesOn
  <2> QED
    BY <1>3, <1>4, <1>5, <2>1, TablesAfter
<1>7. Leftovers'
  <2>1. CASE /\ phase'[p] = "leaving"
             /\ TableOK(cleared'[p], Unlisted(jobs'[p]), FALSE, 0, V, G)
             /\ \A q \in Peers : q # p => cleared'[q] = cleared[q]
    <3>1. \A q \in Peers : q # p => Unlisted(jobs'[q]) = Unlisted(jobs[q])
      BY <1>5
    <3> QED
      BY <1>5, <2>1, <3>1, LeftoversAfter
  <2>2. CASE phase'[p] = "closing" /\ UNCHANGED <<cleared, jobs>>
    <3>1. \A q \in Peers : phase[q] = "leaving" => phase'[q] = "leaving"
      BY <1>5
    <3>2. cleared' = cleared /\ \A q \in Peers : Unlisted(jobs'[q]) = Unlisted(jobs[q])
      BY <2>2
    <3> QED
      BY <3>1, <3>2, LeftoversSame
  <2> QED
    BY <1>2, <2>1, <2>2 DEF ClosesOn
<1> QED
  BY <1>6, <1>7

LEMMA CloseAllTables ==
    ASSUME LifeInv, Types', Grows, NEW p \in Peers, CloseAll(p)
    PROVE  Tables' /\ Leftovers'
<1>1. TableOK(channels[p], Listed(jobs[p]), phase[p] = "closing", at[p].id, ValidTo(Other(p))', Opened')
  BY TablesBefore
<1>2. (phase[p] = "closing") = FALSE /\ phase[p] # "leaving"
  BY DEF CloseAll
<1>3. TableOK(channels[p], Listed(jobs[p]), FALSE, at[p].id, ValidTo(Other(p))', Opened')
  BY <1>1, <1>2
<1>4. <<>> \in Seq(ValidTo(Other(p))') /\ CloseOn(p, channels[p], <<>>)
  BY DEF CloseAll
<1> QED
  BY <1>2, <1>3, <1>4, CloseOnTables

LEMMA CloseResumesTables ==
    ASSUME LifeInv, Types', Grows, NEW p \in Peers, CloseResumes(p)
    PROVE  Tables' /\ Leftovers'
<1> DEFINE V == ValidTo(Other(p))'
           G == Opened'
           id == at[p].id
           js == Listed(jobs[p])
           table == channels[p]
           ch == table[id]
           new == Closed(id, ch)
           fin == Fin(id, ch)
           t2 == [table EXCEPT ![id] = new]
           no == FALSE
           yes == TRUE
<1>1. phase[p] = "closing" /\ TableOK(table, js, phase[p] = "closing", id, V, G)
  BY TablesBefore DEF CloseResumes
<1>2. id \in DOMAIN table
  BY <1>1 DEF TableOK
<1>3. ChannelOK(id, ch, js, phase[p] = "closing" /\ id = id, V, G)
  BY <1>1, <1>2 DEF TableOK
<1>4. (phase[p] = "closing") = yes /\ (phase[p] = "closing" /\ id = id) = yes
  BY <1>1
<1>5. TableOK(table, js, yes, id, V, G) /\ ChannelOK(id, ch, js, yes, V, G)
  BY <1>1, <1>3, <1>4
<1>6. V \subseteq Frames /\ FinsIn(V, G)
  BY TablesBefore
<1>7. FinDue(ch, yes)
  BY DEF FinDue
<1>8. Changed(table, id, t2) /\ t2[id] = new
  BY <1>2 DEF Changed
<1>9. \/ Ends(p, <<fin>>)
      \/ CloseOn(p, t2, <<fin>>)
  BY DEF CloseResumes
<1>10. ch = table[id] /\ new = Closed(id, ch) /\ fin = Fin(id, ch) /\ ~no
  OBVIOUS
<1>11. /\ ChannelOK(id, new, js, FALSE, V, G)
       /\ new.onMessage = ch.onMessage
       /\ new.recvNext = ch.recvNext
       /\ fin \in V
  <2> HIDE DEF V, G, id, js, table, ch, new, fin, yes, no
  <2> QED
    BY <1>5, <1>6, <1>7, <1>10, ClosedOK
<1>12. <<fin>> \in Seq(V)
  <2> HIDE DEF V, fin
  <2> QED
    BY <1>11
<1>13. TableOK(t2, js, no, id, V, G)
  <2>1. ChannelOK(id, t2[id], js, no, V, G)
    BY <1>8, <1>11
  <2> HIDE DEF V, G, id, js, table, ch, new, fin, t2, yes, no
  <2>2. SameHandler(table, id, t2)
    BY <1>8, <1>10, <1>11 DEF SameHandler
  <2> QED
    BY <1>5, <1>8, <1>10, <2>1, <2>2, TableUpdate
<1>14. phase[p] # "leaving"
  BY <1>1
<1> HIDE DEF fin, t2
<1> QED
  BY <1>9, <1>12, <1>13, <1>14, EndsTables, CloseOnTables

(* A step that leaves tables and jobs alone.                               *)
LEMMA QuietTables ==
    ASSUME LifeInv, Types', Grows, NEW p \in Peers,
           UNCHANGED <<channels, jobs, at>>,
           \A q \in Peers : phase'[q] = "closing" <=> phase[q] = "closing",
           wire' = wire \/ wire' = [wire EXCEPT ![p] = <<>>]
             \/ (wire[p] # <<>> /\ wire' = [wire EXCEPT ![p] = Tail(@)])
    PROVE  Tables'
<1>1. ASSUME NEW q \in Peers
      PROVE  wire'[q] \in Seq(ValidTo(q)')
  <2>1. wire[q] \in Seq(ValidTo(q)')
    BY TablesBefore
  <2>2. wire'[q] \in {wire[q], <<>>} \/ (wire[q] # <<>> /\ wire'[q] = Tail(wire[q]))
    BY DEF LifeInv, Types
  <2>3. <<>> \in Seq(ValidTo(q)') /\ (wire[q] # <<>> => Tail(wire[q]) \in Seq(ValidTo(q)'))
    BY <2>1
  <2> QED
    BY <2>1, <2>2, <2>3
<1>2. ASSUME NEW q \in Peers
      PROVE  /\ jobs'[q] \subseteq ValidJobs(q)'
             /\ TableOK(channels'[q], Listed(jobs'[q]), phase'[q] = "closing", at'[q].id,
                        ValidTo(Other(q))', Opened')
  <2>1. jobs'[q] \subseteq ValidJobs(q)'
    BY TablesBefore
  <2>2. TableOK(channels[q], Listed(jobs[q]), phase[q] = "closing", at[q].id, ValidTo(Other(q))', Opened')
    BY TablesBefore
  <2>3. (phase'[q] = "closing") = (phase[q] = "closing")
    OBVIOUS
  <2>4. channels'[q] = channels[q] /\ jobs'[q] = jobs[q] /\ at'[q] = at[q]
    OBVIOUS
  <2> QED
    BY <2>1, <2>2, <2>3, <2>4
<1> QED
  BY <1>1, <1>2 DEF Tables, TableOK, JobsOK, ChannelOK

(* A frame that comes in does not concern the channels cleared.            *)
LEMMA HandleRawLeftovers ==
    ASSUME LifeInv, Types', Grows, NEW p \in Peers, HandleRaw(p)
    PROVE  Leftovers'
<1>1. UNCHANGED <<phase, cleared>>
  BY DEF HandleRaw
<1>2. \/ UNCHANGED jobs
      \/ \E c, r, made : jobs' = [jobs EXCEPT ![p] = @ \cup
                              {[ch |-> c, req |-> r, made |-> made, listed |-> TRUE]}]
  <2>1. UNCHANGED jobs \/ \E h, f : OnMessage(p, h, f)
    BY DEF HandleRaw, HandleAck, HandleData, HandleFin
  <2>2. ASSUME NEW h, NEW f, OnMessage(p, h, f)
        PROVE  \/ UNCHANGED jobs
               \/ jobs' = [jobs EXCEPT ![p] = @ \cup
                    {[ch |-> f.ch, req |-> f.req, made |-> SessionOpen(p), listed |-> TRUE]}]
    BY <2>2 DEF OnMessage
  <2> QED
    BY <2>1, <2>2
<1>3. ASSUME NEW q \in Peers
      PROVE  Unlisted(jobs'[q]) = Unlisted(jobs[q])
  <2>1. CASE UNCHANGED jobs
    BY <2>1
  <2>2. ASSUME NEW job, job.listed, jobs' = [jobs EXCEPT ![p] = @ \cup {job}]
        PROVE  Unlisted(jobs'[q]) = Unlisted(jobs[q])
    <3>1. jobs'[q] = jobs[q] \/ jobs'[q] = jobs[q] \cup {job}
      BY <2>2 DEF LifeInv, Types
    <3> QED
      BY <2>2, <3>1 DEF Unlisted
  <2>3. ASSUME NEW c, NEW r, NEW made,
               jobs' = [jobs EXCEPT ![p] = @ \cup
                 {[ch |-> c, req |-> r, made |-> made, listed |-> TRUE]}]
        PROVE  Unlisted(jobs'[q]) = Unlisted(jobs[q])
    <3> DEFINE job == [ch |-> c, req |-> r, made |-> made, listed |-> TRUE]
    <3>1. job.listed /\ jobs' = [jobs EXCEPT ![p] = @ \cup {job}]
      BY <2>3
    <3> HIDE DEF job
    <3> QED
      BY <2>2, <3>1
  <2> QED
    BY <1>2, <2>1, <2>3
<1> QED
  BY <1>1, <1>3, LeftoversSame

LEMMA TablesStep == LifeInv /\ [Next]_vars => Tables' /\ Leftovers'
<1> SUFFICES ASSUME LifeInv, Types', Grows, [Next]_vars
             PROVE  Tables' /\ Leftovers'
  BY TypesStep, StepGrows DEF LifeInv
<1> USE DEF closing
<1>0. UNCHANGED <<phase, cleared, jobs>> => Leftovers'
  BY LeftoversSame
<1>1. ASSUME NEW c \in Clients, Request(c)
      PROVE  Tables' /\ Leftovers'
  BY <1>0, <1>1, RequestTables DEF Request
<1>2. ASSUME NEW c \in Clients, Timeout(c)
      PROVE  Tables' /\ Leftovers'
  <2>1. \E p : p \in Peers
    BY PeersAre
  <2> QED
    BY <1>0, <1>2, <2>1, QuietTables DEF Timeout
<1>3. ASSUME NEW p \in Peers, Attach(p) \/ SetUp(p) \/ Stop(p)
      PROVE  Tables' /\ Leftovers'
  <2>1. \A q \in Peers : phase'[q] = "closing" <=> phase[q] = "closing"
    BY <1>3 DEF Attach, SetUp, Stop, Moves, LifeInv, Types
  <2>2. \A q \in Peers : phase[q] = "leaving" => phase'[q] = "leaving"
    BY <1>3 DEF Attach, SetUp, Stop, Moves, LifeInv, Types
  <2>3. UNCHANGED <<channels, at, cleared, jobs, wire>>
    BY <1>3 DEF Attach, SetUp, Stop
  <2> QED
    BY <2>1, <2>2, <2>3, QuietTables, LeftoversSame
<1>4. ASSUME NEW p \in Peers, CloseAll(p)
      PROVE  Tables' /\ Leftovers'
  BY <1>4, CloseAllTables
<1>5. ASSUME NEW p \in Peers, CloseResumes(p)
      PROVE  Tables' /\ Leftovers'
  BY <1>5, CloseResumesTables
<1>6. ASSUME NEW p \in Peers, Leave(p)
      PROVE  Tables' /\ Leftovers'
  <2>1. <<>> \in Seq(ValidTo(Other(p))')
    OBVIOUS
  <2> QED
    BY <1>6, <2>1, EndsTables DEF Leave
<1>7. ASSUME NEW p \in Peers, HandleRaw(p)
      PROVE  Tables' /\ Leftovers'
  BY <1>7, HandleRawTables, HandleRawLeftovers
<1>8. ASSUME NEW p \in Peers, Discard(p) \/ Disconnect(p)
      PROVE  Tables' /\ Leftovers'
  BY <1>0, <1>8, QuietTables DEF Discard, Disconnect
<1>9. ASSUME NEW p \in Peers, NEW id \in DOMAIN channels[p],
             NEW due \in SUBSET DOMAIN channels[p][id].window, RetransmitPass(p, id, due)
      PROVE  Tables' /\ Leftovers'
  BY <1>0, <1>9, RetransmitTables DEF RetransmitPass, Resends
<1>10. ASSUME NEW p \in Peers, NEW j \in jobs[p], NEW ok \in BOOLEAN, Respond(p, j, ok)
      PROVE  Tables' /\ Leftovers'
  BY <1>10, RespondTables
<1>11. CASE UNCHANGED vars
  <2>1. \E p : p \in Peers
    BY PeersAre
  <2> QED
    BY <1>0, <1>11, <2>1, QuietTables DEF vars
<1>12. ASSUME NEW p \in Peers, NEW id \in DOMAIN cleared[p],
              NEW due \in SUBSET DOMAIN cleared[p][id].window, LastPass(p, id, due)
       PROVE  Tables' /\ Leftovers'
  BY <1>12, LastPassTables
<1> QED
  BY <1>1, <1>2, <1>3, <1>4, <1>5, <1>6, <1>7, <1>8, <1>9, <1>10, <1>11, <1>12 DEF Next
-----------------------------------------------------------------------------
(* The invariant holds.                                                    *)

LEMMA LifeInvInit == Init => LifeInv
<1> SUFFICES ASSUME Init
             PROVE  LifeInv
  OBVIOUS
<1> DEFINE none == [id \in {} |-> 0]
<1>1. Types
  BY DEF Init, Types, FirstId
<1>2. Numbers
  <2>1. \A p \in Peers : Own(p, nextId[p])
    BY DEF Init, Own, FirstId, Step
  <2>2. \A c \in Clients : ~Started(c)
    BY DEF Init, Started
  <2> QED
    BY <2>1, <2>2 DEF Numbers
<1>3. ASSUME NEW p \in Peers
      PROVE  /\ jobs[p] \subseteq ValidJobs(p)
             /\ wire[p] \in Seq(ValidTo(p))
             /\ TableOK(channels[p], Listed(jobs[p]), phase[p] = "closing", at[p].id, ValidTo(Other(p)), Opened)
             /\ TableOK(cleared[p], Unlisted(jobs[p]), FALSE, 0, ValidTo(Other(p)), Opened)
             /\ Unlisted(jobs[p]) = {}
  <2>1. jobs[p] = {} /\ wire[p] = <<>> /\ channels[p] = none /\ cleared[p] = none
    BY DEF Init
  <2>2. (phase[p] = "closing") = FALSE
    BY DEF Init
  <2>3. Listed(jobs[p]) = {} /\ Unlisted(jobs[p]) = {}
    BY <2>1 DEF Listed, Unlisted
  <2>4. /\ TableOK(none, Listed(jobs[p]), FALSE, at[p].id, ValidTo(Other(p)), Opened)
        /\ TableOK(none, Unlisted(jobs[p]), FALSE, 0, ValidTo(Other(p)), Opened)
    BY <2>3, EmptyTableOK
  <2>5. <<>> \in Seq(ValidTo(p))
    OBVIOUS
  <2> QED
    BY <2>1, <2>2, <2>3, <2>4, <2>5
<1> QED
  BY <1>1, <1>2, <1>3 DEF LifeInv, Tables, Leftovers

LEMMA LifeInvStep == LifeInv /\ [Next]_vars => LifeInv'
  BY TypesStep, NumbersStep, TablesStep DEF LifeInv

LEMMA LifeInvHolds == Spec => []LifeInv
  BY LifeInvInit, LifeInvStep, PTL DEF Spec

(* Types and bounds: every variable has its type in every reachable state, *)
(* for every set of clients and every window.  With it the budgets of      *)
(* protocol/reliable.py and main.py: a frame is retried at most            *)
(* max_retransmits times, and a channel of the table numbers at most one   *)
(* data frame and its FIN, even when close_all, a blocked close() and a    *)
(* late response reach for the numbers in any order.                       *)
THEOREM LifeTypeOK == Spec => []TypeOK
<1>1. LifeInv => TypeOK
  <2> SUFFICES ASSUME LifeInv
               PROVE  TypeOK
    OBVIOUS
  <2>1. ASSUME NEW p \in Peers
        PROVE  /\ \A id \in DOMAIN channels[p] : id \in Nat /\ IsChannel(channels[p][id])
               /\ \A id \in DOMAIN cleared[p] : id \in Nat /\ IsChannel(cleared[p][id])
               /\ jobs[p] \subseteq Job
               /\ wire[p] \in Seq(Frames)
    <3>1. wire[p] \in Seq(ValidTo(p)) /\ ValidTo(p) \subseteq Frames
      BY TableKeys
    <3>2. wire[p] \in Seq(Frames)
      BY <3>1, SeqGrows
    <3>3. /\ \A id \in DOMAIN channels[p] : id \in Nat /\ IsChannel(channels[p][id])
          /\ \A id \in DOMAIN cleared[p] : id \in Nat /\ IsChannel(cleared[p][id])
      BY OpenedType DEF LifeInv, Tables, Leftovers, TableOK, ChannelOK
    <3> QED
      BY <3>2, <3>3, TableKeys
  <2>2. wire \in [Peers -> Seq(Frames)]
    <3>1. wire = [p \in Peers |-> wire[p]]
      BY DEF LifeInv, Types
    <3> QED
      BY <2>1, <3>1
  <2> QED
    BY <2>1, <2>2 DEF LifeInv, Types, TypeOK, Job
<1> QED
  BY <1>1, LifeInvHolds, PTL

-----------------------------------------------------------------------------
(* A request is made once.                                                 *)

(* p serves no more.                                                       *)
Late(p) == phase[p] \in {"stopping", "closing", "leaving", "over"}

(* p has had the first frame of channel id.                                *)
Heard(p, id) == id \in DOMAIN channels[p] /\ channels[p][id].recvNext # 0

(* What is left of a request made: its peer has had it, or makes no more.  *)
MadeOnce ==
    \A c \in Clients :
        /\ fetches[c] <= 1
        /\ fetches[c] = 1 => /\ Started(c)
                             /\ Late(Other(Home(c))) \/ Heard(Other(Home(c)), chan[c])

(* What is left of an answer: it is the client's own, of a request made.   *)
OwnAnswers ==
    \A c \in Clients : \A f \in answers[c] :
        f.type = "response" /\ f.req = c /\ (f.ok => fetches[c] >= 1)

(* The same after a step.                                                  *)
LateAfter(p) == phase'[p] \in {"stopping", "closing", "leaving", "over"}
HeardAfter(p, id) == id \in DOMAIN channels'[p] /\ channels'[p][id].recvNext # 0

LEMMA ChannelFacts ==
    ASSUME LifeInv, NEW p \in Peers, NEW id \in DOMAIN channels[p]
    PROVE  IsRecord(channels[p][id]) /\ channels[p][id].recvNext \in 0 .. 2
  BY DEF LifeInv, Tables, TableOK, ChannelOK, IsChannel

LEMMA LateStays ==
    ASSUME LifeInv, [Next]_vars, NEW q \in Peers, Late(q)
    PROVE  LateAfter(q)
<1> USE DEF Late, LateAfter, closing, exchange
<1>1. Types
  BY DEF LifeInv
<1>2. ASSUME NEW p \in Peers, NEW table, NEW out, CloseOn(p, table, out)
      PROVE  LateAfter(q)
  <2>1. \E ph \in {"closing", "leaving"} : phase' = [phase EXCEPT ![p] = ph]
    BY <1>2 DEF CloseOn
  <2> QED
    BY <1>1, <2>1 DEF Types
<1>3. ASSUME NEW p \in Peers, NEW out, Ends(p, out)
      PROVE  LateAfter(q)
  BY <1>1, <1>3 DEF Ends, Types
<1>4. ASSUME NEW p \in Peers, CloseAll(p) \/ CloseResumes(p) \/ Leave(p)
      PROVE  LateAfter(q)
  BY <1>2, <1>3, <1>4 DEF CloseAll, CloseResumes, Leave
<1>5. ASSUME NEW p \in Peers, Attach(p) \/ SetUp(p) \/ Stop(p)
      PROVE  LateAfter(q)
  BY <1>1, <1>5 DEF Attach, SetUp, Stop, Moves, Types
<1>6. ASSUME \/ UNCHANGED vars
             \/ \E c \in Clients : Request(c) \/ Timeout(c)
             \/ \E p \in Peers :
                  \/ HandleRaw(p) \/ Discard(p) \/ Disconnect(p)
                  \/ \E id \in DOMAIN channels[p] :
                       \E due \in SUBSET DOMAIN channels[p][id].window : RetransmitPass(p, id, due)
                  \/ \E id \in DOMAIN cleared[p] :
                       \E due \in SUBSET DOMAIN cleared[p][id].window : LastPass(p, id, due)
                  \/ \E j \in jobs[p], ok \in BOOLEAN : Respond(p, j, ok)
      PROVE  LateAfter(q)
  <2>1. phase' = phase
    BY <1>6, PassKeeps, RespondKeeps DEF vars, Request, Timeout, HandleRaw, Discard, Disconnect
  <2> QED
    BY <2>1
<1> QED
  BY <1>4, <1>5, <1>6 DEF Next

LEMMA HeardUpdate ==
    ASSUME LifeInv, NEW p \in Peers, NEW id, NEW t2,
           channels' = [channels EXCEPT ![p] = t2], Changed(channels[p], id, t2),
           Heard(p, id) => t2[id].recvNext # 0,
           NEW q \in Peers, NEW x, Heard(q, x)
    PROVE  HeardAfter(q, x)
<1>1. channels'[p] = t2 /\ \A r \in Peers : r # p => channels'[r] = channels[r]
  BY DEF LifeInv, Types
<1>2. CASE q = p
  BY <1>1, <1>2 DEF Heard, HeardAfter, Changed
<1>3. CASE q # p
  BY <1>1, <1>3 DEF Heard, HeardAfter
<1> QED
  BY <1>2, <1>3

(* What a peer that serves has had is not forgotten.                       *)
LEMMA HeardStays ==
    ASSUME LifeInv, [Next]_vars, NEW q \in Peers, NEW x, Heard(q, x), ~LateAfter(q)
    PROVE  HeardAfter(q, x)
<1>0. DOMAIN channels = Peers /\ ~Late(q)
  BY LateStays DEF LifeInv, Types
<1>1. ASSUME NEW c \in Clients, Request(c)
      PROVE  HeardAfter(q, x)
  <2> DEFINE p == Home(c)
             id == nextId[p]
             new == Sending(NewChannel("future"), Frame("request", id, 0, c, TRUE))
             t2 == Put(channels[p], id, new)
  <2>1. p \in Peers /\ channels' = [channels EXCEPT ![p] = t2] /\ id \notin DOMAIN channels[p]
    BY <1>1, PeersAre, FreshId, TableKeys DEF Request
  <2>2. Changed(channels[p], id, t2) /\ ~Heard(p, id)
    BY <2>1 DEF Changed, Heard, Put
  <2> HIDE DEF p, id, t2
  <2> QED
    BY <2>1, <2>2, HeardUpdate
<1>2. ASSUME NEW p \in Peers, HandleRaw(p)
      PROVE  HeardAfter(q, x)
  <2> DEFINE f == Head(wire[p])
             id == f.ch
             ch == GetOrCreate(p, id)
  <2>1. HandleAck(p, ch, f) \/ HandleData(p, ch, f) \/ HandleFin(p, ch, f)
    BY <1>2 DEF HandleRaw
  <2>2. id \in DOMAIN channels[p] => /\ ch = channels[p][id]
                                     /\ IsRecord(ch) /\ ch.recvNext \in 0 .. 2
    BY ChannelFacts DEF GetOrCreate
  <2> HIDE DEF f, ch
  <2>3. \E new : /\ channels' = [channels EXCEPT ![p] = Put(@, id, new)]
                 /\ \/ new = ch
                    \/ new = [ch EXCEPT !.recvNext = @ + 1]
                    \/ \E kept : new = [ch EXCEPT !.window = kept]
    BY <2>1 DEF HandleAck, HandleData, HandleFin
  <2>4. PICK new : /\ channels' = [channels EXCEPT ![p] = Put(@, id, new)]
                   /\ \/ new = ch
                      \/ new = [ch EXCEPT !.recvNext = @ + 1]
                      \/ \E kept : new = [ch EXCEPT !.window = kept]
    BY <2>3
  <2>5. Heard(p, id) => new.recvNext # 0
    BY <2>2, <2>4 DEF Heard, IsRecord
  <2> DEFINE t2 == Put(channels[p], id, new)
  <2>6. Changed(channels[p], id, t2) /\ t2[id] = new /\ channels' = [channels EXCEPT ![p] = t2]
    BY <2>4 DEF Changed, Put
  <2> HIDE DEF t2, id
  <2> QED
    BY <2>5, <2>6, HeardUpdate
<1>3. ASSUME NEW p \in Peers, NEW id \in DOMAIN channels[p], NEW new,
             channels' = [channels EXCEPT ![p][id] = new],
             new.recvNext = channels[p][id].recvNext
      PROVE  HeardAfter(q, x)
  <2> DEFINE t2 == [channels[p] EXCEPT ![id] = new]
  <2>1. Changed(channels[p], id, t2) /\ t2[id] = new /\ channels' = [channels EXCEPT ![p] = t2]
    BY <1>3 DEF Changed
  <2>2. Heard(p, id) => t2[id].recvNext # 0
    BY <1>3, <2>1 DEF Heard
  <2> HIDE DEF t2
  <2> QED
    BY <2>1, <2>2, HeardUpdate
<1>4. ASSUME NEW p \in Peers, NEW id \in DOMAIN channels[p],
             NEW due \in SUBSET DOMAIN channels[p][id].window, RetransmitPass(p, id, due)
      PROVE  HeardAfter(q, x)
  <2> DEFINE ch == channels[p][id]
             expired == {f \in due : Expired(ch, f)}
             new == Passed(ch, due, expired)
  <2>1. channels' = [channels EXCEPT ![p][id] = new]
    BY <1>4 DEF RetransmitPass
  <2>2. IsRecord(ch) /\ new = Passed(ch, due, expired)
    BY ChannelFacts
  <2>3. new.recvNext = ch.recvNext
    BY <2>2 DEF Passed, IsRecord
  <2> HIDE DEF new
  <2> QED
    BY <1>3, <2>1, <2>3
<1>5. ASSUME NEW p \in Peers, NEW j \in jobs[p], NEW ok \in BOOLEAN, Respond(p, j, ok)
      PROVE  HeardAfter(q, x)
  <2>1. CASE j.listed
    <3> DEFINE ch == channels[p][j.ch]
               f == Frame("response", j.ch, ch.sendSeq, j.req, ok)
               new == Sending(ch, f)
    <3>1. channels' = [channels EXCEPT ![p][j.ch] = new]
      BY <1>5, <2>1 DEF Respond
    <3>2. j.ch \in DOMAIN channels[p]
      BY <2>1 DEF LifeInv, Tables, TableOK, JobsOK, Listed
    <3>3. IsRecord(ch) /\ new = Sending(ch, f)
      BY <3>2, ChannelFacts
    <3>4. new.recvNext = ch.recvNext
      <4> HIDE DEF new, ch, f
      <4> QED
        BY <3>3, SendingIs
    <3> HIDE DEF new
    <3> QED
      BY <1>3, <3>1, <3>2, <3>4
  <2>2. CASE ~j.listed
    BY <1>5, <2>2 DEF Respond, Heard, HeardAfter
  <2> QED
    BY <2>1, <2>2
<1>6. ASSUME NEW p \in Peers, NEW table, NEW out, CloseOn(p, table, out)
      PROVE  HeardAfter(q, x)
  <2>1. /\ \E ph \in {"closing", "leaving"} : phase' = [phase EXCEPT ![p] = ph]
        /\ \E t : channels' = [channels EXCEPT ![p] = t]
    BY <1>6 DEF CloseOn
  <2>2. q # p
    BY <2>1 DEF LateAfter, LifeInv, Types
  <2> QED
    BY <1>0, <2>1, <2>2 DEF Heard, HeardAfter
<1>7. ASSUME NEW p \in Peers, NEW out, Ends(p, out)
      PROVE  HeardAfter(q, x)
  <2>1. q # p
    BY <1>7 DEF Ends, LateAfter, LifeInv, Types
  <2> QED
    BY <1>0, <1>7, <2>1 DEF Ends, Heard, HeardAfter
<1>8. ASSUME NEW p \in Peers, CloseAll(p) \/ CloseResumes(p) \/ Leave(p)
      PROVE  HeardAfter(q, x)
  BY <1>6, <1>7, <1>8 DEF CloseAll, CloseResumes, Leave
<1>9. ASSUME \/ UNCHANGED vars
             \/ \E c \in Clients : Timeout(c)
             \/ \E p \in Peers :
                  \/ Attach(p) \/ SetUp(p) \/ Stop(p) \/ Discard(p) \/ Disconnect(p)
                  \/ \E id \in DOMAIN cleared[p] :
                       \E due \in SUBSET DOMAIN cleared[p][id].window : LastPass(p, id, due)
      PROVE  HeardAfter(q, x)
  <2>1. channels' = channels
    BY <1>9 DEF vars, Timeout, Attach, SetUp, Stop, Discard, Disconnect, LastPass
  <2> QED
    BY <2>1 DEF Heard, HeardAfter
<1> QED
  BY <1>1, <1>2, <1>4, <1>5, <1>8, <1>9 DEF Next

(* The one step that makes requests and the one that gives answers: a data *)
(* frame that is the next of its channel.                                  *)
LEMMA DeliveryFacts ==
    ASSUME LifeInv, [Next]_vars
    PROVE  \/ UNCHANGED <<answers, fetches>>
           \/ \E p \in Peers : \E f \in ValidTo(p) : \E ch :
                /\ IsData(f)
                /\ ch = GetOrCreate(p, f.ch)
                /\ f.seq = ch.recvNext
                /\ channels' = [channels EXCEPT ![p] = Put(@, f.ch, [ch EXCEPT !.recvNext = @ + 1])]
                /\ OnMessage(p, ch.onMessage, f)
                /\ UNCHANGED <<phase, chan>>
<1> USE DEF closing, exchange
<1>1. ASSUME NEW p \in Peers, HandleRaw(p), ~UNCHANGED <<answers, fetches>>
      PROVE  \E f \in ValidTo(p) : \E ch :
                /\ IsData(f)
                /\ ch = GetOrCreate(p, f.ch)
                /\ f.seq = ch.recvNext
                /\ channels' = [channels EXCEPT ![p] = Put(@, f.ch, [ch EXCEPT !.recvNext = @ + 1])]
                /\ OnMessage(p, ch.onMessage, f)
                /\ UNCHANGED <<phase, chan>>
  <2> DEFINE f == Head(wire[p])
             ch == GetOrCreate(p, f.ch)
  <2>1. f \in ValidTo(p)
    <3>1. wire[p] \in Seq(ValidTo(p)) /\ wire[p] # <<>>
      BY <1>1, TableKeys DEF HandleRaw
    <3> QED
      BY <3>1
  <2>2. IsData(f) /\ HandleData(p, ch, f)
    BY <1>1 DEF HandleRaw, HandleAck, HandleFin
  <2>3. UNCHANGED <<phase, chan>>
    BY <1>1 DEF HandleRaw
  <2> HIDE DEF f
  <2> QED
    BY <1>1, <2>1, <2>2, <2>3 DEF HandleData
<1>2. ASSUME NEW p \in Peers, CloseResumes(p)
      PROVE  UNCHANGED <<answers, fetches>>
  BY <1>2 DEF CloseResumes, Ends
<1>3. ASSUME NEW p \in Peers, Leave(p)
      PROVE  UNCHANGED <<answers, fetches>>
  BY <1>3 DEF Leave, Ends
<1>4. ASSUME \/ UNCHANGED vars
             \/ \E c \in Clients : Request(c) \/ Timeout(c)
             \/ \E p \in Peers :
                  \/ Attach(p) \/ SetUp(p) \/ Stop(p) \/ CloseAll(p) \/ Discard(p) \/ Disconnect(p)
                  \/ \E id \in DOMAIN channels[p] :
                       \E due \in SUBSET DOMAIN channels[p][id].window : RetransmitPass(p, id, due)
                  \/ \E id \in DOMAIN cleared[p] :
                       \E due \in SUBSET DOMAIN cleared[p][id].window : LastPass(p, id, due)
                  \/ \E j \in jobs[p], ok \in BOOLEAN : Respond(p, j, ok)
      PROVE  UNCHANGED <<answers, fetches>>
  BY <1>4, PassKeeps, RespondKeeps
     DEF vars, Request, Timeout, Attach, SetUp, Stop, CloseAll, Discard, Disconnect
<1> QED
  BY <1>1, <1>2, <1>3, <1>4 DEF Next

LEMMA MadeOnceInit == Init => MadeOnce
  BY DEF Init, MadeOnce

LEMMA MadeOnceStep == LifeInv /\ MadeOnce /\ [Next]_vars => MadeOnce'
<1> SUFFICES ASSUME LifeInv, MadeOnce, [Next]_vars, NEW c \in Clients
             PROVE  /\ fetches'[c] <= 1
                    /\ fetches'[c] = 1 =>
                         /\ client'[c] # "new"
                         /\ LateAfter(Other(Home(c))) \/ HeardAfter(Other(Home(c)), chan'[c])
  BY DEF MadeOnce, Late, LateAfter, Heard, HeardAfter, Started
<1> DEFINE q == Other(Home(c))
<1>1. q \in Peers /\ fetches[c] \in Nat
  BY PeersAre DEF LifeInv, Types
<1>2. Started(c) => client'[c] # "new" /\ chan'[c] = chan[c]
  BY StepFacts DEF LifeInv
<1>3. CASE fetches'[c] = fetches[c]
  <2>1. Late(q) => LateAfter(q)
    BY <1>1, LateStays
  <2>2. Heard(q, chan[c]) => LateAfter(q) \/ HeardAfter(q, chan[c])
    BY <1>1, HeardStays
  <2>3. fetches[c] <= 1 /\ (fetches[c] = 1 => Started(c) /\ (Late(q) \/ Heard(q, chan[c])))
    BY DEF MadeOnce
  <2> HIDE DEF q
  <2>4. fetches'[c] = 1 => client'[c] # "new" /\ (LateAfter(q) \/ HeardAfter(q, chan'[c]))
    BY <1>2, <1>3, <2>1, <2>2, <2>3
  <2> QED
    BY <1>3, <2>3, <2>4 DEF q
<1>4. CASE fetches'[c] # fetches[c]
  <2>1. PICK p \in Peers : \E f \in ValidTo(p) : \E ch :
                /\ IsData(f)
                /\ ch = GetOrCreate(p, f.ch)
                /\ f.seq = ch.recvNext
                /\ channels' = [channels EXCEPT ![p] = Put(@, f.ch, [ch EXCEPT !.recvNext = @ + 1])]
                /\ OnMessage(p, ch.onMessage, f)
                /\ UNCHANGED <<phase, chan>>
    BY <1>4, DeliveryFacts
  <2>1a. PICK f \in ValidTo(p) : \E ch :
                /\ IsData(f)
                /\ ch = GetOrCreate(p, f.ch)
                /\ f.seq = ch.recvNext
                /\ channels' = [channels EXCEPT ![p] = Put(@, f.ch, [ch EXCEPT !.recvNext = @ + 1])]
                /\ OnMessage(p, ch.onMessage, f)
                /\ UNCHANGED <<phase, chan>>
    BY <2>1
  <2>2. PICK ch :
                /\ IsData(f)
                /\ ch = GetOrCreate(p, f.ch)
                /\ f.seq = ch.recvNext
                /\ channels' = [channels EXCEPT ![p] = Put(@, f.ch, [ch EXCEPT !.recvNext = @ + 1])]
                /\ OnMessage(p, ch.onMessage, f)
                /\ UNCHANGED <<phase, chan>>
    BY <2>1a
  <2>3. /\ f.type = "request" /\ SessionOpen(p)
        /\ fetches' = [fetches EXCEPT ![f.req] = @ + 1]
    BY <1>1, <1>4, <2>2 DEF OnMessage, LifeInv, Types
  <2>4. f.req = c /\ fetches'[c] = fetches[c] + 1
    BY <1>4, <2>3 DEF LifeInv, Types
  <2>5. /\ f.seq = 0 /\ f.ch = chan[c] /\ Started(c) /\ Home(c) = Other(p)
    BY <2>2, <2>3, <2>4 DEF ValidTo
  <2>6. q = p
    BY <2>5, PeersAre
  <2>7. ~Late(p)
    BY <2>3 DEF SessionOpen, Late
  <2>8. ~Heard(p, f.ch)
    BY <2>2, <2>5 DEF Heard, GetOrCreate
  <2>9. fetches[c] = 0
    BY <1>1, <2>5, <2>6, <2>7, <2>8 DEF MadeOnce
  <2>10. IsRecord(ch) /\ ch.recvNext = 0
    <3>1. CASE f.ch \in DOMAIN channels[p]
      BY <2>2, <2>5, <3>1, ChannelFacts DEF GetOrCreate
    <3>2. CASE f.ch \notin DOMAIN channels[p]
      BY <2>2, <2>5, <3>2 DEF GetOrCreate, NewChannel, IsRecord
    <3> QED
      BY <3>1, <3>2
  <2>11. HeardAfter(p, f.ch)
    <3> DEFINE new == [ch EXCEPT !.recvNext = @ + 1]
               t2 == Put(channels[p], f.ch, new)
    <3>1. new.recvNext = 1
      BY <2>10 DEF IsRecord
    <3>2. channels'[p] = t2
      BY <2>2 DEF LifeInv, Types
    <3> HIDE DEF new
    <3>3. f.ch \in DOMAIN t2 /\ t2[f.ch] = new
      BY DEF Put
    <3> HIDE DEF t2
    <3> QED
      BY <3>1, <3>2, <3>3 DEF HeardAfter
  <2> QED
    BY <1>2, <2>4, <2>5, <2>6, <2>9, <2>11
<1> QED
  BY <1>3, <1>4

LEMMA MadeOnceHolds == Spec => []MadeOnce
  BY LifeInvHolds, MadeOnceInit, MadeOnceStep, PTL DEF Spec

(* A request is made on the internet at most once: neither a repeated      *)
(* frame, nor the table that close_all clears, nor the session that        *)
(* remote_handler.close() closes lets _dispatch of proxy/http_server.py    *)
(* see it again while it could fetch.                                      *)
THEOREM RequestMadeOnce == Spec => []FetchedOnce
<1>1. MadeOnce => FetchedOnce
  BY DEF MadeOnce, FetchedOnce
<1> QED
  BY <1>1, MadeOnceHolds, PTL
-----------------------------------------------------------------------------
(* An answer is the client's own.                                          *)

LEMMA OwnAnswersInit == Init => OwnAnswers
  BY DEF Init, OwnAnswers

LEMMA OwnAnswersStep == LifeInv /\ OwnAnswers /\ [Next]_vars => OwnAnswers'
<1> SUFFICES ASSUME LifeInv, OwnAnswers, [Next]_vars,
                    NEW c \in Clients, NEW f \in answers'[c]
             PROVE  f.type = "response" /\ f.req = c /\ (f.ok => fetches'[c] >= 1)
  BY DEF OwnAnswers
<1>1. fetches[c] \in Nat /\ fetches'[c] >= fetches[c] /\ fetches'[c] \in Nat
  BY StepFacts, TypesStep DEF LifeInv, Types
<1>2. CASE f \in answers[c]
  BY <1>1, <1>2 DEF OwnAnswers
<1>3. CASE f \notin answers[c]
  <2>1. PICK p \in Peers : \E g \in ValidTo(p) : \E ch :
                IsData(g) /\ OnMessage(p, ch.onMessage, g)
    BY <1>3, DeliveryFacts
  <2>1a. PICK g \in ValidTo(p) : \E ch : IsData(g) /\ OnMessage(p, ch.onMessage, g)
    BY <2>1
  <2>2. PICK ch : IsData(g) /\ OnMessage(p, ch.onMessage, g)
    BY <2>1a
  <2>3. f = g /\ Home(c) = p /\ chan[c] = g.ch /\ client[c] = "waiting"
    BY <1>3, <2>2 DEF OnMessage
  <2>4. /\ g.req \in Clients /\ Started(g.req) /\ Started(c) /\ chan[g.req] = chan[c]
    BY <2>2, <2>3 DEF ValidTo, Frames, Started
  <2>5. g.req = c
    BY <2>4 DEF LifeInv, Numbers
  <2>6. Home(c) # Other(p)
    BY <2>3, PeersAre
  <2>7. g.type = "response" /\ (g.ok => fetches[c] >= 1)
    BY <2>2, <2>5, <2>6 DEF ValidTo, IsData
  <2> QED
    BY <1>1, <2>3, <2>5, <2>7
<1> QED
  BY <1>2, <1>3

LEMMA OwnAnswersHolds == Spec => []OwnAnswers
  BY LifeInvHolds, OwnAnswersInit, OwnAnswersStep, PTL DEF Spec

(* "This prevents channel ID collisions when both peers proxy": what the   *)
(* future of _handle_http is given is the response to the client's own     *)
(* request, never another client's, never a request of the other peer, and *)
(* one that is not an error only of a fetch made, and made once.           *)
THEOREM AnswerIsOwn == Spec => []OwnAnswer
<1>1. LifeInv /\ MadeOnce /\ OwnAnswers => OwnAnswer
  <2> SUFFICES ASSUME LifeInv, MadeOnce, OwnAnswers, NEW c \in Clients, NEW f \in answers[c]
               PROVE  f.type = "response" /\ f.req = c /\ (f.ok => fetches[c] = 1)
    BY DEF OwnAnswer
  <2>1. fetches[c] \in Nat /\ fetches[c] <= 1
    BY DEF LifeInv, Types, MadeOnce
  <2> QED
    BY <2>1 DEF OwnAnswers
<1> QED
  BY <1>1, LifeInvHolds, MadeOnceHolds, OwnAnswersHolds, PTL
=============================================================================
