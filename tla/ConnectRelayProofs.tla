-------------------------- MODULE ConnectRelayProofs --------------------------
(***************************************************************************)
(* Proofs about ConnectRelay, for any number of chunks: the types, and the *)
(* two directions of the relay.                                            *)
(***************************************************************************)
EXTENDS ConnectRelay, SequenceTheorems, TLAPS

(* How far the dialogue is, seen from both sides.                          *)
Before == {"idle", "opening"}
Dialogue ==
    /\ main["local"] \in {"idle", "asking", "confirming", "relaying", "ended"}
    /\ main["remote"] \in {"idle", "opening", "relaying", "ended"}
    /\ handler["local"] \in {"none", "first", "relay"}
    /\ handler["remote"] \in {"dispatch", "relay"}
    /\ main["local"] = "idle" <=> reply = "none"
    /\ main["local"] = "idle" => handler["local"] = "none" /\ main["remote"] = "idle"
    /\ main["local"] # "idle" => handler["local"] # "none"
    /\ main["local"] = "confirming" => reply = "ok"
    /\ handler["local"] = "relay" => reply = "ok" /\ main["local"] \in {"relaying", "ended"}
    /\ main["local"] = "relaying" => handler["local"] = "relay"
    /\ reply = "ok" => handler["remote"] = "relay"
    /\ main["remote"] \in Before =>
        /\ handler["remote"] = "dispatch" /\ reply \in {"none", "pending", "cancelled"}
        /\ inbox["local"] = <<>>
    /\ main["remote"] = "relaying" => handler["remote"] = "relay"
    /\ handler["remote"] = "dispatch" => main["remote"] \in Before \cup {"ended"}

(* A side that does not relay has read, queued and written nothing.        *)
NotYet ==
    \A s \in Sides : handler[s] # "relay" =>
        /\ reader[s] = "none" /\ writer[s] = "none"
        /\ taken[s] = 0 /\ queue[s] = <<>> /\ got[s] = <<>>

(* The request comes first to the remote side, and nothing before on_data. *)
RemoteBox ==
    handler["remote"] = "dispatch" =>
        \/ inbox["remote"] = <<>>
        \/ main["remote"] = "idle" /\ main["local"] # "idle"
           /\ inbox["remote"] = <<Word("connect")>>

(* The reply comes first to the local side, then the chunks as read.       *)
IsReply(m) == m \in {Word("ok"), Word("error")}
InSeries(msgs, last) == \A i \in DOMAIN msgs : msgs[i] = Chunk(last - Len(msgs) + i)
LocalBox ==
    handler["local"] # "relay" =>
        /\ \A i \in DOMAIN inbox["local"] :
            \/ inbox["local"][i] = Chunk(taken["remote"] - Len(inbox["local"]) + i)
            \/ i = 1 /\ IsReply(inbox["local"][i]) /\ reply \in {"pending", "cancelled"}
        /\ \A i \in DOMAIN inbox["local"] :
            inbox["local"][i] = Word("ok") => handler["remote"] = "relay"
        /\ reply = "pending" /\ main["remote"] \notin Before =>
            inbox["local"] # <<>> /\ IsReply(Head(inbox["local"]))

(* Of a side that relays: what is ahead of it is the last that was read at *)
(* the other side, in order, and what it has written is what came before.  *)
(* At the target's side nothing is missing at the front.                   *)
GotSeries(g, last) == \A i \in DOMAIN g : g[i] = last - Len(g) + i /\ g[i] \in Chunks
Flow(s) ==
    handler[s] = "relay" =>
        /\ InSeries(Ahead(s), taken[Other(s)])
        /\ GotSeries(got[s], taken[Other(s)] - Len(Ahead(s)))
        /\ s = "remote" => taken[Other(s)] = Len(got[s]) + Len(Ahead(s))
Flows == \A s \in Sides : Flow(s)

IInv == TypeOK /\ Dialogue /\ NotYet /\ RemoteBox /\ LocalBox /\ Flows
-----------------------------------------------------------------------------
(* Types.                                                                  *)

LEMMA MessageTypes ==
    /\ \A w \in Words : Word(w) \in Messages
    /\ \A k \in Chunks : Chunk(k) \in Messages
    /\ \A m \in Messages : m.n \in 0 .. MaxChunks
<1>1. /\ \A w \in Words : Word(w) \in Messages
      /\ \A k \in Chunks : Chunk(k) \in Messages
  BY DEF Messages
<1>2. \A w \in Words : Word(w).n = 0
  BY DEF Word
<1>3. \A k \in Chunks : Chunk(k).n = k
  BY DEF Chunk
<1>4. 0 \in 0 .. MaxChunks /\ \A k \in Chunks : k \in 0 .. MaxChunks
  BY ChunksAssumption DEF Chunks
<1> QED
  BY <1>1, <1>2, <1>3, <1>4 DEF Messages

LEMMA PutType ==
    ASSUME NEW q \in Seq(Messages), NEW m \in Messages
    PROVE  PutLast(q, m) \in Seq(Messages)
  BY DEF PutLast

LEMMA PostType ==
    ASSUME TypeOK, NEW s \in Sides, NEW m \in Messages, Post(s, m)
    PROVE  inbox' \in [Sides -> Seq(Messages)]
  BY DEF TypeOK, Post

LEMMA TypeStep ==
    ASSUME TypeOK, Dialogue, LocalBox, [Next]_vars
    PROVE  TypeOK'
<1> USE DEF TypeOK
<1>1. CASE Connect
  <2>1. Word("connect") \in Messages
    BY MessageTypes DEF Words
  <2>2. inbox' \in [Sides -> Seq(Messages)]
    BY <1>1, <2>1, PostType DEF Connect, Sides
  <2> QED
    BY <1>1, <2>2 DEF Connect, relayVars, appVars
<1>2. CASE TargetOpens
  <2>1. Word("ok") \in Messages
    BY MessageTypes DEF Words
  <2>2. inbox' \in [Sides -> Seq(Messages)]
    BY <1>2, <2>1, PostType DEF TargetOpens, Sides
  <2> QED
    BY <1>2, <2>2 DEF TargetOpens, StartRelay, Registered, appVars
<1>3. CASE TargetFails
  <2>1. Word("error") \in Messages
    BY MessageTypes DEF Words
  <2>2. inbox' \in [Sides -> Seq(Messages)]
    BY <1>3, <2>1, PostType DEF TargetFails, Sides
  <2> QED
    BY <1>3, <2>2 DEF TargetFails, relayVars, appVars
<1>4. CASE ReplyTimeout
  BY <1>4 DEF ReplyTimeout, relayVars, appVars
<1>5. CASE ReplyArrives
  BY <1>5 DEF ReplyArrives, relayVars, appVars
<1>6. CASE Confirmed
  BY <1>6 DEF Confirmed, StartRelay, Registered, relayVars, appVars
<1>7. ASSUME NEW s \in Sides, AppWrites(s) PROVE TypeOK'
  BY <1>7, ChunksAssumption DEF AppWrites, relayVars
<1>8. ASSUME NEW s \in Sides, AppLeaves(s) PROVE TypeOK'
  BY <1>8 DEF AppLeaves, relayVars, appVars
<1>9. ASSUME NEW s \in Sides, Deliver(s) PROVE TypeOK'
  <2>1. inbox' \in [Sides -> Seq(Messages)] /\ Head(inbox[s]) \in Messages
    BY <1>9 DEF Deliver
  <2>2. queue' \in [Sides -> Seq(Messages)]
    <3>1. PutLast(queue[s], Head(inbox[s])) \in Seq(Messages)
      BY <2>1, PutType
    <3>2. queue' = queue \/ queue' = [queue EXCEPT ![s] = PutLast(queue[s], Head(inbox[s]))]
      BY <1>9 DEF Deliver
    <3> QED
      BY <3>1, <3>2
  <2>3. main' \in [Sides -> {"idle", "asking", "confirming", "opening", "relaying", "ended"}]
    BY <1>9 DEF Deliver
  <2>4. reply' \in {"none", "pending", "cancelled", "ok", "error"}
    <3>1. CASE handler[s] = "first" /\ reply = "pending"
      <4>1. s = "local" /\ IsReply(Head(inbox[s]))
        BY <1>9, <3>1 DEF Deliver, Dialogue, LocalBox, Sides
      <4> QED
        BY <1>9, <3>1, <4>1 DEF Deliver, Result, IsReply, Word
    <3> QED
      BY <1>9, <3>1 DEF Deliver, Result
  <2> QED
    BY <1>9, <2>1, <2>2, <2>3, <2>4 DEF Deliver, appVars
<1>10. ASSUME NEW s \in Sides, ReadChunk(s) PROVE TypeOK'
  <2>1. taken[s] + 1 \in Chunks /\ taken[s] + 1 <= written[s]
    BY <1>10, ChunksAssumption DEF ReadChunk, Chunks
  <2>3. taken[s] + 1 \in 0 .. MaxChunks
    BY <2>1, ChunksAssumption DEF Chunks
  <2>4. Other(s) \in Sides
    BY DEF Other, Sides
  <2>2. inbox' \in [Sides -> Seq(Messages)]
    BY <1>10, <2>1, <2>4, PostType, MessageTypes DEF ReadChunk
  <2> QED
    BY <1>10, <2>1, <2>2, <2>3 DEF ReadChunk, appVars
<1>11. ASSUME NEW s \in Sides, Sent(s) PROVE TypeOK'
  BY <1>11 DEF Sent, LoopTop, relayVars, appVars
<1>12. ASSUME NEW s \in Sides, ReadEnds(s) PROVE TypeOK'
  BY <1>12 DEF ReadEnds, relayVars, appVars
<1>13. ASSUME NEW s \in Sides, WriteChunk(s) PROVE TypeOK'
  <2>1. Head(queue[s]).n \in 0 .. MaxChunks
    BY <1>13, MessageTypes DEF WriteChunk
  <2>2. got' \in [Sides -> Seq(0 .. MaxChunks)]
    BY <1>13, <2>1 DEF WriteChunk
  <2>3. queue' \in [Sides -> Seq(Messages)]
    BY <1>13 DEF WriteChunk
  <2> QED
    BY <1>13, <2>2, <2>3 DEF WriteChunk, appVars
<1>14. ASSUME NEW s \in Sides, Drained(s) PROVE TypeOK'
  BY <1>14 DEF Drained, LoopTop, relayVars, appVars
<1>15. ASSUME NEW s \in Sides, IdleTimeout(s) PROVE TypeOK'
  BY <1>15 DEF IdleTimeout, Idle, relayVars, appVars
<1>16. ASSUME NEW s \in Sides, RelayEnds(s) PROVE TypeOK'
  BY <1>16 DEF RelayEnds, relayVars, appVars
<1>17. CASE UNCHANGED vars
  BY <1>17 DEF vars, relayVars, appVars
<1> QED
  BY <1>1, <1>2, <1>3, <1>4, <1>5, <1>6, <1>7, <1>8, <1>9,
     <1>10, <1>11, <1>12, <1>13, <1>14, <1>15, <1>16, <1>17
     DEF Next

-----------------------------------------------------------------------------
(* The dialogue.                                                           *)

LEMMA DialogueStep ==
    ASSUME TypeOK, Dialogue, NotYet, LocalBox, RemoteBox, [Next]_vars
    PROVE  Dialogue'
<1> USE DEF TypeOK, Dialogue, Sides, Before
<1>1. CASE Connect
  BY <1>1 DEF Connect, Post, Word, relayVars, appVars
<1>2. CASE TargetOpens
  BY <1>2 DEF TargetOpens, Post, StartRelay, Registered, Word, relayVars, appVars
<1>3. CASE TargetFails
  BY <1>3 DEF TargetFails, Post, Word, relayVars, appVars
<1>4. CASE ReplyTimeout
  BY <1>4 DEF ReplyTimeout, relayVars, appVars
<1>5. CASE ReplyArrives
  BY <1>5 DEF ReplyArrives, relayVars, appVars
<1>6. CASE Confirmed
  BY <1>6 DEF Confirmed, StartRelay, Registered, relayVars, appVars
<1>7. ASSUME NEW s \in Sides, AppWrites(s) PROVE Dialogue'
  BY <1>7 DEF AppWrites, relayVars, appVars
<1>8. ASSUME NEW s \in Sides, AppLeaves(s) PROVE Dialogue'
  BY <1>8 DEF AppLeaves, relayVars, appVars
<1>9. ASSUME NEW s \in Sides, Deliver(s) PROVE Dialogue'
  <2>1. ASSUME s = "local", handler[s] = "first", reply = "pending"
        PROVE  IsReply(Head(inbox[s])) /\ main["remote"] \notin Before
    BY <1>9, <2>1 DEF Deliver, LocalBox
  <2>2. s = "local" /\ handler[s] = "first" /\ reply = "pending" =>
          /\ Result(Head(inbox[s])) \in {"ok", "error"}
          /\ Result(Head(inbox[s])) = "ok" => handler["remote"] = "relay"
    BY <1>9, <2>1 DEF Deliver, Result, IsReply, LocalBox, Word
  <2>3. s = "local" => handler[s] \in {"first", "relay"} /\ main["remote"] \notin Before
    BY <1>9 DEF Deliver
  <2>4. s = "remote" /\ handler[s] = "dispatch" => main["remote"] = "idle" /\ main["local"] # "idle"
    BY <1>9 DEF Deliver, RemoteBox
  <2>5. CASE s = "local"
    BY <1>9, <2>2, <2>3, <2>5 DEF Deliver, Result
  <2>6. CASE s = "remote"
    BY <1>9, <2>4, <2>6 DEF Deliver
  <2> QED
    BY <2>5, <2>6
<1>10. ASSUME NEW s \in Sides, ReadChunk(s) PROVE Dialogue'
  <2>1. handler[s] = "relay"
    BY <1>10 DEF ReadChunk, NotYet
  <2> QED
    BY <1>10, <2>1 DEF ReadChunk, Post, Other
<1>11. ASSUME NEW s \in Sides, Sent(s) PROVE Dialogue'
  BY <1>11 DEF Sent, LoopTop, relayVars, appVars
<1>12. ASSUME NEW s \in Sides, ReadEnds(s) PROVE Dialogue'
  BY <1>12 DEF ReadEnds, relayVars, appVars
<1>13. ASSUME NEW s \in Sides, WriteChunk(s) PROVE Dialogue'
  BY <1>13 DEF WriteChunk, relayVars, appVars
<1>14. ASSUME NEW s \in Sides, Drained(s) PROVE Dialogue'
  BY <1>14 DEF Drained, LoopTop, relayVars, appVars
<1>15. ASSUME NEW s \in Sides, IdleTimeout(s) PROVE Dialogue'
  BY <1>15 DEF IdleTimeout, Idle, relayVars, appVars
<1>16. ASSUME NEW s \in Sides, RelayEnds(s) PROVE Dialogue'
  BY <1>16 DEF RelayEnds, relayVars, appVars
<1>17. CASE UNCHANGED vars
  BY <1>17 DEF vars, relayVars, appVars
<1> QED
  BY <1>1, <1>2, <1>3, <1>4, <1>5, <1>6, <1>7, <1>8, <1>9,
     <1>10, <1>11, <1>12, <1>13, <1>14, <1>15, <1>16, <1>17
     DEF Next

LEMMA NotYetStep ==
    ASSUME TypeOK, Dialogue, NotYet, [Next]_vars
    PROVE  NotYet'
<1> USE DEF TypeOK, NotYet, Sides
<1>1. CASE Connect
  BY <1>1 DEF Connect, relayVars, appVars, Dialogue
<1>2. CASE TargetOpens
  BY <1>2 DEF TargetOpens, Post, StartRelay, Registered, Word, relayVars, appVars
<1>3. CASE TargetFails
  BY <1>3 DEF TargetFails, Post, Word, relayVars, appVars
<1>4. CASE ReplyTimeout
  BY <1>4 DEF ReplyTimeout, relayVars, appVars
<1>5. CASE ReplyArrives
  BY <1>5 DEF ReplyArrives, relayVars, appVars
<1>6. CASE Confirmed
  BY <1>6 DEF Confirmed, StartRelay, Registered, relayVars, appVars
<1>7. ASSUME NEW s \in Sides, AppWrites(s) PROVE NotYet'
  BY <1>7 DEF AppWrites, relayVars, appVars
<1>8. ASSUME NEW s \in Sides, AppLeaves(s) PROVE NotYet'
  BY <1>8 DEF AppLeaves, relayVars, appVars
<1>9. ASSUME NEW s \in Sides, Deliver(s) PROVE NotYet'
  BY <1>9 DEF Deliver, Result, PutLast, relayVars, appVars
<1>10. ASSUME NEW s \in Sides, ReadChunk(s) PROVE NotYet'
  BY <1>10 DEF ReadChunk, Post, relayVars, appVars
<1>11. ASSUME NEW s \in Sides, Sent(s) PROVE NotYet'
  BY <1>11 DEF Sent, LoopTop, relayVars, appVars
<1>12. ASSUME NEW s \in Sides, ReadEnds(s) PROVE NotYet'
  BY <1>12 DEF ReadEnds, relayVars, appVars
<1>13. ASSUME NEW s \in Sides, WriteChunk(s) PROVE NotYet'
  BY <1>13 DEF WriteChunk, relayVars, appVars
<1>14. ASSUME NEW s \in Sides, Drained(s) PROVE NotYet'
  BY <1>14 DEF Drained, LoopTop, relayVars, appVars
<1>15. ASSUME NEW s \in Sides, IdleTimeout(s) PROVE NotYet'
  BY <1>15 DEF IdleTimeout, Idle, relayVars, appVars
<1>16. ASSUME NEW s \in Sides, RelayEnds(s) PROVE NotYet'
  BY <1>16 DEF RelayEnds, relayVars, appVars
<1>17. CASE UNCHANGED vars
  BY <1>17 DEF vars, relayVars, appVars
<1> QED
  BY <1>1, <1>2, <1>3, <1>4, <1>5, <1>6, <1>7, <1>8, <1>9,
     <1>10, <1>11, <1>12, <1>13, <1>14, <1>15, <1>16, <1>17
     DEF Next

LEMMA RemoteBoxStep ==
    ASSUME TypeOK, Dialogue, NotYet, RemoteBox, [Next]_vars
    PROVE  RemoteBox'
<1> USE DEF TypeOK, Dialogue, RemoteBox, Sides, Before
<1>1. CASE Connect
  <2>1. inbox["remote"] = <<>> /\ main["remote"] = "idle"
    BY <1>1 DEF Connect
  <2>2. inbox'["remote"] = <<Word("connect")>>
    BY <1>1, <2>1 DEF Connect, Post
  <2> QED
    BY <1>1, <2>1, <2>2 DEF Connect
<1>2. CASE TargetOpens
  BY <1>2 DEF TargetOpens, Post, StartRelay, Registered, Word, relayVars, appVars
<1>3. CASE TargetFails
  BY <1>3 DEF TargetFails, Post, Word, relayVars, appVars
<1>4. CASE ReplyTimeout
  BY <1>4 DEF ReplyTimeout, relayVars, appVars
<1>5. CASE ReplyArrives
  BY <1>5 DEF ReplyArrives, relayVars, appVars
<1>6. CASE Confirmed
  BY <1>6 DEF Confirmed, StartRelay, Registered, relayVars, appVars
<1>7. ASSUME NEW s \in Sides, AppWrites(s) PROVE RemoteBox'
  BY <1>7 DEF AppWrites, relayVars, appVars
<1>8. ASSUME NEW s \in Sides, AppLeaves(s) PROVE RemoteBox'
  BY <1>8 DEF AppLeaves, relayVars, appVars
<1>9. ASSUME NEW s \in Sides, Deliver(s) PROVE RemoteBox'
  <2>1. CASE s = "local"
    BY <1>9, <2>1 DEF Deliver
  <2>2. CASE s = "remote"
    <3>1. Tail(<<Word("connect")>>) = <<>>
      OBVIOUS
    <3>2. handler["remote"] = "dispatch" => inbox'["remote"] = <<>>
      BY <1>9, <2>2, <3>1 DEF Deliver
    <3> QED
      BY <1>9, <2>2, <3>2 DEF Deliver
  <2> QED
    BY <2>1, <2>2
<1>10. ASSUME NEW s \in Sides, ReadChunk(s) PROVE RemoteBox'
  <2>1. handler[s] = "relay"
    BY <1>10 DEF ReadChunk, NotYet
  <2> QED
    BY <1>10, <2>1 DEF ReadChunk, Post, Other
<1>11. ASSUME NEW s \in Sides, Sent(s) PROVE RemoteBox'
  BY <1>11 DEF Sent, LoopTop, relayVars, appVars
<1>12. ASSUME NEW s \in Sides, ReadEnds(s) PROVE RemoteBox'
  BY <1>12 DEF ReadEnds, relayVars, appVars
<1>13. ASSUME NEW s \in Sides, WriteChunk(s) PROVE RemoteBox'
  BY <1>13 DEF WriteChunk, relayVars, appVars
<1>14. ASSUME NEW s \in Sides, Drained(s) PROVE RemoteBox'
  BY <1>14 DEF Drained, LoopTop, relayVars, appVars
<1>15. ASSUME NEW s \in Sides, IdleTimeout(s) PROVE RemoteBox'
  BY <1>15 DEF IdleTimeout, Idle, relayVars, appVars
<1>16. ASSUME NEW s \in Sides, RelayEnds(s) PROVE RemoteBox'
  BY <1>16 DEF RelayEnds, relayVars, appVars
<1>17. CASE UNCHANGED vars
  BY <1>17 DEF vars, relayVars, appVars
<1> QED
  BY <1>1, <1>2, <1>3, <1>4, <1>5, <1>6, <1>7, <1>8, <1>9,
     <1>10, <1>11, <1>12, <1>13, <1>14, <1>15, <1>16, <1>17
     DEF Next
-----------------------------------------------------------------------------
(* Messages in order.                                                      *)

(* What is read at the other end is the next in the series; what is taken  *)
(* from the front leaves it one.                                           *)
LEMMA SeriesAppend ==
    ASSUME NEW msgs \in Seq(Messages), NEW last \in Nat, InSeries(msgs, last)
    PROVE  InSeries(Append(msgs, Chunk(last + 1)), last + 1)
  BY DEF InSeries

LEMMA SeriesTail ==
    ASSUME NEW msgs \in Seq(Messages), NEW last \in Nat, InSeries(msgs, last), msgs # <<>>
    PROVE  InSeries(Tail(msgs), last)
  BY DEF InSeries

(* A message that goes from the channel to the queue stays where it is in  *)
(* the order, and so do the others when one joins the last or the first is *)
(* written.                                                                *)
LEMMA AheadSteps ==
    ASSUME NEW q \in Seq(Messages), NEW in \in Seq(Messages)
    PROVE  /\ in # <<>> => Append(q, Head(in)) \o Tail(in) = q \o in
           /\ \A m \in Messages : q \o Append(in, m) = Append(q \o in, m)
           /\ q # <<>> =>
                q \o in # <<>> /\ Head(q \o in) = Head(q) /\ Tail(q) \o in = Tail(q \o in)
           /\ q = <<>> => q \o in = in
<1>1. in # <<>> => Append(q, Head(in)) \o Tail(in) = q \o in
  OBVIOUS
<1>2. ASSUME NEW m \in Messages PROVE q \o Append(in, m) = Append(q \o in, m)
  OBVIOUS
<1>3. q # <<>> => q \o in # <<>> /\ Head(q \o in) = Head(q) /\ Tail(q) \o in = Tail(q \o in)
  OBVIOUS
<1>4. q = <<>> => q \o in = in
  OBVIOUS
<1> QED
  BY <1>1, <1>2, <1>3, <1>4

LEMMA TailFacts ==
    ASSUME NEW msgs \in Seq(Messages), msgs # <<>>
    PROVE  /\ Tail(msgs) \in Seq(Messages) /\ Len(Tail(msgs)) = Len(msgs) - 1
           /\ \A i \in DOMAIN Tail(msgs) :
                /\ i \in Nat /\ i + 1 \in DOMAIN msgs /\ i + 1 # 1
                /\ Tail(msgs)[i] = msgs[i + 1]
  OBVIOUS

LEMMA AppendFacts ==
    ASSUME NEW msgs \in Seq(Messages), NEW m \in Messages
    PROVE  /\ Append(msgs, m) \in Seq(Messages) /\ Len(Append(msgs, m)) = Len(msgs) + 1
           /\ DOMAIN Append(msgs, m) = DOMAIN msgs \cup {Len(msgs) + 1}
           /\ \A i \in DOMAIN msgs : Append(msgs, m)[i] = msgs[i]
           /\ Append(msgs, m)[Len(msgs) + 1] = m
           /\ msgs # <<>> => Append(msgs, m) # <<>> /\ Head(Append(msgs, m)) = Head(msgs)
  OBVIOUS

LEMMA AppendSeries ==
    ASSUME NEW msgs \in Seq(Messages), NEW last \in Nat, Chunk(last + 1) \in Messages,
           NEW more, more = Append(msgs, Chunk(last + 1)), NEW now, now = last + 1
    PROVE  /\ \A i \in DOMAIN msgs :
                more[i] = msgs[i] /\ now - Len(more) + i = last - Len(msgs) + i
           /\ DOMAIN more = DOMAIN msgs \cup {Len(msgs) + 1}
           /\ more[Len(msgs) + 1] = Chunk(now - Len(more) + (Len(msgs) + 1))
           /\ msgs # <<>> => more # <<>> /\ Head(more) = Head(msgs)
<1>1. Len(msgs) \in Nat /\ Len(more) = Len(msgs) + 1
  BY AppendFacts
<1>2. \A i \in DOMAIN msgs : i \in Nat
  OBVIOUS
<1>3. \A i \in Nat : now - Len(more) + i = last - Len(msgs) + i
  BY <1>1
<1>4. now - Len(more) + (Len(msgs) + 1) = last + 1
  BY <1>1
<1> QED
  BY <1>2, <1>3, <1>4, AppendFacts

LEMMA LocalBoxStep ==
    ASSUME TypeOK, Dialogue, NotYet, LocalBox, [Next]_vars
    PROVE  LocalBox'
<1> USE DEF TypeOK, Dialogue, Before
<1> DEFINE box == inbox["local"]
<1>1. CASE Connect
  <2>1. box = <<>> /\ box' = box
    BY <1>1 DEF Connect, Post, Sides
  <2> QED
    BY <1>1, <2>1 DEF Connect, LocalBox
<1>2. CASE TargetOpens
  <2>1. box' = <<Word("ok")>> /\ handler'["remote"] = "relay" /\ main'["remote"] = "relaying"
    <3>1. box = <<>> /\ box' = Append(box, Word("ok"))
      BY <1>2 DEF TargetOpens, Post, Sides
    <3>2. handler'["remote"] = "relay" /\ main'["remote"] = "relaying"
      BY <1>2 DEF TargetOpens, StartRelay, Registered, Sides
    <3> QED
      BY <3>1, <3>2
  <2>2. reply \in {"pending", "cancelled"} /\ reply' = reply
    BY <1>2 DEF TargetOpens
  <2> QED
    BY <2>1, <2>2 DEF LocalBox, IsReply
<1>3. CASE TargetFails
  <2>1. box' = <<Word("error")>> /\ main'["remote"] = "ended"
    <3>1. box = <<>> /\ box' = Append(box, Word("error"))
      BY <1>3 DEF TargetFails, Post, Sides
    <3> QED
      BY <1>3, <3>1 DEF TargetFails, Sides
  <2>2. reply \in {"pending", "cancelled"} /\ reply' = reply /\ Word("error") # Word("ok")
    BY <1>3 DEF TargetFails, Word
  <2> QED
    BY <2>1, <2>2 DEF LocalBox, IsReply
<1>4. CASE ReplyTimeout
  BY <1>4 DEF ReplyTimeout, LocalBox, relayVars, appVars, Sides
<1>5. CASE Confirmed
  BY <1>5 DEF Confirmed, StartRelay, Registered, LocalBox, relayVars, appVars, Sides
<1>6. ASSUME NEW s \in Sides, Deliver(s) PROVE LocalBox'
  <2>1. CASE s = "remote"
    <3>1. box' = box /\ reply' = reply /\ handler' = handler /\ taken' = taken
      BY <1>6, <2>1 DEF Deliver, Sides
    <3>2. main' = main \/ main' = [main EXCEPT !["remote"] = "opening"]
      BY <1>6, <2>1 DEF Deliver
    <3> QED
      BY <3>1, <3>2 DEF LocalBox, Sides
  <2>2. CASE s = "local" /\ handler["local"] # "relay"
    <3>1. box # <<>> /\ box \in Seq(Messages) /\ box' = Tail(box)
      BY <1>6, <2>2 DEF Deliver, Sides
    <3>2. main' = main /\ handler' = handler /\ taken' = taken /\ reply' = Result(Head(box))
      BY <1>6, <2>2 DEF Deliver
    <3>3. reply = "pending" => IsReply(Head(box))
      BY <2>2, <3>1 DEF LocalBox
    <3>4. reply' # "pending"
      BY <3>2, <3>3 DEF Result, IsReply, Word
    <3>5. \A i \in DOMAIN Tail(box) :
            Tail(box)[i] = box[i + 1] /\ i + 1 \in DOMAIN box /\ i + 1 # 1
            /\ Len(Tail(box)) = Len(box) - 1
      BY <3>1, TailFacts
    <3>6. \A i \in DOMAIN Tail(box) :
            Tail(box)[i] = Chunk(taken["remote"] - Len(Tail(box)) + i)
      <4>1. \A i \in DOMAIN Tail(box) : box[i + 1] = Chunk(taken["remote"] - Len(box) + (i + 1))
        BY <2>2, <3>5 DEF LocalBox
      <4>2. \A i \in DOMAIN Tail(box) :
              taken["remote"] - Len(box) + (i + 1) = taken["remote"] - Len(Tail(box)) + i
        BY <3>1, <3>5 DEF Sides
      <4> QED
        BY <3>5, <4>1, <4>2
    <3> QED
      BY <2>2, <3>1, <3>2, <3>4, <3>5, <3>6 DEF LocalBox
  <2>3. CASE s = "local" /\ handler["local"] = "relay"
    BY <1>6, <2>3 DEF Deliver, LocalBox
  <2> QED
    BY <2>1, <2>2, <2>3 DEF Sides
<1>7. ASSUME NEW s \in Sides, ReadChunk(s) PROVE LocalBox'
  <2>1. handler[s] = "relay"
    BY <1>7 DEF ReadChunk, NotYet
  <2>2. CASE s = "local"
    BY <1>7, <2>1, <2>2 DEF ReadChunk, LocalBox
  <2>3. CASE s = "remote"
    <3>1. /\ box \in Seq(Messages) /\ box' = Append(box, Chunk(taken["remote"] + 1))
          /\ taken'["remote"] = taken["remote"] + 1 /\ taken["remote"] \in Nat
      BY <1>7, <2>3, ChunksAssumption DEF ReadChunk, Post, Other, Sides
    <3>2. main' = main /\ handler' = handler /\ reply' = reply
      BY <1>7 DEF ReadChunk
    <3>a. Chunk(taken["remote"] + 1) \in Messages
      BY <1>7, <2>3, MessageTypes, ChunksAssumption DEF ReadChunk, Chunks
    <3>3. /\ \A i \in DOMAIN box :
                box'[i] = box[i] /\ taken'["remote"] - Len(box') + i = taken["remote"] - Len(box) + i
          /\ DOMAIN box' = DOMAIN box \cup {Len(box) + 1}
          /\ box'[Len(box) + 1] = Chunk(taken'["remote"] - Len(box') + (Len(box) + 1))
          /\ box # <<>> => box' # <<>> /\ Head(box') = Head(box)
      <4> HIDE DEF TypeOK, Dialogue, Before
      <4> DEFINE last == taken["remote"]  now == taken'["remote"]  more == box'
      <4>1. /\ box \in Seq(Messages) /\ last \in Nat /\ Chunk(last + 1) \in Messages
            /\ more = Append(box, Chunk(last + 1)) /\ now = last + 1
        BY <3>1, <3>a
      <4> HIDE DEF box, last, now, more
      <4>2. /\ \A i \in DOMAIN box : more[i] = box[i] /\ now - Len(more) + i = last - Len(box) + i
            /\ DOMAIN more = DOMAIN box \cup {Len(box) + 1}
            /\ more[Len(box) + 1] = Chunk(now - Len(more) + (Len(box) + 1))
            /\ box # <<>> => more # <<>> /\ Head(more) = Head(box)
        BY <4>1, AppendSeries
      <4> QED
        BY <4>2 DEF last, now, more
    <3>4. box'[Len(box) + 1] = Chunk(taken["remote"] + 1)
      BY <3>1, <3>a, AppendFacts
    <3>6. box'[Len(box) + 1] # Word("ok")
      BY <3>4 DEF Chunk, Word
    <3> QED
      BY <3>2, <3>3, <3>6 DEF LocalBox
  <2> QED
    BY <2>2, <2>3 DEF Sides
<1>8. CASE UNCHANGED <<main, reply, handler, inbox, taken>>
  BY <1>8 DEF LocalBox
<1>9. CASE ReplyArrives
  BY <1>9 DEF ReplyArrives, LocalBox, Sides
<1>10. ASSUME NEW s \in Sides, RelayEnds(s) PROVE LocalBox'
  BY <1>10 DEF RelayEnds, LocalBox, Sides
<1> QED
  BY <1>1, <1>2, <1>3, <1>4, <1>5, <1>6, <1>7, <1>8, <1>9, <1>10
     DEF Next, vars, relayVars, appVars, AppWrites, AppLeaves, Sent, ReadEnds, WriteChunk,
         Drained, IdleTimeout

(* A step that leaves alone what is ahead of a side.                       *)
Same(t) ==
    /\ handler'[t] = handler[t] /\ got'[t] = got[t]
    /\ Ahead(t)' = Ahead(t) /\ taken'[Other(t)] = taken[Other(t)]

LEMMA SameStep ==
    ASSUME NEW t \in Sides, Flow(t), Same(t)
    PROVE  Flow(t)'
  BY DEF Same, Flow

(* A side begins to relay with nothing but unread chunks, or nothing.      *)
LEMMA BeginStep ==
    ASSUME TypeOK, Dialogue, NotYet, RemoteBox, LocalBox, NEW t \in Sides, StartRelay(t),
           UNCHANGED taken, handler[t] # "relay",
           \/ t = "local" /\ main["local"] = "confirming" /\ UNCHANGED inbox
           \/ t = "remote" /\ main["remote"] = "opening" /\ inbox'["remote"] = inbox["remote"]
    PROVE  Flow(t)'
<1>1. /\ queue'[t] = <<>> /\ got'[t] = <<>> /\ inbox'[t] = inbox[t] /\ taken' = taken
      /\ inbox[t] \in Seq(Messages)
  BY DEF StartRelay, NotYet, TypeOK
<1>2. Ahead(t)' = inbox[t]
  BY <1>1, AheadSteps DEF Ahead
<1>3. CASE t = "local"
  <2>1. InSeries(inbox[t], taken[Other(t)])
    BY <1>3 DEF LocalBox, InSeries, Dialogue, Other
  <2> QED
    BY <1>1, <1>2, <1>3, <2>1 DEF Flow, GotSeries
<1>4. CASE t = "remote"
  <2>1. inbox[t] = <<>>
    BY <1>4 DEF RemoteBox, Dialogue, Before
  <2>2. taken["local"] = 0
    BY <1>4 DEF NotYet, Dialogue, Before, Sides
  <2> QED
    BY <1>1, <1>2, <1>4, <2>1, <2>2 DEF Flow, GotSeries, InSeries, Other
<1> QED
  BY <1>3, <1>4 DEF Sides

LEMMA FlowsStep ==
    ASSUME TypeOK, Dialogue, NotYet, RemoteBox, LocalBox, Flows, [Next]_vars, NEW t \in Sides
    PROVE  Flow(t)'
<1>0. /\ Flow(t) /\ Other(t) \in Sides /\ Other(t) # t /\ Other(Other(t)) = t
      /\ queue[t] \in Seq(Messages) /\ inbox[t] \in Seq(Messages) /\ Ahead(t) \in Seq(Messages)
      /\ Len(Ahead(t)) \in Nat /\ got[t] \in Seq(0 .. MaxChunks) /\ Len(got[t]) \in Nat
      /\ taken[Other(t)] \in Nat
  <2>1. queue[t] \in Seq(Messages) /\ inbox[t] \in Seq(Messages) /\ got[t] \in Seq(0 .. MaxChunks)
    BY DEF TypeOK
  <2>2. Other(t) \in Sides /\ Other(t) # t /\ Other(Other(t)) = t
    BY DEF Other, Sides
  <2>3. taken[Other(t)] \in Nat
    BY <2>2, ChunksAssumption DEF TypeOK
  <2>4. Ahead(t) \in Seq(Messages)
    BY <2>1 DEF Ahead
  <2> QED
    BY <2>1, <2>2, <2>3, <2>4 DEF Flows
<1>1. CASE Connect
  <2>1. handler'["local"] = "first" /\ handler'["remote"] = handler["remote"]
    BY <1>1 DEF Connect, TypeOK, Sides
  <2>2. handler["remote"] = "dispatch"
    BY <1>1 DEF Connect, Dialogue, Before
  <2> QED
    BY <2>1, <2>2 DEF Flow, Sides
<1>2. CASE TargetOpens
  <2>1. CASE t = "remote"
    BY <1>2, <2>1, BeginStep DEF TargetOpens, Post, TypeOK, Dialogue, Before, Sides
  <2>2. CASE t = "local"
    BY <1>2, <2>2 DEF TargetOpens, StartRelay, Registered, Flow, Dialogue, Before, TypeOK, Sides
  <2> QED
    BY <2>1, <2>2 DEF Sides
<1>3. CASE TargetFails
  BY <1>3, <1>0, SameStep DEF TargetFails, Post, Flow, Same, Ahead, relayVars, Dialogue, Before,
                              TypeOK, Sides
<1>4. CASE Confirmed
  <2>1. CASE t = "local" /\ StartRelay("local")
    <3>1. CASE handler[t] = "relay"
      BY <1>4, <2>1, <3>1 DEF Confirmed, Dialogue
    <3> QED
      BY <1>4, <2>1, <3>1, BeginStep DEF Confirmed
  <2>2. CASE ~(t = "local" /\ StartRelay("local"))
    <3>1. Same(t)
      BY <1>4, <2>2 DEF Confirmed, StartRelay, Registered, Same, Ahead, relayVars, TypeOK, Sides
    <3> QED
      BY <1>0, <3>1, SameStep
  <2> QED
    BY <2>1, <2>2
<1>5. ASSUME NEW s \in Sides, Deliver(s) PROVE Flow(t)'
  <2>1. CASE handler[t] = "relay" /\ s = t
    <3>1. /\ inbox[t] # <<>> /\ inbox'[t] = Tail(inbox[t])
          /\ queue'[t] = Append(queue[t], Head(inbox[t]))
      BY <1>5, <2>1 DEF Deliver, PutLast, TypeOK
    <3>2. Ahead(t)' = Ahead(t)
      <4>1. Append(queue[t], Head(inbox[t])) \o Tail(inbox[t]) = queue[t] \o inbox[t]
        BY <1>0, <3>1, AheadSteps
      <4> QED
        BY <3>1, <4>1 DEF Ahead
    <3>3. Same(t)
      BY <1>5, <3>2 DEF Deliver, Same
    <3> QED
      BY <1>0, <3>3, SameStep
  <2>2. CASE s # t
    <3>1. inbox'[t] = inbox[t] /\ queue'[t] = queue[t]
      BY <1>5, <2>2 DEF Deliver, TypeOK
    <3>2. Same(t)
      BY <1>5, <3>1 DEF Deliver, Same, Ahead
    <3> QED
      BY <1>0, <3>2, SameStep
  <2>3. CASE handler[t] # "relay"
    BY <1>5, <2>3 DEF Deliver, Flow
  <2> QED
    BY <2>1, <2>2, <2>3
<1>6. ASSUME NEW s \in Sides, ReadChunk(s) PROVE Flow(t)'
  <2>1. CASE s = t
    <3>1. inbox'[t] = inbox[t] /\ queue'[t] = queue[t] /\ taken'[Other(t)] = taken[Other(t)]
      BY <1>0, <1>6, <2>1 DEF ReadChunk, Post, TypeOK
    <3>2. Same(t)
      BY <1>6, <3>1 DEF ReadChunk, Same, Ahead
    <3> QED
      BY <1>0, <3>2, SameStep
  <2>2. CASE s = Other(t)
    <3> DEFINE last == taken[Other(t)]
    <3>1. /\ inbox'[t] = Append(inbox[t], Chunk(last + 1)) /\ queue'[t] = queue[t]
          /\ taken'[Other(t)] = last + 1 /\ got'[t] = got[t] /\ handler'[t] = handler[t]
      BY <1>0, <1>6, <2>2 DEF ReadChunk, Post, TypeOK
    <3>2. Chunk(last + 1) \in Messages
      BY <1>0, <1>6, <2>2, MessageTypes, ChunksAssumption DEF ReadChunk, Chunks, TypeOK
    <3>3. Ahead(t)' = Append(Ahead(t), Chunk(last + 1))
      <4>1. queue[t] \o Append(inbox[t], Chunk(last + 1)) = Append(Ahead(t), Chunk(last + 1))
        BY <1>0, <3>2, AheadSteps DEF Ahead
      <4> QED
        BY <3>1, <4>1 DEF Ahead
    <3> DEFINE now == Append(Ahead(t), Chunk(last + 1))
    <3>4. Len(now) = Len(Ahead(t)) + 1
      BY <1>0, <3>2, AppendFacts
    <3>5. InSeries(Ahead(t), last) => InSeries(now, last + 1)
      BY <1>0, SeriesAppend
    <3>8. last \in Nat /\ Len(Ahead(t)) \in Nat /\ Len(got[t]) \in Nat
      BY <1>0
    <3> HIDE DEF now, last
    <3>6. (last + 1) - Len(now) = last - Len(Ahead(t))
      BY <3>4, <3>8
    <3>7. last = Len(got[t]) + Len(Ahead(t)) => last + 1 = Len(got[t]) + Len(now)
      <4> DEFINE n == Len(got[t])  m == Len(Ahead(t))  k == Len(now)
      <4>1. k = m + 1 /\ n \in Nat /\ m \in Nat
        BY <3>4, <3>8
      <4> HIDE DEF n, m, k
      <4>2. last = n + m => last + 1 = n + k
        BY <4>1
      <4> QED
        BY <4>2 DEF n, m, k
    <3>9. Ahead(t)' = now /\ taken'[Other(t)] = last + 1 /\ taken[Other(t)] = last
      BY <3>1, <3>3 DEF now, last
    <3> QED
      BY <1>0, <3>1, <3>5, <3>6, <3>7, <3>9 DEF Flow
  <2> QED
    BY <1>0, <2>1, <2>2 DEF Sides, Other
<1>7. ASSUME NEW s \in Sides, WriteChunk(s) PROVE Flow(t)'
  <2>1. CASE s # t
    <3>1. Same(t)
      BY <1>7, <2>1 DEF WriteChunk, Same, Ahead, TypeOK
    <3> QED
      BY <1>0, <3>1, SameStep
  <2>2. CASE s = t /\ handler[t] = "relay"
    <3> DEFINE last == taken[Other(t)]
    <3>1. /\ queue[t] # <<>> /\ queue'[t] = Tail(queue[t]) /\ inbox' = inbox
          /\ got'[t] = Append(got[t], Head(queue[t]).n) /\ taken' = taken /\ handler' = handler
      BY <1>7, <2>2 DEF WriteChunk, TypeOK
    <3>2. Ahead(t) # <<>> /\ Head(Ahead(t)) = Head(queue[t]) /\ Ahead(t)' = Tail(Ahead(t))
      <4>1. /\ queue[t] \o inbox[t] # <<>> /\ Head(queue[t] \o inbox[t]) = Head(queue[t])
            /\ Tail(queue[t]) \o inbox[t] = Tail(queue[t] \o inbox[t])
        BY <1>0, <3>1, AheadSteps
      <4> QED
        BY <3>1, <4>1 DEF Ahead
    <3> DEFINE now == Tail(Ahead(t))
    <3>3. Len(now) = Len(Ahead(t)) - 1
      BY <1>0, <3>2, TailFacts
    <3>4. InSeries(now, last)
      BY <1>0, <2>2, <3>2, SeriesTail DEF Flow
    <3>5. Head(queue[t]).n = last - Len(Ahead(t)) + 1 /\ Head(queue[t]).n \in Chunks
      <4>1. Head(Ahead(t)) = Chunk(last - Len(Ahead(t)) + 1) /\ Head(Ahead(t)) \in Messages
        BY <1>0, <2>2, <3>2 DEF Flow, InSeries
      <4> QED
        <5>1. Head(queue[t]).n = last - Len(Ahead(t)) + 1 /\ Head(queue[t]).type = "chunk"
          BY <3>2, <4>1 DEF Chunk
        <5> QED
          BY <3>2, <4>1, <5>1 DEF Chunk, Messages, Word, Words
    <3>8. /\ last \in Nat /\ Len(Ahead(t)) \in Nat /\ got[t] \in Seq(0 .. MaxChunks)
          /\ GotSeries(got[t], last - Len(Ahead(t)))
          /\ t = "remote" => last = Len(got[t]) + Len(Ahead(t))
      BY <1>0, <2>2 DEF Flow
    <3>9. Ahead(t)' = now /\ taken'[Other(t)] = last /\ taken[Other(t)] = last
      BY <3>1, <3>2
    <3> DEFINE n == Head(queue[t]).n  all == Len(Ahead(t))  less == Len(now)  was == got[t]
    <3>10. /\ n = last - all + 1 /\ n \in Chunks /\ less = all - 1
           /\ last \in Nat /\ all \in Nat /\ was \in Seq(0 .. MaxChunks) /\ GotSeries(was, last - all)
      BY <3>3, <3>5, <3>8
    <3> HIDE DEF now, last, n, all, less, was
    <3>6. GotSeries(Append(was, n), last - less)
      <4>1. n \in Int /\ Len(was) \in Nat /\ last - less = last - all + 1
        BY <3>10
      <4> QED
        BY <3>10, <4>1 DEF GotSeries
    <3>7. Len(Append(was, n)) + less = Len(was) + all
      BY <3>10
    <3> QED
      BY <2>2, <3>1, <3>4, <3>6, <3>7, <3>8, <3>9 DEF Flow, now, n, all, less, was
  <2>3. CASE handler[t] # "relay"
    BY <1>7, <2>3 DEF WriteChunk, Flow
  <2> QED
    BY <2>1, <2>2, <2>3
<1>8. CASE UNCHANGED <<handler, inbox, queue, got, taken>>
  BY <1>0, <1>8, SameStep DEF Same, Ahead
<1> QED
  BY <1>1, <1>2, <1>3, <1>4, <1>5, <1>6, <1>7, <1>8
     DEF Next, vars, relayVars, appVars, ReplyTimeout, ReplyArrives, AppWrites, AppLeaves, Sent,
         ReadEnds, Drained, IdleTimeout, RelayEnds
-----------------------------------------------------------------------------
(* Theorems.                                                               *)

LEMMA Initially == Init => IInv
<1> SUFFICES ASSUME Init PROVE IInv
  OBVIOUS
<1>1. TypeOK
  BY ChunksAssumption DEF Init, TypeOK
<1>2. Dialogue /\ NotYet /\ RemoteBox /\ LocalBox
  BY DEF Init, Dialogue, NotYet, RemoteBox, LocalBox, Before, Sides
<1>3. Flows
  BY DEF Init, Flows, Flow, Sides
<1> QED
  BY <1>1, <1>2, <1>3 DEF IInv

LEMMA Inductive == Spec => []IInv
<1>1. IInv /\ [Next]_vars => IInv'
  BY TypeStep, DialogueStep, NotYetStep, RemoteBoxStep, LocalBoxStep, FlowsStep DEF IInv, Flows
<1> QED
  BY <1>1, Initially, PTL DEF Spec

(* Every variable keeps its type; in particular the future of the reply    *)
(* is given a reply, never a chunk.                                        *)
THEOREM ConnectTypeOK == Spec => []TypeOK
<1>1. IInv => TypeOK
  BY DEF IInv
<1> QED
  BY <1>1, Inductive, PTL

(* What the target was given and what is ahead of it is all the local side *)
(* has read from the client, in order, however the timeouts and the closes *)
(* of both sides fall.                                                     *)
THEOREM TargetGetsEverything == Spec => []TargetGetsAll
<1>1. IInv => TargetGetsAll
  <2> SUFFICES ASSUME IInv, taken["local"] > 0
               PROVE  got["remote"] \o Numbers(Ahead("remote"))
                        = [k \in 1 .. taken["local"] |-> k]
    BY DEF TargetGetsAll
  <2> DEFINE g == got["remote"]  a == Ahead("remote")  last == taken["local"]
  <2>1. handler["remote"] = "relay"
    BY DEF IInv, NotYet, Dialogue, Sides
  <2>2. g \in Seq(0 .. MaxChunks) /\ a \in Seq(Messages) /\ last \in Nat
    BY ChunksAssumption DEF IInv, TypeOK, Ahead, Sides
  <2>3. InSeries(a, last) /\ GotSeries(g, last - Len(a)) /\ last = Len(g) + Len(a)
    BY <2>1 DEF IInv, Flows, Flow, Other, Sides
  <2>4. /\ Numbers(a) \in Seq(Int) /\ Len(Numbers(a)) = Len(a)
        /\ \A i \in 1 .. Len(a) : Numbers(a)[i] = Len(g) + i
    <3>1. \A i \in DOMAIN a : a[i].n = last - Len(a) + i
      BY <2>3 DEF InSeries, Chunk
    <3>2. DOMAIN a = 1 .. Len(a) /\ Len(a) \in Nat /\ Len(g) \in Nat
      BY <2>2
    <3> HIDE DEF a, g, last
    <3>3. \A i \in 1 .. Len(a) : a[i].n = Len(g) + i /\ Len(g) + i \in Int
      BY <2>3, <3>1, <3>2
    <3> QED
      BY <3>2, <3>3 DEF Numbers
  <2>5. \A i \in 1 .. Len(g) : g[i] = i
    BY <2>2, <2>3 DEF GotSeries
  <2> HIDE DEF g, a, last
  <2>6. g \o Numbers(a) = [k \in 1 .. last |-> k]
    <3> DEFINE b == Numbers(a)
    <3>1. b \in Seq(Int) /\ g \in Seq(0 .. MaxChunks) /\ Len(b) = Len(a)
      BY <2>2, <2>4
    <3>2. \A i \in 1 .. Len(b) : b[i] = Len(g) + i
      BY <2>4
    <3>3. last = Len(g) + Len(b)
      BY <2>3, <2>4
    <3> HIDE DEF b
    <3>4. g \o b = [k \in 1 .. last |-> (g \o b)[k]]
      <4>1. \A i \in 1 .. Len(g) : g[i] \in Int
        BY <2>5, <3>1
      <4>2. g \in [1 .. Len(g) -> Int] /\ Len(g) \in Nat
        BY <3>1, <4>1
      <4>3. g \in Seq(Int)
        BY <4>2
      <4>4. g \o b \in Seq(Int) /\ Len(g \o b) = Len(g) + Len(b)
        BY <3>1, <4>3, ConcatProperties
      <4> DEFINE s == g \o b
      <4>5. s \in Seq(Int) /\ Len(s) = last
        BY <3>3, <4>4
      <4> HIDE DEF s
      <4>6. s \in [1 .. last -> Int]
        BY <4>5
      <4>7. s = [k \in 1 .. last |-> s[k]]
        BY <4>6
      <4> QED
        BY <4>7 DEF s
    <3>5. \A k \in 1 .. last : (g \o b)[k] = k
      BY <2>5, <3>1, <3>2, <3>3
    <3> QED
      BY <3>4, <3>5 DEF b
  <2> QED
    BY <2>6 DEF g, a, last
<1> QED
  BY <1>1, Inductive, PTL

(* What the client is given are chunks of the target without a gap.        *)
THEOREM ClientGetsNoGap == Spec => []ClientGetsRun
<1>1. IInv => ClientGetsRun
  <2> SUFFICES ASSUME IInv, NEW i \in DOMAIN got["local"]
               PROVE  /\ got["local"][i] \in Chunks
                      /\ i > 1 => got["local"][i] = got["local"][i - 1] + 1
    BY DEF ClientGetsRun
  <2> DEFINE g == got["local"]  last == taken["remote"] - Len(Ahead("local"))
  <2>1. handler["local"] = "relay"
    BY DEF IInv, NotYet, Sides
  <2>2. g \in Seq(0 .. MaxChunks) /\ last \in Int
    <3>1. Ahead("local") \in Seq(Messages) /\ taken["remote"] \in Nat
      BY ChunksAssumption DEF IInv, TypeOK, Ahead, Sides
    <3> QED
      BY <3>1 DEF IInv, TypeOK, Sides
  <2>3. GotSeries(g, last)
    BY <2>1 DEF IInv, Flows, Flow, Other, Sides
  <2> HIDE DEF last
  <2> QED
    BY <2>2, <2>3 DEF GotSeries
<1> QED
  BY <1>1, Inductive, PTL
-----------------------------------------------------------------------------
(* The refinement of the pipes.                                            *)

(* A chunk that a side writes was read at the other side, and follows the  *)
(* last one written; the first one at the target's side is 1.              *)
LEMMA NextWritten ==
    ASSUME IInv, NEW s \in Sides, WriteChunk(s)
    PROVE  LET k == Head(queue[s]).n
           IN  /\ k \in 1 .. taken[Other(s)]
               /\ IF got[s] = <<>> THEN s = "remote" => k = 1
                                  ELSE k = got[s][Len(got[s])] + 1
<1> DEFINE a == Ahead(s)  last == taken[Other(s)]  g == got[s]
<1>1. queue[s] # <<>> /\ queue[s] \in Seq(Messages) /\ inbox[s] \in Seq(Messages)
  BY DEF IInv, TypeOK, WriteChunk
<1>2. handler[s] = "relay"
  BY <1>1 DEF IInv, NotYet
<1>3. a \in Seq(Messages) /\ a # <<>> /\ a[1] = Head(queue[s])
  <2> DEFINE q == queue[s]  b == inbox[s]
  <2>1. q \in Seq(Messages) /\ b \in Seq(Messages) /\ q # <<>>
    BY <1>1
  <2> HIDE DEF q, b
  <2>2. Len(q) \in Nat \ {0} /\ Head(q) = q[1]
    BY <2>1
  <2>3. q \o b \in Seq(Messages) /\ Len(q \o b) = Len(q) + Len(b) /\ Len(b) \in Nat
    BY <2>1
  <2>4. (q \o b)[1] = q[1]
    BY <2>1, <2>2
  <2>5. q \o b # <<>>
    BY <2>2, <2>3
  <2> QED
    BY <2>2, <2>3, <2>4, <2>5 DEF q, b, Ahead
<1>4. last \in Nat /\ g \in Seq(0 .. MaxChunks)
  BY ChunksAssumption DEF IInv, TypeOK, Other, Sides
<1>5. /\ InSeries(a, last) /\ GotSeries(g, last - Len(a))
      /\ s = "remote" => last = Len(g) + Len(a)
  BY <1>2 DEF IInv, Flows, Flow
<1> HIDE DEF a, last, g
<1>6. Len(a) \in Nat \ {0} /\ DOMAIN a = 1 .. Len(a)
  BY <1>3
<1>7. a[1] = Chunk(last - Len(a) + 1)
  BY <1>5, <1>6 DEF InSeries
<1>8. Head(queue[s]).n = last - Len(a) + 1
  BY <1>3, <1>7 DEF Chunk
<1>9. a[1].type = "chunk"
  BY <1>7 DEF Chunk
<1>10. a[1].n \in Chunks
  <2>1. a[1] \in Messages
    BY <1>3, <1>6
  <2> QED
    BY <1>9, <2>1 DEF Messages, Word, Chunk, Words
<1>11. Head(queue[s]).n \in 1 .. last
  BY <1>3, <1>4, <1>6, <1>8, <1>10, ChunksAssumption DEF Chunks
<1>12. ASSUME g = <<>>, s = "remote" PROVE Head(queue[s]).n = 1
  BY <1>4, <1>5, <1>6, <1>8, <1>12
<1>13. ASSUME g # <<>> PROVE Head(queue[s]).n = g[Len(g)] + 1
  <2>1. Len(g) \in DOMAIN g
    BY <1>4, <1>13
  <2>2. g[Len(g)] = last - Len(a) - Len(g) + Len(g)
    BY <2>1, <1>5 DEF GotSeries
  <2> QED
    BY <2>2, <1>4, <1>6, <1>8
<1> QED
  BY <1>11, <1>12, <1>13 DEF a, last, g

(* Only ReadChunk and WriteChunk touch what the pipes are made of.         *)
LEMMA PipeSteps ==
    ASSUME IInv, [Next]_vars
    PROVE  \/ \E s \in Sides : ReadChunk(s) \/ WriteChunk(s)
           \/ UNCHANGED <<taken, got>>
  BY DEF Next, vars, relayVars, Connect, TargetOpens, TargetFails, ReplyTimeout,
         ReplyArrives, Confirmed, StartRelay, AppWrites, AppLeaves, Deliver, Sent,
         ReadEnds, Drained, IdleTimeout, RelayEnds

(* Both directions of a CONNECT are pipes, for any number of chunks: each  *)
(* initial state is one of both pipes, and each step puts the next chunk   *)
(* in, takes the next one out or changes nothing of the pipe.              *)
THEOREM RelayImplementsPipes == Spec => ImplementsPipes
<1>1. Init => ToTarget!PipeInit /\ ToClient!PipeInit
  BY DEF Init, ToTarget!PipeInit, ToClient!PipeInit, Sides
<1>2. IInv /\ [Next]_vars =>
        /\ [ToTarget!GoesIn \/ ToTarget!ComesOut]_(ToTarget!pipeVars)
        /\ [ToClient!GoesIn \/ ToClient!ComesOut]_(ToClient!pipeVars)
  <2> SUFFICES ASSUME IInv, [Next]_vars
               PROVE  /\ [ToTarget!GoesIn \/ ToTarget!ComesOut]_(ToTarget!pipeVars)
                      /\ [ToClient!GoesIn \/ ToClient!ComesOut]_(ToClient!pipeVars)
    OBVIOUS
  <2> USE DEF ToTarget!pipeVars, ToClient!pipeVars
  <2>1. taken \in [Sides -> Int] /\ got \in [Sides -> Seq(0 .. MaxChunks)]
    BY ChunksAssumption DEF IInv, TypeOK
  <2>2. ASSUME NEW s \in Sides, ReadChunk(s)
        PROVE  /\ taken' = [taken EXCEPT ![s] = @ + 1] /\ got' = got
    BY <2>2 DEF ReadChunk
  <2>3. CASE ReadChunk("local")
    BY <2>1, <2>2, <2>3 DEF ToTarget!GoesIn, Sides
  <2>4. CASE ReadChunk("remote")
    BY <2>1, <2>2, <2>4 DEF ToClient!GoesIn, Sides
  <2>5. ASSUME NEW s \in Sides, WriteChunk(s)
        PROVE  got' = [got EXCEPT ![s] = Append(@, Head(queue[s]).n)] /\ taken' = taken
    BY <2>5 DEF WriteChunk
  <2>6. CASE WriteChunk("remote")
    BY <2>1, <2>5, <2>6, NextWritten
    DEF ToTarget!ComesOut, ToTarget!Follows, Sides, Other
  <2>7. CASE WriteChunk("local")
    BY <2>1, <2>5, <2>7, NextWritten
    DEF ToClient!ComesOut, ToClient!Follows, Sides, Other
  <2>8. CASE UNCHANGED <<taken, got>>
    BY <2>8
  <2> QED
    BY <2>3, <2>4, <2>6, <2>7, <2>8, PipeSteps DEF Sides
<1> QED
  BY <1>1, <1>2, Inductive, PTL DEF Spec, ImplementsPipes, ToTarget!PipeSpec, ToClient!PipeSpec
=============================================================================
