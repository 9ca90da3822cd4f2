--------------------------- MODULE SignalingProofs ---------------------------
(***************************************************************************)
(* Proofs about Signaling, for any number of peers, of lost hosts and of   *)
(* stops of the server: the types and the size of the room, who holds a    *)
(* place in it, and that answers reach those who asked.                    *)
(***************************************************************************)
EXTENDS Signaling, FiniteSetTheorems, TLAPS

(* The room is also finite, which its size does not say by itself.         *)
TypeInv == TypeOK /\ IsFiniteSet(room)

(* A handler that has not entered its loop has nothing to do with the room *)
(* or with messages, and its peer still waits for its role.                *)
Fresh ==
    \A p \in Peers :
        /\ handler[p] = "none" <=> at[p] = "off"
        /\ handler[p] = "prepared" => at[p] \in {"joining", "crashed"}
        /\ handler[p] \in {"none", "prepared"} =>
            p \notin room /\ up[p] = {} /\ down[p] = <<>> /\ remote[p] = {}

(* The handler of a peer in its loop has its entry in the room.            *)
ServedInRoom == \A p \in Peers : handler[p] = "serving" => p \in room

(* Only answerers send answers and take offers, and who has sent an offer  *)
(* has had a handler in its loop.                                          *)
Begun(p) == handler[p] \in {"serving", "gone"}
Origins ==
    \A p \in Peers :
        /\ \A m \in up[p] \cup Got(p) : m.type = "offer" => Begun(m.by)
        /\ \A m \in up[p] \cup Got(p) : m.type = "answer" => Begun(m.to)
        /\ \A m \in up[p] : m.type = "answer" => p \in Answerers
        /\ p \in Answerers => \A m \in remote[p] : m.type = "offer"

(* No three in a room of two.                                              *)
LEMMA NoThird ==
    ASSUME NEW S, IsFiniteSet(S), Cardinality(S) <= 2,
           NEW x \in S, NEW y \in S, NEW z \in S, x # y, x # z, y # z
    PROVE  FALSE
<1>1. IsFiniteSet({x}) /\ Cardinality({x}) = 1
  BY FS_Singleton
<1>2. IsFiniteSet({x} \cup {y}) /\ Cardinality({x} \cup {y}) = 2
  BY <1>1, y \notin {x}, FS_AddElement
<1>3. IsFiniteSet({x} \cup {y} \cup {z}) /\ Cardinality({x} \cup {y} \cup {z}) = 3
  <2> DEFINE two == {x} \cup {y}
  <2>1. IsFiniteSet(two) /\ Cardinality(two) = 2 /\ z \notin two
    BY <1>2
  <2> HIDE DEF two
  <2>2. IsFiniteSet(two \cup {z}) /\ Cardinality(two \cup {z}) = 3
    BY <2>1, FS_AddElement
  <2> QED
    BY <2>2 DEF two
<1>4. {x} \cup {y} \cup {z} \subseteq S
  OBVIOUS
<1>5. 3 <= Cardinality(S) /\ Cardinality(S) \in Nat
  BY <1>3, <1>4, FS_Subset, FS_CardinalityType
<1> QED
  BY <1>5

(* Entering and leaving keep the room finite and within its size.          *)
LEMMA Enter ==
    ASSUME TypeInv, ~RoomFull, NEW p \in Peers
    PROVE  /\ IsFiniteSet(room \cup {p}) /\ Cardinality(room \cup {p}) <= 2
           /\ room \cup {p} \subseteq Peers
<1>1. Cardinality(room) \in Nat
  BY FS_CardinalityType DEF TypeInv
<1>2. IsFiniteSet(room \cup {p})
      /\ (Cardinality(room \cup {p}) = Cardinality(room)
          \/ Cardinality(room \cup {p}) = Cardinality(room) + 1)
  BY FS_AddElement DEF TypeInv
<1> QED
  BY <1>1, <1>2 DEF TypeInv, TypeOK, RoomFull

LEMMA Leave ==
    ASSUME TypeInv, NEW p \in Peers
    PROVE  IsFiniteSet(Left(p)) /\ Cardinality(Left(p)) <= 2 /\ Left(p) \subseteq Peers
<1>1. IsFiniteSet(Left(p)) /\ Cardinality(Left(p)) <= Cardinality(room)
  BY FS_Subset, Left(p) \subseteq room DEF TypeInv, Left
<1>2. Cardinality(room) \in Nat /\ Cardinality(Left(p)) \in Nat
  BY <1>1, FS_CardinalityType DEF TypeInv
<1> QED
  BY <1>1, <1>2 DEF TypeInv, TypeOK, Left
-----------------------------------------------------------------------------
(* Types.                                                                  *)

LEMMA TypeInit == Init => TypeInv
<1> SUFFICES ASSUME Init PROVE TypeInv
  OBVIOUS
<1>1. IsFiniteSet({}) /\ Cardinality({}) = 0
  BY FS_EmptySet
<1> QED
  BY <1>1, SignalingAssumption DEF Init, TypeInv, TypeOK, AtMostOne, Places

(* What moves and what is told keeps its type.                             *)
LEMMA MoveType ==
    ASSUME TypeInv, NEW p \in Peers, NEW from, NEW to \in Places, Moves(p, from, to)
    PROVE  at' \in [Peers -> Places]
  BY DEF TypeInv, TypeOK, Moves, Places

LEMMA TellType ==
    ASSUME TypeInv, NEW p \in Peers, NEW m \in ToPeer
    PROVE  Tell(p, m) \in Seq(ToPeer)
<1>1. down[p] \in Seq(ToPeer)
  BY DEF TypeInv, TypeOK
<1> QED
  BY <1>1 DEF Tell

LEMMA SendType ==
    ASSUME TypeInv, NEW p \in Peers, NEW m \in Descriptions, NEW to \in Places,
           SendsAnd(p, m, to)
    PROVE  TypeInv'
<1>1. at' \in [Peers -> Places]
  BY DEF TypeInv, TypeOK, SendsAnd, Places
<1>2. up' = up \/ \E M \in {{}, {m}} : up' = [up EXCEPT ![p] = M]
  BY DEF SendsAnd
<1>3. up' \in [Peers -> SUBSET Descriptions] /\ \A q \in Peers : AtMostOne(up'[q])
  <2>1. \A M \in {{}, {m}} : M \in SUBSET Descriptions /\ AtMostOne(M)
    BY DEF AtMostOne
  <2>2. up \in [Peers -> SUBSET Descriptions] /\ \A q \in Peers : AtMostOne(up[q])
    BY DEF TypeInv, TypeOK
  <2> QED
    BY <1>2, <2>1, <2>2
<1> QED
  BY <1>1, <1>3 DEF TypeInv, TypeOK, SendsAnd

LEMMA TypeStep == TypeInv /\ Fresh /\ Origins /\ [Next]_vars => TypeInv'
<1> SUFFICES ASSUME TypeInv, Fresh, Origins, [Next]_vars PROVE TypeInv'
  OBVIOUS
<1> USE DEF TypeInv, TypeOK
<1>1. CASE ServerStops
  <2>1. IsFiniteSet({}) /\ Cardinality({}) = 0
    BY FS_EmptySet
  <2>2. down' \in [Peers -> Seq(ToPeer)]
    <3>1. <<>> \in Seq(ToPeer)
      OBVIOUS
    <3> QED
      BY <1>1, <3>1 DEF ServerStops
  <2> QED
    BY <1>1, <2>1, <2>2, SignalingAssumption DEF ServerStops, AtMostOne
<1>2. ASSUME NEW p \in Peers, Admit(p) PROVE TypeInv'
  <2>1. /\ IsFiniteSet(room') /\ Cardinality(room') <= 2 /\ room' \subseteq Peers
    BY <1>2, Enter DEF Admit
  <2>2. handler' \in [Peers -> {"none", "prepared", "serving", "gone"}]
    BY <1>2 DEF Admit
  <2>3. down' \in [Peers -> Seq(ToPeer)]
    <3>1. Tell(p, Refusal) \in Seq(ToPeer) /\ Tell(p, Joined) \in Seq(ToPeer)
      BY TellType DEF ToPeer
    <3> QED
      BY <1>2, <3>1 DEF Admit
  <2> QED
    BY <1>2, <2>1, <2>2, <2>3 DEF Admit
<1>3. ASSUME NEW p \in Peers, Relay(p) PROVE TypeInv'
  <2>1. /\ IsFiniteSet(room') /\ Cardinality(room') <= 2 /\ room' \subseteq Peers
    BY <1>3, Leave DEF Relay
  <2>2. handler' \in [Peers -> {"none", "prepared", "serving", "gone"}]
    BY <1>3 DEF Relay
  <2>3. down' \in [Peers -> Seq(ToPeer)]
    <3>1. PICK m \in up[p] :
            \/ down' = [q \in Peers |-> IF q \in room \ {p} THEN Tell(q, m) ELSE down[q]]
            \/ down' = down
      BY <1>3 DEF Relay
    <3>2. \A q \in Peers : Tell(q, m) \in Seq(ToPeer)
      BY TellType DEF ToPeer
    <3> QED
      BY <3>1, <3>2
  <2>4. up' \in [Peers -> SUBSET Descriptions] /\ \A q \in Peers : AtMostOne(up'[q])
    BY <1>3 DEF Relay, AtMostOne
  <2> QED
    BY <1>3, <2>1, <2>2, <2>3, <2>4 DEF Relay
<1>4. ASSUME NEW p \in Peers, Notice(p) PROVE TypeInv'
  <2>1. /\ IsFiniteSet(room') /\ Cardinality(room') <= 2 /\ room' \subseteq Peers
    BY <1>4, Leave DEF Notice
  <2> QED
    BY <1>4, <2>1 DEF Notice, AtMostOne
<1>5. ASSUME NEW p \in Peers, Dial(p) PROVE TypeInv'
  BY <1>5, MoveType DEF Dial, Places
<1>6. ASSUME NEW p \in Peers, DialFails(p) PROVE TypeInv'
  BY <1>6, MoveType DEF DialFails, Places
<1>7. ASSUME NEW p \in Peers, HearRole(p) PROVE TypeInv'
  <2>1. down' \in [Peers -> Seq(ToPeer)]
    BY <1>7 DEF HearRole
  <2>2. at' \in [Peers -> Places]
    BY <1>7, MoveType DEF HearRole, Places
  <2> QED
    BY <1>7, <2>1, <2>2 DEF HearRole
<1>8. ASSUME NEW p \in Peers, Receive(p) PROVE TypeInv'
  <2>1. down' \in [Peers -> Seq(ToPeer)]
    BY <1>8 DEF Receive
  <2>2. at' \in [Peers -> Places]
    BY <1>8, MoveType DEF Receive, Places
  <2>3. Head(down[p]) \in ToPeer
    BY <1>8 DEF Receive
  <2>4. Head(down[p]).type = Expected(p) => Head(down[p]) \in Descriptions
    BY <2>3 DEF Expected, ToPeer, Joined, Refusal
  <2>5. \/ remote' = remote
        \/ remote' = [remote EXCEPT ![p] = {Head(down[p])}] /\ Head(down[p]) \in Descriptions
    BY <1>8, <2>4 DEF Receive
  <2>6. remote' \in [Peers -> SUBSET Descriptions] /\ \A q \in Peers : AtMostOne(remote'[q])
    <3>1. Head(down[p]) \in Descriptions =>
            {Head(down[p])} \in SUBSET Descriptions /\ AtMostOne({Head(down[p])})
      BY DEF AtMostOne
    <3> QED
      BY <2>5, <3>1
  <2> QED
    BY <1>8, <2>1, <2>2, <2>6 DEF Receive
<1>9. ASSUME NEW p \in Peers, OpenTunnel(p) PROVE TypeInv'
  BY <1>9, MoveType DEF OpenTunnel, Places
<1>10. ASSUME NEW p \in Peers, Stop(p) PROVE TypeInv'
  BY <1>10, MoveType DEF Stop, Places
<1>11. ASSUME NEW p \in Peers, Crash(p) PROVE TypeInv'
  <2>1. down' \in [Peers -> Seq(ToPeer)]
    BY <1>11 DEF Crash
  <2> QED
    BY <1>11, <2>1 DEF Crash, Places
<1>12. ASSUME NEW o \in Offerers, SendOffer(o) PROVE TypeInv'
  <2>1. Offer(o) \in Descriptions /\ o \in Peers
    BY DEF Offer, Descriptions, Peers
  <2> QED
    BY <1>12, <2>1, SendType DEF SendOffer, Places
<1>13. ASSUME NEW a \in Answerers, SendAnswer(a) PROVE TypeInv'
  <2>1. PICK m \in remote[a] : SendsAnd(a, Answer(a, m.by), "connecting")
    BY <1>13 DEF SendAnswer
  <2>2. m.by \in Offerers /\ a \in Peers
    BY DEF Origins, Descriptions, Answers, Peers
  <2>3. Answer(a, m.by) \in Descriptions
    BY <2>2 DEF Answer, Descriptions, Answers
  <2> QED
    BY <2>1, <2>2, <2>3, SendType DEF Places
<1>14. CASE UNCHANGED vars
  BY <1>14 DEF vars
<1> QED
  BY <1>1, <1>2, <1>3, <1>4, <1>5, <1>6, <1>7, <1>8, <1>9, <1>10, <1>11, <1>12, <1>13, <1>14
     DEF Next
-----------------------------------------------------------------------------
(* The strengthening, one conjunct at a time.                               *)

LEMMA FreshStep == TypeInv /\ Fresh /\ [Next]_vars => Fresh'
<1> SUFFICES ASSUME TypeInv, Fresh, [Next]_vars PROVE Fresh'
  OBVIOUS
<1> USE DEF TypeInv, TypeOK, Fresh
<1>1. CASE ServerStops
  BY <1>1 DEF ServerStops
<1>2. ASSUME NEW p \in Peers, Admit(p) PROVE Fresh'
  BY <1>2 DEF Admit, Tell
<1>3. ASSUME NEW p \in Peers, Relay(p) PROVE Fresh'
  BY <1>3 DEF Relay, Left, Tell
<1>4. ASSUME NEW p \in Peers, Notice(p) PROVE Fresh'
  BY <1>4 DEF Notice, Left, Noticed
<1>5. ASSUME NEW p \in Peers, Dial(p) PROVE Fresh'
  BY <1>5 DEF Dial, Moves
<1>6. ASSUME NEW p \in Peers, DialFails(p) PROVE Fresh'
  BY <1>6 DEF DialFails, Moves
<1>7. ASSUME NEW p \in Peers, HearRole(p) PROVE Fresh'
  BY <1>7 DEF HearRole, Moves
<1>8. ASSUME NEW p \in Peers, Receive(p) PROVE Fresh'
  BY <1>8 DEF Receive, Moves
<1>9. ASSUME NEW p \in Peers, OpenTunnel(p) PROVE Fresh'
  BY <1>9 DEF OpenTunnel, Moves
<1>10. ASSUME NEW p \in Peers, Stop(p) PROVE Fresh'
  BY <1>10 DEF Stop, Moves
<1>11. ASSUME NEW p \in Peers, Crash(p) PROVE Fresh'
  BY <1>11 DEF Crash
<1>12. ASSUME NEW o \in Offerers, SendOffer(o) PROVE Fresh'
  BY <1>12 DEF SendOffer, SendsAnd, Peers
<1>13. ASSUME NEW a \in Answerers, SendAnswer(a) PROVE Fresh'
  BY <1>13 DEF SendAnswer, SendsAnd, Peers
<1>14. CASE UNCHANGED vars
  BY <1>14 DEF vars
<1> QED
  BY <1>1, <1>2, <1>3, <1>4, <1>5, <1>6, <1>7, <1>8, <1>9, <1>10, <1>11, <1>12, <1>13, <1>14
     DEF Next

LEMMA ServedStep == TypeInv /\ Fresh /\ ServedInRoom /\ [Next]_vars => ServedInRoom'
<1> SUFFICES ASSUME TypeInv, Fresh, ServedInRoom, [Next]_vars PROVE ServedInRoom'
  OBVIOUS
<1> USE DEF TypeInv, TypeOK, ServedInRoom
<1>1. CASE ServerStops
  BY <1>1 DEF ServerStops
<1>2. ASSUME NEW p \in Peers, Admit(p) PROVE ServedInRoom'
  BY <1>2 DEF Admit, Tell
<1>3. ASSUME NEW p \in Peers, Relay(p) PROVE ServedInRoom'
  BY <1>3 DEF Relay, Left, Tell
<1>4. ASSUME NEW p \in Peers, Notice(p) PROVE ServedInRoom'
  BY <1>4 DEF Notice, Left, Noticed
<1>5. ASSUME NEW p \in Peers, Dial(p) PROVE ServedInRoom'
  BY <1>5 DEF Dial, Moves
<1>6. ASSUME NEW p \in Peers, DialFails(p) PROVE ServedInRoom'
  BY <1>6 DEF DialFails, Moves
<1>7. ASSUME NEW p \in Peers, HearRole(p) PROVE ServedInRoom'
  BY <1>7 DEF HearRole, Moves
<1>8. ASSUME NEW p \in Peers, Receive(p) PROVE ServedInRoom'
  BY <1>8 DEF Receive, Moves
<1>9. ASSUME NEW p \in Peers, OpenTunnel(p) PROVE ServedInRoom'
  BY <1>9 DEF OpenTunnel, Moves
<1>10. ASSUME NEW p \in Peers, Stop(p) PROVE ServedInRoom'
  BY <1>10 DEF Stop, Moves
<1>11. ASSUME NEW p \in Peers, Crash(p) PROVE ServedInRoom'
  BY <1>11 DEF Crash
<1>12. ASSUME NEW o \in Offerers, SendOffer(o) PROVE ServedInRoom'
  BY <1>12 DEF SendOffer, SendsAnd, Peers
<1>13. ASSUME NEW a \in Answerers, SendAnswer(a) PROVE ServedInRoom'
  BY <1>13 DEF SendAnswer, SendsAnd, Peers
<1>14. CASE UNCHANGED vars
  BY <1>14 DEF vars
<1> QED
  BY <1>1, <1>2, <1>3, <1>4, <1>5, <1>6, <1>7, <1>8, <1>9, <1>10, <1>11, <1>12, <1>13, <1>14
     DEF Next

(* What a peer has got by a step, it had, or its role, or a relay.          *)
Relayed(p, q, m) ==
    /\ Relay(p) /\ m \in up[p] /\ q \in room \ {p}
    /\ \A r \in room \ {p} : handler[r] = "serving"
GotBefore(q, m) ==
    \/ m \in Got(q) \cup {Joined, Refusal}
    \/ \E p \in Peers : Relayed(p, q, m)

LEMMA TellGot ==
    ASSUME TypeInv, NEW q \in Peers, NEW m \in ToPeer, NEW i \in DOMAIN Tell(q, m)
    PROVE  Tell(q, m)[i] \in Got(q) \cup {m}
<1>1. down[q] \in Seq(ToPeer)
  BY DEF TypeInv, TypeOK
<1> QED
  BY <1>1 DEF Tell, Got

LEMMA TailGot ==
    ASSUME TypeInv, NEW q \in Peers, down[q] # <<>>
    PROVE  /\ \A i \in DOMAIN Tail(down[q]) : Tail(down[q])[i] \in Got(q)
           /\ Head(down[q]) \in Got(q)
<1>1. down[q] \in Seq(ToPeer)
  BY DEF TypeInv, TypeOK
<1> QED
  BY <1>1 DEF Got

LEMMA GotStep ==
    ASSUME TypeInv, [Next]_vars, NEW q \in Peers, NEW m \in Got(q)'
    PROVE  GotBefore(q, m)
<1>1. CASE UNCHANGED <<down, remote>>
  BY <1>1 DEF Got, GotBefore
<1>2. CASE ServerStops
  BY <1>2 DEF ServerStops, Got, GotBefore
<1>3. ASSUME NEW p \in Peers, Admit(p) PROVE GotBefore(q, m)
  <2>1. \A n \in {Joined, Refusal} : \A i \in DOMAIN Tell(p, n) :
            Tell(p, n)[i] \in Got(p) \cup {n}
    BY TellGot DEF ToPeer
  <2>2. remote' = remote
    BY <1>3 DEF Admit
  <2>3. \/ down'[q] = down[q]
        \/ p = q /\ \E n \in {Joined, Refusal} : down'[q] = Tell(p, n)
    BY <1>3 DEF Admit, TypeInv, TypeOK
  <2> QED
    BY <2>1, <2>2, <2>3 DEF Got, GotBefore
<1>4. ASSUME NEW p \in Peers, Relay(p) PROVE GotBefore(q, m)
  <2>1. PICK n \in up[p] :
          \/ /\ \A r \in room \ {p} : handler[r] = "serving"
             /\ down' = [r \in Peers |-> IF r \in room \ {p} THEN Tell(r, n) ELSE down[r]]
          \/ down' = down
    BY <1>4 DEF Relay
  <2>2. n \in ToPeer
    BY DEF TypeInv, TypeOK, ToPeer
  <2>3. \A i \in DOMAIN Tell(q, n) : Tell(q, n)[i] \in Got(q) \cup {n}
    BY <2>2, TellGot
  <2>4. remote' = remote
    BY <1>4 DEF Relay
  <2> QED
    BY <1>4, <2>1, <2>3, <2>4 DEF Got, GotBefore, Relayed
<1>5. ASSUME NEW p \in Peers, HearRole(p) PROVE GotBefore(q, m)
  <2>1. p = q => \A i \in DOMAIN down'[q] : down'[q][i] \in Got(q)
    BY <1>5, TailGot DEF HearRole, TypeInv, TypeOK
  <2>2. p # q => down'[q] = down[q]
    BY <1>5 DEF HearRole, TypeInv, TypeOK
  <2> QED
    BY <1>5, <2>1, <2>2 DEF HearRole, Got, GotBefore
<1>6. ASSUME NEW p \in Peers, Receive(p) PROVE GotBefore(q, m)
  <2>1. p = q => \A i \in DOMAIN down'[q] : down'[q][i] \in Got(q)
    BY <1>6, TailGot DEF Receive, TypeInv, TypeOK
  <2>2. p # q => down'[q] = down[q]
    BY <1>6 DEF Receive, TypeInv, TypeOK
  <2>3. remote'[q] \subseteq Got(q)
    BY <1>6, TailGot DEF Receive, Got, TypeInv, TypeOK
  <2> QED
    BY <2>1, <2>2, <2>3 DEF Got, GotBefore
<1>7. ASSUME NEW p \in Peers, Crash(p) PROVE GotBefore(q, m)
  <2>1. down'[q] = down[q] \/ down'[q] = <<>>
    BY <1>7 DEF Crash, TypeInv, TypeOK
  <2> QED
    BY <1>7, <2>1 DEF Crash, Got, GotBefore
<1> QED
  BY <1>1, <1>2, <1>3, <1>4, <1>5, <1>6, <1>7
     DEF Next, vars, Notice, Dial, DialFails, OpenTunnel, Stop, SendOffer, SendAnswer, SendsAnd

(* What is on its way to the server was, or is sent by this step.          *)
SentNow(q, m) ==
    /\ handler[q] = "serving"
    /\ \/ q \in Offerers /\ m = Offer(q)
       \/ q \in Answerers /\ \E r \in remote[q] : m = Answer(q, r.by)

LEMMA UpStep ==
    ASSUME TypeInv, [Next]_vars, NEW q \in Peers, NEW m \in up'[q]
    PROVE  m \in up[q] \/ SentNow(q, m)
<1> USE DEF TypeInv, TypeOK
<1>1. ASSUME NEW o \in Offerers, SendOffer(o) PROVE m \in up[q] \/ SentNow(q, m)
  BY <1>1 DEF SendOffer, SendsAnd, SentNow
<1>2. ASSUME NEW a \in Answerers, SendAnswer(a) PROVE m \in up[q] \/ SentNow(q, m)
  <2>1. PICK r \in remote[a] : SendsAnd(a, Answer(a, r.by), "connecting")
    BY <1>2 DEF SendAnswer
  <2>2. CASE handler[a] = "serving"
    <3> DEFINE n == Answer(a, r.by)
    <3>1. n = Answer(a, r.by)
      OBVIOUS
    <3> HIDE DEF n
    <3>2. SendsAnd(a, n, "connecting")
      BY <2>1, <3>1
    <3>3. m \in up[q] \/ (q = a /\ m = n)
      BY <2>2, <3>2 DEF SendsAnd, Peers
    <3> QED
      BY <2>2, <3>1, <3>3 DEF SentNow
  <2>3. CASE handler[a] # "serving"
    BY <2>1, <2>3 DEF SendsAnd
  <2> QED
    BY <2>2, <2>3
<1> QED
  BY <1>1, <1>2 DEF Next, vars, ServerStops, Admit, Relay, Notice, Dial, DialFails, HearRole,
                    Receive, OpenTunnel, Stop, Crash

(* A handler begins once and ends once.                                    *)
LEMMA HandlerStep ==
    ASSUME TypeInv, Fresh, [Next]_vars, NEW q \in Peers
    PROVE  /\ Begun(q) => Begun(q)'
           /\ handler[q] = "gone" => handler'[q] = "gone"
<1> USE DEF TypeInv, TypeOK, Begun
<1>1. ASSUME NEW p \in Peers, Dial(p) PROVE handler'[q] = handler[q] \/ handler[q] = "none"
  BY <1>1 DEF Dial, Moves, Fresh
<1>2. ASSUME NEW p \in Peers, Admit(p)
      PROVE  handler'[q] = handler[q] \/ handler[q] = "prepared"
  BY <1>2 DEF Admit
<1>3. CASE ServerStops
  BY <1>3 DEF ServerStops
<1>4. ASSUME NEW p \in Peers, Relay(p) \/ Notice(p)
      PROVE  handler'[q] = handler[q] \/ handler'[q] = "gone"
  BY <1>4 DEF Relay, Notice
<1> QED
  BY <1>1, <1>2, <1>3, <1>4
     DEF Next, vars, DialFails, HearRole, Receive, OpenTunnel, Stop, Crash, SendOffer,
         SendAnswer, SendsAnd

LEMMA OriginsStep == TypeInv /\ Fresh /\ Origins /\ [Next]_vars => Origins'
<1> SUFFICES ASSUME TypeInv, Fresh, Origins, [Next]_vars, NEW q \in Peers
             PROVE  /\ \A m \in (up[q] \cup Got(q))' :
                          /\ m.type = "offer" => Begun(m.by)'
                          /\ m.type = "answer" => Begun(m.to)'
                    /\ \A m \in up'[q] : m.type = "answer" => q \in Answerers
                    /\ q \in Answerers => \A m \in remote'[q] : m.type = "offer"
  BY DEF Origins
<1>1. \A m \in up[q] \cup Got(q) :
        /\ m \in ToPeer
        /\ m.type = "offer" => m.by \in Peers
        /\ m.type = "answer" => m.to \in Peers
  <2>1. down[q] \in Seq(ToPeer) /\ remote[q] \subseteq ToPeer /\ up[q] \subseteq ToPeer
    BY DEF TypeInv, TypeOK, ToPeer
  <2>2. \A m \in up[q] \cup Got(q) : m \in ToPeer
    BY <2>1 DEF Got
  <2> QED
    BY <2>2 DEF ToPeer, Descriptions, Answers, Joined, Refusal, Peers
<1>2. ASSUME NEW m \in up'[q], SentNow(q, m)
      PROVE  /\ m.type = "offer" => Begun(m.by)
             /\ m.type = "answer" => Begun(m.to) /\ q \in Answerers
             /\ m.type = "offer" => m.by \in Peers
             /\ m.type = "answer" => m.to \in Peers
  <2>1. CASE q \in Offerers /\ m = Offer(q)
    BY <1>2, <2>1 DEF SentNow, Offer, Begun
  <2>2. ASSUME q \in Answerers, NEW r \in remote[q], m = Answer(q, r.by)
        PROVE  m.type = "answer" /\ Begun(m.to) /\ m.to \in Peers
    BY <1>1, <2>2 DEF Origins, Answer, Got
  <2> QED
    BY <1>2, <2>1, <2>2 DEF SentNow
<1>3. ASSUME NEW m \in Got(q)'
      PROVE  /\ m.type = "offer" => Begun(m.by) /\ m.by \in Peers
             /\ m.type = "answer" => Begun(m.to) /\ m.to \in Peers
  <2>1. CASE m \in Got(q)
    BY <1>1, <2>1 DEF Origins
  <2>2. CASE m \in {Joined, Refusal}
    BY <2>2 DEF Joined, Refusal
  <2>3. ASSUME NEW p \in Peers, m \in up[p]
        PROVE  /\ m.type = "offer" => Begun(m.by) /\ m.by \in Peers
               /\ m.type = "answer" => Begun(m.to) /\ m.to \in Peers
    BY <2>3 DEF Origins, TypeInv, TypeOK, Descriptions, Answers, Peers
  <2> QED
    BY <2>1, <2>2, <2>3, GotStep DEF GotBefore, Relayed
<1>4. \A m \in (up[q] \cup Got(q))' :
        /\ m.type = "offer" => Begun(m.by)'
        /\ m.type = "answer" => Begun(m.to)'
  BY <1>1, <1>2, <1>3, UpStep, HandlerStep DEF Origins
<1>5. \A m \in up'[q] : m.type = "answer" => q \in Answerers
  BY <1>2, UpStep DEF Origins
<1>6. q \in Answerers => \A m \in remote'[q] : m.type = "offer"
  <2>1. ASSUME NEW p \in Peers, Receive(p), q \in Answerers
        PROVE  \A m \in remote'[q] : m.type = "offer"
    <3>1. q \notin Offerers
      BY <2>1, SignalingAssumption
    <3>2. p # q => remote'[q] = remote[q]
      BY <2>1 DEF Receive, TypeInv, TypeOK
    <3>3. p = q => remote'[q] = remote[q] \/ \A m \in remote'[q] : m.type = "offer"
      BY <2>1, <3>1 DEF Receive, Expected, TypeInv, TypeOK
    <3> QED
      BY <2>1, <3>2, <3>3 DEF Origins
  <2> QED
    BY <2>1
       DEF Origins, Next, vars, ServerStops, Admit, Relay, Notice, Dial, DialFails, HearRole,
           OpenTunnel, Stop, Crash, SendOffer, SendAnswer, SendsAnd
<1> QED
  BY <1>4, <1>5, <1>6

LEMMA HoldersStep == TypeInv /\ Fresh /\ ServedInRoom /\ RoomHolders /\ [Next]_vars => RoomHolders'
<1> SUFFICES ASSUME TypeInv, Fresh, ServedInRoom, RoomHolders, [Next]_vars PROVE RoomHolders'
  OBVIOUS
<1> USE DEF TypeInv, TypeOK, Fresh, RoomHolders
<1>1. CASE ServerStops
  BY <1>1 DEF ServerStops
<1>2. ASSUME NEW p \in Peers, Admit(p) PROVE RoomHolders'
  BY <1>2 DEF Admit, Tell, Gone
<1>3. ASSUME NEW p \in Peers, Relay(p) PROVE RoomHolders'
  BY <1>3 DEF Relay, Left, Tell, Gone
<1>4. ASSUME NEW p \in Peers, Notice(p) PROVE RoomHolders'
  BY <1>4 DEF Notice, Left, Noticed, Gone
<1>5. ASSUME NEW p \in Peers, Dial(p) PROVE RoomHolders'
  BY <1>5 DEF Dial, Moves, Gone
<1>6. ASSUME NEW p \in Peers, DialFails(p) PROVE RoomHolders'
  BY <1>6 DEF DialFails, Moves, Gone
<1>7. ASSUME NEW p \in Peers, HearRole(p) PROVE RoomHolders'
  BY <1>7 DEF HearRole, Moves, Gone
<1>8. ASSUME NEW p \in Peers, Receive(p) PROVE RoomHolders'
  BY <1>8 DEF Receive, Moves, Gone
<1>9. ASSUME NEW p \in Peers, OpenTunnel(p) PROVE RoomHolders'
  BY <1>9 DEF OpenTunnel, Moves, Gone
<1>10. ASSUME NEW p \in Peers, Stop(p) PROVE RoomHolders'
  BY <1>10 DEF Stop, Moves, Gone
<1>11. ASSUME NEW p \in Peers, Crash(p) PROVE RoomHolders'
  BY <1>11 DEF Crash, Gone
<1>12. ASSUME NEW o \in Offerers, SendOffer(o) PROVE RoomHolders'
  BY <1>12 DEF SendOffer, SendsAnd, Peers, Gone
<1>13. ASSUME NEW a \in Answerers, SendAnswer(a) PROVE RoomHolders'
  BY <1>13 DEF SendAnswer, SendsAnd, Peers, Gone
<1>14. CASE UNCHANGED vars
  BY <1>14 DEF vars
<1> QED
  BY <1>1, <1>2, <1>3, <1>4, <1>5, <1>6, <1>7, <1>8, <1>9, <1>10, <1>11, <1>12, <1>13, <1>14
     DEF Next

(* The answer a relay brings to q was sent by p, whose room has no place   *)
(* for a third: if the one that asked is served, it is q.                  *)
LEMMA AnswerStep ==
    TypeInv /\ Fresh /\ ServedInRoom /\ Origins /\ AnswerReachesAsker /\ [Next]_vars
        => AnswerReachesAsker'
<1> SUFFICES ASSUME TypeInv, Fresh, ServedInRoom, Origins, AnswerReachesAsker, [Next]_vars,
                    NEW q \in Peers, NEW m \in Got(q)', m \in Answers, m.to # q
             PROVE  handler'[m.to] = "gone"
  BY DEF AnswerReachesAsker
<1>1. m.to \in Peers /\ m.to \in Offerers /\ m.type = "answer"
  BY DEF Answers, Peers
<1>2. CASE m \in Got(q)
  BY <1>1, <1>2, HandlerStep DEF AnswerReachesAsker
<1>3. CASE m \in {Joined, Refusal}
  BY <1>1, <1>3 DEF Joined, Refusal
<1>4. ASSUME NEW p \in Peers, Relayed(p, q, m) PROVE handler[m.to] = "gone"
  <2>1. p \in room /\ q \in room /\ q # p
    BY <1>4 DEF Relayed, Relay, ServedInRoom
  <2>2. p \in Answerers /\ Begun(m.to)
    BY <1>1, <1>4 DEF Relayed, Origins
  <2>3. m.to # p
    BY <1>1, <2>2, SignalingAssumption
  <2>4. m.to \notin room
    BY <2>1, <2>3, NoThird DEF TypeInv, TypeOK
  <2> QED
    BY <1>1, <2>2, <2>4 DEF Begun, ServedInRoom
<1> QED
  BY <1>1, <1>2, <1>3, <1>4, GotStep, HandlerStep DEF GotBefore
-----------------------------------------------------------------------------
(* Theorems.                                                               *)

IInv == TypeInv /\ Fresh /\ ServedInRoom /\ Origins /\ RoomHolders /\ AnswerReachesAsker

LEMMA Inductive == Spec => []IInv
<1>1. Init => IInv
  BY TypeInit DEF Init, IInv, Fresh, ServedInRoom, Origins, Got, Begun, RoomHolders,
                  AnswerReachesAsker
<1>2. IInv /\ [Next]_vars => IInv'
  BY TypeStep, FreshStep, ServedStep, OriginsStep, HoldersStep, AnswerStep DEF IInv
<1> QED
  BY <1>1, <1>2, PTL DEF Spec

(* Every variable keeps its type, and no third peer ever enters the room,  *)
(* in any order of joins, losses, evictions and stops of the server.       *)
THEOREM SignalingTypeOK == Spec => []TypeOK
<1>1. IInv => TypeOK
  BY DEF IInv, TypeInv
<1> QED
  BY <1>1, Inductive, PTL

(* Only peers whose host was lost leave an entry without a handler.        *)
THEOREM RoomIsHeldByTheServed == Spec => []RoomHolders
<1>1. IInv => RoomHolders
  BY DEF IInv
<1> QED
  BY <1>1, Inductive, PTL

(* No answer gets to another peer than the one that asked while the server *)
(* serves that one.                                                        *)
THEOREM AnswersReachTheirAsker == Spec => []AnswerReachesAsker
<1>1. IInv => AnswerReachesAsker
  BY DEF IInv
<1> QED
  BY <1>1, Inductive, PTL
=============================================================================
