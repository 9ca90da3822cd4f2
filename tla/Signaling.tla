------------------------------ MODULE Signaling ------------------------------
(***************************************************************************)
(* One room of the signaling server and the peers that meet in it:         *)
(* _websocket_handler of server.py, SignalingClient, and connect_as_offerer*)
(* and connect_as_answerer of peer.py up to the open DataChannel.          *)
(*                                                                         *)
(* A peer of the model is one run of the program: a restart is another     *)
(* peer.  Its handler is the coroutine the server runs for its WebSocket.  *)
(* Messages of one WebSocket arrive in order; up and down hold those on    *)
(* their way, down with _receive_queue.  A WebSocket is open as long as    *)
(* its handler runs and its process has not gone.  A step runs from one    *)
(* await that suspends to the next; send_json does not suspend.            *)
(***************************************************************************)
EXTENDS Integers, Sequences, FiniteSets

CONSTANTS
    Offerers,       \* runs with role "offer"
    Answerers,      \* and with the other role
    Crashers,       \* those whose host or network may fail without a word
    MaxServerStops  \* how often the server may stop and start again: a bound

Peers == Offerers \cup Answerers

ASSUME SignalingAssumption ==
    /\ Offerers \cap Answerers = {}
    /\ Crashers \subseteq Peers
    /\ MaxServerStops \in Nat

VARIABLES
    at,         \* where run_peer is
    handler,    \* of the peer's WebSocket at the server
    room,       \* the WebSockets in self._rooms[room], by their peers
    up,         \* at most one message on its way to the server
    down,       \* the messages on their way to the peer or in its queue
    remote,     \* what the peer gave to setRemoteDescription
    stops       \* of the server, so far

vars == <<at, handler, room, up, down, remote, stops>>

Joined == [type |-> "joined"]
Refusal == [type |-> "error"]
Offer(o) == [type |-> "offer", by |-> o]
Answer(a, o) == [type |-> "answer", by |-> a, to |-> o]
Answers == [type : {"answer"}, by : Answerers, to : Offerers]
Descriptions == [type : {"offer"}, by : Offerers] \cup Answers
ToPeer == Descriptions \cup {Joined, Refusal}

Places == {"off", "joining", "offering", "awaiting", "answering",
           "connecting", "ready", "stopped", "ended", "crashed"}

Init ==
    /\ at = [p \in Peers |-> "off"]
    /\ handler = [p \in Peers |-> "none"]
    /\ room = {}
    /\ up = [p \in Peers |-> {}]
    /\ down = [p \in Peers |-> <<>>]
    /\ remote = [p \in Peers |-> {}]
    /\ stops = 0
-----------------------------------------------------------------------------
(* The server.                                                             *)

(* The process of p is no more: it returned, raised, or its host is lost.  *)
Gone(p) == at[p] \in {"stopped", "ended", "crashed"}

(* Mutant: "> 2".                                                          *)
RoomFullAtThree == Cardinality(room) >= 3
RoomFull == Cardinality(room) >= 2

(* The finally clause of a handler.  Mutant: it is missing.                *)
Unremoved(p) == room
Left(p) == room \ {p}

Tell(q, m) == IF Gone(q) THEN down[q] ELSE Append(down[q], m)

(* The handler runs up to its loop: the room is full, or p enters it and   *)
(* is told its role.  If the client is lost by now, writing the headers    *)
(* (before p enters) or the role (after) may raise outside the try.        *)
Admit(p) ==
    /\ handler[p] = "prepared"
    /\ \/ /\ RoomFull
          /\ down' = [down EXCEPT ![p] = Tell(p, Refusal)]
          /\ handler' = [handler EXCEPT ![p] = "gone"]
          /\ UNCHANGED room
       \/ /\ ~RoomFull
          /\ room' = room \cup {p}
          /\ down' = [down EXCEPT ![p] = Tell(p, Joined)]
          /\ handler' = [handler EXCEPT ![p] = "serving"]
       \/ /\ ~RoomFull /\ Gone(p)
          /\ room' \in {room, room \cup {p}}
          /\ handler' = [handler EXCEPT ![p] = "gone"]
          /\ UNCHANGED down
    /\ UNCHANGED <<at, up, remote, stops>>

(* A message of p is sent to the others in the room.  What is sent to a    *)
(* lost peer is lost, or raises: always if its handler has gone, since     *)
(* nothing but a dead transport ends a handler and leaves the entry.  Then *)
(* the handler of p ends.                                                  *)
Relay(p) ==
    /\ handler[p] = "serving"
    /\ up' = [up EXCEPT ![p] = {}]
    /\ \E m \in up[p] :
        LET others == room \ {p}
        IN  \/ /\ \A q \in others : handler[q] = "serving"
               /\ down' = [q \in Peers |-> IF q \in others THEN Tell(q, m) ELSE down[q]]
               /\ UNCHANGED <<handler, room>>
            \/ /\ \E q \in others : Gone(q)
               /\ handler' = [handler EXCEPT ![p] = "gone"]
               /\ room' = Left(p)
               /\ UNCHANGED down
    /\ UNCHANGED <<at, remote, stops>>

(* The end of a connection comes after its messages, which are lost with a *)
(* lost host.  Mutant: only a close frame ends the loop.                   *)
NoticedClose(p) == at[p] = "stopped" /\ up[p] = {}
Noticed(p) == Gone(p) /\ (at[p] = "crashed" \/ up[p] = {})

Notice(p) ==
    /\ handler[p] = "serving" /\ Noticed(p)
    /\ handler' = [handler EXCEPT ![p] = "gone"]
    /\ room' = Left(p)
    /\ up' = [up EXCEPT ![p] = {}]
    /\ UNCHANGED <<at, down, remote, stops>>

(* The server stops and is started again with no rooms.  What it has sent  *)
(* may be lost with its connections.                                       *)
ServerStops ==
    /\ stops < MaxServerStops
    /\ stops' = stops + 1
    /\ handler' = [p \in Peers |-> IF handler[p] = "none" THEN "none" ELSE "gone"]
    /\ room' = {}
    /\ up' = [p \in Peers |-> {}]
    /\ down' \in {down, [p \in Peers |-> <<>>]}
    /\ UNCHANGED <<at, remote>>
-----------------------------------------------------------------------------
(* A peer.                                                                 *)

Moves(p, from, to) == at[p] = from /\ at' = [at EXCEPT ![p] = to]

(* SignalingClient.connect.                                                *)
Dial(p) ==
    /\ Moves(p, "off", "joining")
    /\ handler' = [handler EXCEPT ![p] = "prepared"]
    /\ UNCHANGED <<room, up, down, remote, stops>>

(* ws_connect raises: the server stopped before it had answered.           *)
DialFails(p) ==
    /\ Moves(p, "joining", "ended")
    /\ handler[p] = "gone" /\ down[p] = <<>>
    /\ UNCHANGED <<handler, room, up, down, remote, stops>>

(* connect() gets the first message: it returns, or raises.                *)
HearRole(p) ==
    /\ down[p] # <<>>
    /\ \/ Head(down[p]) = Refusal /\ Moves(p, "joining", "ended")
       \/ /\ Head(down[p]) = Joined
          /\ Moves(p, "joining", IF p \in Offerers THEN "offering" ELSE "awaiting")
    /\ down' = [down EXCEPT ![p] = Tail(@)]
    /\ UNCHANGED <<handler, room, up, remote, stops>>

(* send() raises if the reader has seen the end of the WebSocket; before   *)
(* that, the message is lost.                                              *)
SendsAnd(p, m, to) ==
    /\ \/ /\ at' = [at EXCEPT ![p] = to]
          /\ up' = [up EXCEPT ![p] = IF handler[p] = "serving" THEN {m} ELSE {}]
       \/ /\ handler[p] = "gone"
          /\ at' = [at EXCEPT ![p] = "ended"]
          /\ UNCHANGED up
    /\ UNCHANGED <<handler, room, down, remote, stops>>

SendOffer(o) == at[o] = "offering" /\ SendsAnd(o, Offer(o), "awaiting")

(* Mutant: send() is not awaited, so the answer is never sent.             *)
SendAnswerUnawaited(a) ==
    Moves(a, "answering", "connecting") /\ UNCHANGED <<handler, room, up, down, remote, stops>>
SendAnswer(a) ==
    at[a] = "answering" /\ \E m \in remote[a] : SendsAnd(a, Answer(a, m.by), "connecting")

(* What setRemoteDescription accepts.                                      *)
Expected(p) == IF p \in Offerers THEN "answer" ELSE "offer"

(* receive() has no timeout; whatever comes is the description.            *)
Receive(p) ==
    /\ down[p] # <<>>
    /\ LET m == Head(down[p])
       IN  \/ /\ m.type = Expected(p)
              /\ Moves(p, "awaiting", IF p \in Offerers THEN "connecting" ELSE "answering")
              /\ remote' = [remote EXCEPT ![p] = {m}]
           \/ /\ m.type # Expected(p)
              /\ Moves(p, "awaiting", "ended")
              /\ UNCHANGED remote
    /\ down' = [down EXCEPT ![p] = Tail(@)]
    /\ UNCHANGED <<handler, room, up, stops>>

(* ICE connects two peers that have the descriptions of each other; the    *)
(* DataChannel opens at each of them, and wait_ready returns.              *)
Paired(o, a) == remote[o] = {Answer(a, o)} /\ remote[a] = {Offer(o)}
OpenTunnel(p) ==
    /\ Moves(p, "connecting", "ready")
    /\ \E o \in Offerers, a \in Answerers :
        p \in {o, a} /\ Paired(o, a) /\ {at[o], at[a]} \subseteq {"connecting", "ready"}
    /\ UNCHANGED <<handler, room, up, down, remote, stops>>

(* run_peer looks at stop only now; signaling.close() comes last.          *)
Stop(p) ==
    /\ Moves(p, "ready", "stopped")
    /\ UNCHANGED <<handler, room, up, down, remote, stops>>

(* The host of p is lost, and what was on its way to it.                   *)
Crash(p) ==
    /\ p \in Crashers /\ at[p] # "off" /\ ~Gone(p)
    /\ at' = [at EXCEPT ![p] = "crashed"]
    /\ down' = [down EXCEPT ![p] = <<>>]
    /\ UNCHANGED <<handler, room, up, remote, stops>>

Next ==
    \/ ServerStops
    \/ \E p \in Peers :
        \/ Admit(p) \/ Relay(p) \/ Notice(p)
        \/ Dial(p) \/ DialFails(p) \/ HearRole(p) \/ Receive(p) \/ OpenTunnel(p)
        \/ Stop(p) \/ Crash(p)
    \/ \E o \in Offerers : SendOffer(o)
    \/ \E a \in Answerers : SendAnswer(a)

Spec == Init /\ [][Next]_vars

(* Messages arrive, tasks that can run do, ICE connects who can connect,   *)
(* and the end of a process is seen at the other end of its connections;   *)
(* that of a lost host need not be: there is no heartbeat.                 *)
Fairness ==
    /\ \A p \in Peers :
        /\ WF_vars(Admit(p)) /\ WF_vars(Relay(p))
        /\ WF_vars(at[p] # "crashed" /\ Notice(p))
        /\ WF_vars(HearRole(p)) /\ WF_vars(Receive(p)) /\ WF_vars(OpenTunnel(p))
    /\ \A o \in Offerers : WF_vars(SendOffer(o))
    /\ \A a \in Answerers : WF_vars(SendAnswer(a))

FairSpec == Spec /\ Fairness
-----------------------------------------------------------------------------
(* Properties.                                                             *)

AtMostOne(S) == \A m, n \in S : m = n

(* Every variable has its type; a peer has at most one message under way,  *)
(* and the room at most two entries: "Each room holds exactly two peers."  *)
TypeOK ==
    /\ at \in [Peers -> Places]
    /\ handler \in [Peers -> {"none", "prepared", "serving", "gone"}]
    /\ room \subseteq Peers /\ Cardinality(room) <= 2
    /\ up \in [Peers -> SUBSET Descriptions] /\ \A p \in Peers : AtMostOne(up[p])
    /\ down \in [Peers -> Seq(ToPeer)]
    /\ remote \in [Peers -> SUBSET Descriptions] /\ \A p \in Peers : AtMostOne(remote[p])
    /\ stops \in 0 .. MaxServerStops

(* "Messages from one peer are forwarded to the other.": an answer gets to *)
(* another peer than the one whose offer it answers only if the server is  *)
(* no longer serving that one, whoever joins, is lost and joins again      *)
(* between the offer and the answer.                                       *)
Got(p) == {down[p][i] : i \in DOMAIN down[p]} \cup remote[p]
AnswerReachesAsker ==
    \A p \in Peers : \A m \in Got(p) \cap Answers :
        m.to # p => handler[m.to] = "gone"

(* An entry of the room that no handler will remove any more is that of a  *)
(* peer whose host was lost: peers that return, raise, or are evicted      *)
(* because the other one cannot be written to, leave none behind.          *)
RoomHolders == \A p \in room : handler[p] = "serving" \/ at[p] = "crashed"

(* An offer that gets to an answerer which waits for it leads to a tunnel, *)
(* unless one of the two, or the server, stops or is lost on the way.      *)
Asked(o, a) ==
    /\ at[o] = "awaiting" /\ down[o] = <<>> /\ handler[o] = "serving"
    /\ at[a] = "awaiting" /\ down[a] # <<>> /\ handler[a] = "serving"
    /\ Head(down[a]) = Offer(o)
OfferLeadsToTunnel ==
    \A o \in Offerers, a \in Answerers : \A n \in 0 .. MaxServerStops :
        Asked(o, a) /\ stops = n ~>
            \/ at[o] = "ready" /\ at[a] = "ready"
            \/ \E p \in {o, a} : at[p] \in {"stopped", "crashed"}
            \/ stops # n

(* A place in the room becomes free after its peer has returned or raised, *)
(* wherever it was by then.                                                *)
RoomFreed == \A p \in Peers : at[p] \in {"stopped", "ended"} ~> p \notin room

(* "Messages from one peer are forwarded to the other.": an offerer and an *)
(* answerer that are the two peers of a room do not both wait for ever.    *)
RoommatesMeet ==
    \A o \in Offerers, a \in Answerers :
        room = {o, a} /\ at[o] = "awaiting" /\ at[a] = "awaiting" ~>
            ~(at[o] = "awaiting" /\ at[a] = "awaiting")
=============================================================================
