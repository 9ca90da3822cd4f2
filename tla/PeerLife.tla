------------------------------- MODULE PeerLife -------------------------------
(***************************************************************************)
(* Two peers from the moment their DataChannel is open until both          *)
(* processes are over: run_peer of main.py, the Multiplexer with its table *)
(* of channels, and the HTTP exchanges of proxy/http_server.py that run    *)
(* over it in both directions at once.                                     *)
(*                                                                         *)
(* Requests and responses are messages of one frame.  A channel keeps what *)
(* the table's life cycle can get at: numbers, window, the retransmission  *)
(* loop.  An Event that is set is awaited without suspending, so handle_raw*)
(* is one step while the tunnel is ready, and so is close_all unless the   *)
(* window of some channel is full.                                         *)
(***************************************************************************)
EXTENDS Integers, FiniteSets, Sequences, SequencesExt

CONSTANTS
    OffererClients, AnswererClients, \* HTTP clients of each peer's proxy
    WindowSize,                      \* window_size
    MaxRetransmits,                  \* max_retransmits
    MaxWire,                         \* bound: no retransmission beyond it
    Stopping,                        \* bound: peers that are ever stopped
    MayFail                          \* the connection may fail

ASSUME LifeAssumption ==
    /\ OffererClients \cap AnswererClients = {}
    /\ WindowSize \in Nat \ {0}
    /\ MaxRetransmits \in Nat
    /\ MaxWire \in Nat
    /\ Stopping \subseteq {"offerer", "answerer"}
    /\ MayFail \in BOOLEAN

Peers == {"offerer", "answerer"}
Other(p) == IF p = "offerer" THEN "answerer" ELSE "offerer"
Clients == OffererClients \cup AnswererClients
Home(c) == IF c \in OffererClients THEN "offerer" ELSE "answerer"

VARIABLES
    phase,    \* how far run_peer is
    ready,    \* tunnel._ready
    nextId,   \* _next_channel_id
    channels, \* _channels: id -> channel
    size,     \* size of the table when close_all began to iterate
    at,       \* the channel whose close() close_all awaits, woken or not
    cleared,  \* channels it took from the table, for their loops and handlers
    jobs,     \* requests that _handle_http_request is working on
    wire,     \* frames on their way to each peer
    client,   \* where each client's _handle_http is
    chan,     \* the channel it opened
    answers,  \* history: what its future was given
    fetches   \* history: how often its request was made on the internet

exchange == <<client, chan, answers>>
closing  == <<size, at, cleared>>
vars == <<phase, ready, nextId, channels, closing, jobs, wire, exchange, fetches>>

Over(p) == phase[p] = "over"

(* DATA frames are requests and responses; the number of an ACK is its ack.*)
Frame(type, id, seq, c, ok) ==
    [type |-> type, ch |-> id, seq |-> seq, req |-> c, ok |-> ok]
IsData(f) == f.type \in {"request", "response"}

(* "Offerer uses odd IDs, answerer uses even."  Mutant: both use odd ones. *)
FirstIdOne(p) == 1
FirstId(p) == IF p = "offerer" THEN 1 ELSE 2
Step == 2

(* A channel and the task of its retransmission loop.  Mutant: no task.    *)
IdleChannel(handler) ==
    [onMessage |-> handler, loop |-> "off", sendSeq |-> 0,
     window |-> [f \in {} |-> 0], recvNext |-> 0]
NewChannel(handler) ==
    [onMessage |-> handler, loop |-> "on", sendSeq |-> 0,
     window |-> [f \in {} |-> 0], recvNext |-> 0]

Put(f, k, v) == [x \in DOMAIN f \cup {k} |-> IF x = k THEN v ELSE f[x]]

Init ==
    /\ phase = [p \in Peers |-> "connecting"]
    /\ ready = [p \in Peers |-> TRUE]
    /\ nextId = [p \in Peers |-> FirstId(p)]
    /\ channels = [p \in Peers |-> [id \in {} |-> 0]]
    /\ size = [p \in Peers |-> 0]
    /\ at = [p \in Peers |-> [id |-> 0, woken |-> FALSE]]
    /\ cleared = [p \in Peers |-> [id \in {} |-> 0]]
    /\ jobs = [p \in Peers |-> {}]
    /\ wire = [p \in Peers |-> <<>>]
    /\ client = [c \in Clients |-> "new"]
    /\ chan = [c \in Clients |-> 0]
    /\ answers = [c \in Clients |-> {}]
    /\ fetches = [c \in Clients |-> 0]
-----------------------------------------------------------------------------
(* Frames go out.                                                          *)

Full(ch) == Cardinality(DOMAIN ch.window) >= WindowSize

(* The frame takes a number and a place in the window.                     *)
Sending(ch, f) == [ch EXCEPT !.sendSeq = @ + 1, !.window = Put(@, f, 0)]

(* What is sent to a peer that is gone is lost.                            *)
Wires(p, in, out) ==
    [q \in Peers |->
        IF q = p THEN in
        ELSE IF Over(q) \/ ~ready[q] THEN wire[q] ELSE wire[q] \o out]
Emit(p, out) == wire' = Wires(p, wire[p], out)

(* Out of retries.  Mutant: retries are not counted.                       *)
NeverExpired(ch, f) == FALSE
Expired(ch, f) == ch.window[f] >= MaxRetransmits

(* The window is in the order its frames were sent in.                     *)
InOrder(frames) ==
    {q \in SetToSeqs(frames) : \A i, j \in DOMAIN q : i < j => q[i].seq < q[j].seq}

(* The channel after a pass.                                               *)
Passed(ch, due, expired) ==
    [ch EXCEPT !.loop = IF @ = "last" THEN "off" ELSE "on",
               !.window = [f \in DOMAIN @ \ expired |-> IF f \in due THEN @[f] + 1 ELSE @[f]]]

(* A pass over ch sends again what is due; closed, a loop makes one more.  *)
Resends(p, ch, due) ==
    /\ ready[p] /\ ~Over(p) /\ Len(wire[Other(p)]) < MaxWire
    /\ ch.loop # "off" /\ (due = {} => ch.loop = "last")
    /\ \E out \in InOrder({f \in due : ~Expired(ch, f)}) : Emit(p, out)
    /\ UNCHANGED <<phase, ready, nextId, size, at, jobs, exchange, fetches>>

(* One pass of the loop of a channel of the table.                         *)
RetransmitPass(p, id, due) ==
    LET ch == channels[p][id]
    IN  /\ Resends(p, ch, due)
        /\ channels' = [channels EXCEPT ![p][id] = Passed(ch, due, {f \in due : Expired(ch, f)})]
        /\ UNCHANGED cleared

(* The last one of a channel that close_all has cleared.                   *)
LastPass(p, id, due) ==
    LET ch == cleared[p][id]
    IN  /\ Resends(p, ch, due)
        /\ cleared' = [cleared EXCEPT ![p][id] = Passed(ch, due, {f \in due : Expired(ch, f)})]
        /\ UNCHANGED channels
-----------------------------------------------------------------------------
(* The local proxy; it accepts clients from start() on and is never closed.*)

(* _handle_http opens a channel and sends; without a tunnel it waits.      *)
Request(c) ==
    LET p  == Home(c)
        id == nextId[p]
        f  == Frame("request", id, 0, c, TRUE)
    IN  /\ client[c] = "new"
        /\ phase[p] \notin {"connecting", "over"}
        /\ nextId' = [nextId EXCEPT ![p] = @ + Step]
        /\ chan' = [chan EXCEPT ![c] = id]
        /\ channels' = [channels EXCEPT ![p] = Put(@, id, Sending(NewChannel("future"), f))]
        /\ client' = [client EXCEPT ![c] = IF ready[p] THEN "waiting" ELSE "sending"]
        /\ Emit(p, IF ready[p] THEN <<f>> ELSE <<>>)
        /\ UNCHANGED <<phase, ready, closing, jobs, answers, fetches>>

(* 60 s have passed; the future is cancelled.                              *)
Timeout(c) ==
    /\ client[c] = "waiting"
    /\ client' = [client EXCEPT ![c] = "timeout"]
    /\ UNCHANGED <<phase, ready, nextId, channels, closing, jobs, wire, chan, answers, fetches>>
-----------------------------------------------------------------------------
(* Frames come in.                                                         *)

(* The aiohttp session is open while the peer serves; close() comes first  *)
(* in the finally clause.  Mutant: it comes last.                          *)
SessionOpenToTheEnd(p) == phase[p] \in {"serving", "stopping", "closing", "leaving"}
SessionOpen(p) == phase[p] = "serving"

(* What the handler given by on_channel, if it is set by now, is to be.    *)
OnChannel(p) == IF phase[p] = "starting" THEN "none" ELSE "dispatch"

GetOrCreate(p, id) ==
    IF id \in DOMAIN channels[p] THEN channels[p][id] ELSE NewChannel(OnChannel(p))

(* channel.on_message: a future takes the first result if it is not done;  *)
(* _dispatch starts a request, which fails at once without a session, and  *)
(* knows nothing of responses.                                             *)
OnMessage(p, handler, f) ==
    /\ \/ /\ handler = "future"
          /\ LET asked == {c \in Clients :
                             Home(c) = p /\ chan[c] = f.ch /\ client[c] = "waiting"}
             IN  /\ client' = [c \in Clients |-> IF c \in asked THEN "answered" ELSE client[c]]
                 /\ answers' = [c \in Clients |->
                                  IF c \in asked THEN answers[c] \cup {f} ELSE answers[c]]
       \/ handler # "future" /\ UNCHANGED <<client, answers>>
    /\ \/ /\ handler = "dispatch" /\ f.type = "request"
          /\ jobs' = [jobs EXCEPT ![p] =
                @ \cup {[ch |-> f.ch, req |-> f.req, made |-> SessionOpen(p), listed |-> TRUE]}]
          /\ fetches' = [fetches EXCEPT ![f.req] = @ + IF SessionOpen(p) THEN 1 ELSE 0]
       \/ ~(handler = "dispatch" /\ f.type = "request") /\ UNCHANGED <<jobs, fetches>>

(* The frames an ACK leaves in the window.                                 *)
Unacked(ch, ack) == {f \in DOMAIN ch.window : f.seq >= ack}

(* handle_frame of an ACK: close_all is woken if it waits for the window.  *)
HandleAck(p, ch, f) ==
    LET kept == [g \in Unacked(ch, f.seq) |-> ch.window[g]]
    IN  /\ channels' = [channels EXCEPT ![p] = Put(@, f.ch, [ch EXCEPT !.window = kept])]
        /\ at' = IF at[p].id = f.ch /\ Cardinality(DOMAIN kept) < WindowSize
                   THEN [at EXCEPT ![p].woken = TRUE] ELSE at
        /\ wire' = Wires(p, Tail(wire[p]), <<>>)
        /\ UNCHANGED <<jobs, client, answers, fetches>>

(* Of data: an ACK goes out; the frame is a duplicate, or the next one, or *)
(* waits for a predecessor that was a FIN, which handle_frame ignores.  If *)
(* its turn comes all the same it is a response to a future already done,  *)
(* so the buffer is left out.                                              *)
HandleData(p, ch, f) ==
    /\ wire' = Wires(p, Tail(wire[p]), <<Frame("ack", f.ch, f.seq + 1, f.req, TRUE)>>)
    /\ \/ /\ f.seq = ch.recvNext
          /\ channels' = [channels EXCEPT ![p] = Put(@, f.ch, [ch EXCEPT !.recvNext = @ + 1])]
          /\ OnMessage(p, ch.onMessage, f)
       \/ /\ f.seq # ch.recvNext
          /\ channels' = [channels EXCEPT ![p] = Put(@, f.ch, ch)]
          /\ UNCHANGED <<jobs, client, answers, fetches>>
    /\ UNCHANGED at

(* Of FIN: nothing, but handle_raw has found or created the channel.       *)
HandleFin(p, ch, f) ==
    /\ channels' = [channels EXCEPT ![p] = Put(@, f.ch, ch)]
    /\ wire' = Wires(p, Tail(wire[p]), <<>>)
    /\ UNCHANGED <<at, jobs, client, answers, fetches>>

(* handle_raw.                                                             *)
HandleRaw(p) ==
    /\ wire[p] # <<>> /\ ready[p] /\ phase[p] \notin {"connecting", "over"}
    /\ LET f  == Head(wire[p])
           ch == GetOrCreate(p, f.ch)
       IN  \/ f.type = "ack" /\ HandleAck(p, ch, f)
           \/ IsData(f) /\ HandleData(p, ch, f)
           \/ f.type = "fin" /\ HandleFin(p, ch, f)
    /\ UNCHANGED <<phase, ready, nextId, size, cleared, chan>>

(* Without on_receive a message is discarded.                              *)
Discard(p) ==
    /\ wire[p] # <<>> /\ phase[p] = "connecting"
    /\ wire' = [wire EXCEPT ![p] = Tail(@)]
    /\ UNCHANGED <<phase, ready, nextId, channels, closing, jobs, exchange, fetches>>

(* A request is done, or fails with 502; the response is sent.  When the   *)
(* table has been cleared the handler still has its channel, whose first   *)
(* frame was the FIN, but no ACK will find it any more.                    *)
Respond(p, j, ok) ==
    LET ch == IF j.listed THEN channels[p][j.ch] ELSE cleared[p][j.ch]
        f  == Frame("response", j.ch, ch.sendSeq, j.req, ok)
    IN  /\ ready[p] /\ ~Over(p)
        /\ ok => j.made
        /\ ~Full(ch)
        /\ jobs' = [jobs EXCEPT ![p] = @ \ {j}]
        /\ Emit(p, <<f>>)
        /\ \/ /\ j.listed
              /\ channels' = [channels EXCEPT ![p][j.ch] = Sending(ch, f)]
              /\ UNCHANGED cleared
           \/ /\ ~j.listed
              /\ cleared' = [cleared EXCEPT ![p][j.ch] = Sending(ch, f)]
              /\ UNCHANGED channels
        /\ UNCHANGED <<phase, ready, nextId, size, at, exchange, fetches>>
-----------------------------------------------------------------------------
(* run_peer.                                                               *)

Moves(p, from, to) == phase[p] = from /\ phase' = [phase EXCEPT ![p] = to]

(* The multiplexer is created and wired to the tunnel; http_proxy.start()  *)
(* is awaited.                                                             *)
Attach(p) ==
    /\ Moves(p, "connecting", "starting")
    /\ UNCHANGED <<ready, nextId, channels, closing, jobs, wire, exchange, fetches>>

(* remote_handler.setup() sets mux.on_channel.                             *)
SetUp(p) ==
    /\ Moves(p, "starting", "serving")
    /\ UNCHANGED <<ready, nextId, channels, closing, jobs, wire, exchange, fetches>>

(* stop is set; remote_handler.close() is awaited.                         *)
Stop(p) ==
    /\ p \in Stopping
    /\ Moves(p, "serving", "stopping")
    /\ UNCHANGED <<ready, nextId, channels, closing, jobs, wire, exchange, fetches>>

Fin(id, ch) == Frame("fin", id, ch.sendSeq, CHOOSE c \in Clients : TRUE, TRUE)

(* close() of a channel of the table sets _closed and sends FIN, or waits: *)
(* for the window, or for the tunnel.                                      *)
Closed(id, ch) == [Sending(ch, Fin(id, ch)) EXCEPT !.loop = IF @ = "on" THEN "last" ELSE @]
Blocks(p, ch) == Full(ch) \/ ~ready[p]

(* close_all goes on over table, sending out and then the FIN of channel   *)
(* after channel, until it has to wait or all are closed and cleared.  The *)
(* order of the table is left open.                                        *)
CloseOn(p, table, out) ==
    LET open == {id \in DOMAIN table : table[id].loop = "on"}
        FinsOf(order) == [i \in DOMAIN order |-> Fin(order[i], table[order[i]])]
    IN  \/ /\ \A id \in open : ~Blocks(p, table[id])
           /\ phase' = [phase EXCEPT ![p] = "leaving"]
           /\ channels' = [channels EXCEPT ![p] = [id \in {} |-> 0]]
           /\ cleared' = [cleared EXCEPT ![p] =
                [id \in DOMAIN table |-> IF id \in open THEN Closed(id, table[id]) ELSE table[id]]]
           /\ jobs' = [jobs EXCEPT ![p] = {[j EXCEPT !.listed = FALSE] : j \in @}]
           /\ at' = [at EXCEPT ![p] = [id |-> 0, woken |-> FALSE]]
           /\ \E order \in SetToSeqs(open) : Emit(p, out \o FinsOf(order))
        \/ \E b \in open : \E before \in SUBSET (open \ {b}) :
           /\ Blocks(p, table[b])
           /\ \A id \in before : ~Blocks(p, table[id])
           /\ phase' = [phase EXCEPT ![p] = "closing"]
           /\ channels' = [channels EXCEPT ![p] =
                [id \in DOMAIN table |->
                   IF id \in before THEN Closed(id, table[id])
                   ELSE IF id = b THEN [table[id] EXCEPT !.loop = "last"] ELSE table[id]]]
           /\ at' = [at EXCEPT ![p] = [id |-> b, woken |-> FALSE]]
           /\ \E order \in SetToSeqs(before) : Emit(p, out \o FinsOf(order))
           /\ UNCHANGED <<cleared, jobs>>

CloseAll(p) ==
    /\ phase[p] = "stopping"
    /\ size' = [size EXCEPT ![p] = Cardinality(DOMAIN channels[p])]
    /\ CloseOn(p, channels[p], <<>>)
    /\ UNCHANGED <<ready, nextId, exchange, fetches>>

(* The process sends out and ends: run_peer returned or raised, all tasks  *)
(* are cancelled.                                                          *)
Ends(p, out) ==
    /\ phase' = [phase EXCEPT ![p] = "over"]
    /\ ready' = [ready EXCEPT ![p] = FALSE]
    /\ channels' = [channels EXCEPT ![p] = [id \in {} |-> 0]]
    /\ cleared' = [cleared EXCEPT ![p] = [id \in {} |-> 0]]
    /\ at' = [at EXCEPT ![p] = [id |-> 0, woken |-> FALSE]]
    /\ jobs' = [jobs EXCEPT ![p] = {}]
    /\ wire' = Wires(p, <<>>, out)
    /\ client' = [c \in Clients |->
                    IF Home(c) = p /\ client[c] \in {"sending", "waiting"} THEN "gone" ELSE client[c]]
    /\ UNCHANGED <<nextId, size, chan, answers, fetches>>

(* The close() that close_all awaits is woken (its channel has no other    *)
(* data to fill the window with).  The iteration raises if the table has   *)
(* changed size, which nobody catches, or goes on.                         *)
CloseResumes(p) ==
    LET id == at[p].id
        ch == channels[p][id]
    IN  /\ phase[p] = "closing" /\ at[p].woken /\ ready[p]
        /\ \/ /\ Cardinality(DOMAIN channels[p]) # size[p]
              /\ Ends(p, <<Fin(id, ch)>>)
           \/ /\ Cardinality(DOMAIN channels[p]) = size[p]
              /\ CloseOn(p, [channels[p] EXCEPT ![id] = Closed(id, ch)], <<Fin(id, ch)>>)
              /\ UNCHANGED <<ready, nextId, size, exchange, fetches>>

(* peer.close() and signaling.close() return.                              *)
Leave(p) == phase[p] = "leaving" /\ Ends(p, <<>>)

(* The DataChannel closes: the other end is gone, or the connection failed.*)
(* on_close clears _ready; nothing sets it again.                          *)
Disconnect(p) ==
    /\ ready[p] /\ ~Over(p)
    /\ MayFail \/ ~ready[Other(p)]
    /\ ready' = [ready EXCEPT ![p] = FALSE]
    /\ wire' = [wire EXCEPT ![p] = <<>>]
    /\ UNCHANGED <<phase, nextId, channels, closing, jobs, exchange, fetches>>

Next ==
    \/ \E c \in Clients : Request(c) \/ Timeout(c)
    \/ \E p \in Peers :
        \/ Attach(p) \/ SetUp(p) \/ Stop(p) \/ CloseAll(p) \/ CloseResumes(p) \/ Leave(p)
        \/ HandleRaw(p) \/ Discard(p) \/ Disconnect(p)
        \/ \E id \in DOMAIN channels[p] :
            \E due \in SUBSET DOMAIN channels[p][id].window : RetransmitPass(p, id, due)
        \/ \E id \in DOMAIN cleared[p] :
            \E due \in SUBSET DOMAIN cleared[p][id].window : LastPass(p, id, due)
        \/ \E j \in jobs[p], ok \in BOOLEAN : Respond(p, j, ok)

Spec == Init /\ [][Next]_vars

(* Tasks that can run do, frames in transit arrive, retransmission timers  *)
(* fire, requests to the internet end within 55 s.  Nobody has to send a   *)
(* request, to stop or to lose the connection.                             *)
Fairness ==
    /\ \A p \in Peers :
        /\ WF_vars(Attach(p)) /\ WF_vars(SetUp(p))
        /\ WF_vars(CloseAll(p)) /\ WF_vars(CloseResumes(p)) /\ WF_vars(Leave(p))
        /\ WF_vars(HandleRaw(p)) /\ WF_vars(Discard(p))
        /\ WF_vars(\E j \in jobs[p], ok \in BOOLEAN : Respond(p, j, ok))
    /\ \A c \in Clients :
        WF_vars(LET p == Home(c)
                IN  /\ chan[c] \in DOMAIN channels[p]
                    /\ RetransmitPass(p, chan[c], DOMAIN channels[p][chan[c]].window))

FairSpec == Spec /\ Fairness
-----------------------------------------------------------------------------
(* Properties.                                                             *)

Frames == [type : {"request", "response", "ack", "fin"}, ch : Nat, seq : 0 .. 2,
           req : Clients, ok : BOOLEAN]

(* Every variable has its type; a frame is retried max_retransmits times,  *)
(* and a channel sends at most its data frame and its FIN.                 *)
IsChannel(ch) ==
    /\ ch.onMessage \in {"none", "future", "dispatch"}
    /\ ch.loop \in {"on", "last", "off"}
    /\ {ch.sendSeq, ch.recvNext} \subseteq 0 .. 2
    /\ DOMAIN ch.window \subseteq Frames
    /\ \A f \in DOMAIN ch.window : f.seq < ch.sendSeq /\ ch.window[f] \in 0 .. MaxRetransmits

TypeOK ==
    /\ phase \in [Peers -> {"connecting", "starting", "serving", "stopping",
                            "closing", "leaving", "over"}]
    /\ ready \in [Peers -> BOOLEAN]
    /\ nextId \in [Peers -> Nat]
    /\ \A p \in Peers : \A id \in DOMAIN channels[p] : id \in Nat /\ IsChannel(channels[p][id])
    /\ \A p \in Peers : \A id \in DOMAIN cleared[p] : id \in Nat /\ IsChannel(cleared[p][id])
    /\ size \in [Peers -> Nat]
    /\ at \in [Peers -> [id : Nat, woken : BOOLEAN]]
    /\ \A p \in Peers :
        jobs[p] \subseteq [ch : Nat, req : Clients, made : BOOLEAN, listed : BOOLEAN]
    /\ wire \in [Peers -> Seq(Frames)]
    /\ client \in [Clients -> {"new", "sending", "waiting", "answered", "timeout", "gone"}]
    /\ chan \in [Clients -> Nat]
    /\ \A c \in Clients : answers[c] \subseteq Frames
    /\ fetches \in [Clients -> Nat]

(* "This prevents channel ID collisions when both peers proxy": a client's *)
(* future is given the response to its own request, of a fetch that was    *)
(* made if it is not an error, and nothing else.                           *)
OwnAnswer ==
    \A c \in Clients : \A f \in answers[c] :
        f.type = "response" /\ f.req = c /\ (f.ok => fetches[c] = 1)

(* A request is made on the internet at most once, although frames are     *)
(* repeated and a table that close_all has cleared forgets what it had.    *)
FetchedOnce == \A c \in Clients : fetches[c] <= 1

(* A request that no handler will ever see: it was acknowledged before     *)
(* on_channel was set, or given up before on_receive was.                  *)
Unheard(c) ==
    LET p  == Home(c)
        id == chan[c]
    IN  \/ id \in DOMAIN channels[Other(p)] /\ channels[Other(p)][id].onMessage = "none"
        \/ /\ id \notin DOMAIN channels[Other(p)]
           /\ id \in DOMAIN channels[p] => channels[p][id].window = <<>>
Serve == \A p \in Peers : phase[p] = "serving" /\ ready[p]

(* While both peers serve, a request is answered without its timeout, even *)
(* one that was sent before the other peer listened, unless it is unheard. *)
AnswerArrives ==
    \A c \in Clients :
        client[c] = "waiting" ~> (client[c] # "waiting" \/ ~Serve \/ Unheard(c))

(* "Await on_channel before processing the first frame so that             *)
(* ch.on_message is set before handle_frame delivers the payload."         *)
HandlerFirst ==
    \A p \in Peers : \A id \in DOMAIN channels[p] :
        channels[p][id].recvNext > 0 => channels[p][id].onMessage # "none"

(* "Close all channels.": close_all closes every channel of the table.     *)
AllGetClosed ==
    \A p \in Peers :
        phase[p] = "closing" ~> \A id \in DOMAIN channels[p] : channels[p][id].loop # "on"
=============================================================================
