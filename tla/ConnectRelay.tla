----------------------------- MODULE ConnectRelay -----------------------------
(***************************************************************************)
(* One CONNECT of proxy/http_server.py from end to end: the local proxy    *)
(* with its client, the remote handler with its target, and the channel    *)
(* between them, here the ordered stream of messages that ReliableChannel  *)
(* implements.  The two relay loops are the same code at both ends, so     *)
(* their state is indexed by the side.                                     *)
(***************************************************************************)
EXTENDS Integers, Sequences

CONSTANT MaxChunks  \* bound: chunks that each of client and target writes

ASSUME ChunksAssumption == MaxChunks \in Nat

Sides == {"local", "remote"}
Other(s) == IF s = "local" THEN "remote" ELSE "local"

VARIABLES
    main,     \* where each side's _handle_connect is
    reply,    \* reply_future of the local side
    handler,  \* channel.on_message of each side
    inbox,    \* messages of the channel on their way to a side
    reader,   \* client_to_tunnel, target_to_tunnel
    writer,   \* tunnel_to_client, tunnel_to_target
    closed,   \* the event closed of each side
    queue,    \* relay_queue of each side
    app,      \* the connection as client and target left it
    written,  \* number of chunks client and target have written
    taken,    \* number of them that the proxy has read
    got       \* history: the chunks written to client and target

relayVars == <<reader, writer, closed, queue, got>>
appVars   == <<app, written>>
vars == <<main, reply, handler, inbox, relayVars, appVars, taken>>

(* A message is a word of the dialogue or a chunk, known by its number.    *)
Chunks == 1 .. MaxChunks
Words  == {"connect", "ok", "error"}
Word(w)  == [type |-> w, n |-> 0]
Chunk(k) == [type |-> "chunk", n |-> k]
Messages == {Word(w) : w \in Words} \cup {Chunk(k) : k \in Chunks}

Init ==
    /\ main = [s \in Sides |-> "idle"]
    /\ reply = "none"
    /\ handler = [s \in Sides |-> IF s = "remote" THEN "dispatch" ELSE "none"]
    /\ inbox = [s \in Sides |-> <<>>]
    /\ reader = [s \in Sides |-> "none"]
    /\ writer = [s \in Sides |-> "none"]
    /\ closed = [s \in Sides |-> FALSE]
    /\ queue = [s \in Sides |-> <<>>]
    /\ app = [s \in Sides |-> "open"]
    /\ written = [s \in Sides |-> 0]
    /\ taken = [s \in Sides |-> 0]
    /\ got = [s \in Sides |-> <<>>]
-----------------------------------------------------------------------------
(* Client and target.                                                      *)

Connected(s) == main[s] \notin {"idle", "opening", "ended"}

AppWrites(s) ==
    /\ Connected(s) /\ app[s] = "open" /\ written[s] < MaxChunks
    /\ written' = [written EXCEPT ![s] = @ + 1]
    /\ UNCHANGED <<main, reply, handler, inbox, relayVars, app, taken>>

(* The application closes its connection, or it is reset.                  *)
AppLeaves(s) ==
    /\ Connected(s) /\ app[s] = "open"
    /\ \E how \in {"closed", "reset"} : app' = [app EXCEPT ![s] = how]
    /\ UNCHANGED <<main, reply, handler, inbox, relayVars, written, taken>>
-----------------------------------------------------------------------------
(* The dialogue.                                                           *)

Post(s, m) == inbox' = [inbox EXCEPT ![s] = Append(@, m)]

(* A client's CONNECT: a channel is opened and the request sent.           *)
Connect ==
    /\ main["local"] = "idle"
    /\ main' = [main EXCEPT !["local"] = "asking"]
    /\ reply' = "pending"
    /\ handler' = [handler EXCEPT !["local"] = "first"]
    /\ Post("remote", Word("connect"))
    /\ UNCHANGED <<relayVars, appVars, taken>>

(* gather() starts both relay tasks of a side, which registers on_message  *)
(* (on_relay, on_data).  Mutant: it is not registered.                     *)
NotRegistered(s) == handler
Registered(s) == [handler EXCEPT ![s] = "relay"]

StartRelay(s) ==
    /\ main' = [main EXCEPT ![s] = "relaying"]
    /\ handler' = Registered(s)
    /\ reader' = [reader EXCEPT ![s] = "reading"]
    /\ writer' = [writer EXCEPT ![s] = "waiting"]
    /\ UNCHANGED <<closed, queue, got>>

(* The target accepts: connect_ok and gather() follow one another without  *)
(* an await that suspends.                                                 *)
TargetOpens ==
    /\ main["remote"] = "opening"
    /\ Post("local", Word("ok"))
    /\ StartRelay("remote")
    /\ UNCHANGED <<reply, appVars, taken>>

(* The target refuses, or open_connection times out.                       *)
TargetFails ==
    /\ main["remote"] = "opening"
    /\ main' = [main EXCEPT !["remote"] = "ended"]
    /\ Post("local", Word("error"))
    /\ UNCHANGED <<reply, handler, relayVars, appVars, taken>>

(* The local side has waited 30 s; the future is cancelled.                *)
ReplyTimeout ==
    /\ main["local"] = "asking" /\ reply = "pending"
    /\ reply' = "cancelled"
    /\ main' = [main EXCEPT !["local"] = "ended"]
    /\ UNCHANGED <<handler, inbox, relayVars, appVars, taken>>

(* The local task finds the reply; after connect_ok it awaits drain().     *)
ReplyArrives ==
    /\ main["local"] = "asking" /\ reply \notin {"pending", "cancelled"}
    /\ main' = [main EXCEPT !["local"] = IF reply = "ok" THEN "confirming" ELSE "ended"]
    /\ UNCHANGED <<reply, handler, inbox, relayVars, appVars, taken>>

(* drain() returns and the relay starts, or the client was gone.           *)
Confirmed ==
    /\ main["local"] = "confirming"
    /\ \/ StartRelay("local")
       \/ /\ app["local"] # "open"
          /\ main' = [main EXCEPT !["local"] = "ended"]
          /\ UNCHANGED <<handler, relayVars>>
    /\ UNCHANGED <<reply, inbox, appVars, taken>>
-----------------------------------------------------------------------------
(* set_result, unless done.  Mutant: the newest message is the result.     *)
ResultNewest(m) == m.type
Result(m) == IF reply = "pending" THEN m.type ELSE reply

(* relay_queue.put.  Mutants: at the wrong end; only the newest is kept.   *)
PutFirst(q, m) == <<m>> \o q
PutNewest(q, m) == <<m>>
PutLast(q, m) == Append(q, m)

(* The channel delivers a message to on_message, whichever it is by now:   *)
(* on_first_msg keeps the first and ignores the rest, _dispatch takes a    *)
(* connect and cannot parse a chunk.                                       *)
Deliver(s) ==
    /\ inbox[s] # <<>>
    /\ inbox' = [inbox EXCEPT ![s] = Tail(@)]
    /\ LET m == Head(inbox[s])
       IN  \/ /\ handler[s] = "first"
              /\ reply' = Result(m)
              /\ UNCHANGED <<main, queue>>
           \/ /\ handler[s] = "dispatch"
              /\ main' = IF m.type = "connect" THEN [main EXCEPT ![s] = "opening"] ELSE main
              /\ UNCHANGED <<reply, queue>>
           \/ /\ handler[s] = "relay"
              /\ queue' = [queue EXCEPT ![s] = PutLast(@, m)]
              /\ UNCHANGED <<main, reply>>
    /\ UNCHANGED <<handler, reader, writer, closed, got, appVars, taken>>
-----------------------------------------------------------------------------
(* The relay tasks.                                                        *)

LoopTop(s, busy) == IF closed[s] THEN "ended" ELSE busy

(* A chunk is read and sent; send() may have to wait for the window.       *)
ReadChunk(s) ==
    /\ reader[s] = "reading" /\ app[s] # "reset" /\ taken[s] < written[s]
    /\ taken' = [taken EXCEPT ![s] = @ + 1]
    /\ Post(Other(s), Chunk(taken[s] + 1))
    /\ reader' = [reader EXCEPT ![s] = "sending"]
    /\ UNCHANGED <<main, reply, handler, writer, closed, queue, got, appVars>>

(* send() returns and the loop tests closed.                               *)
Sent(s) ==
    /\ reader[s] = "sending"
    /\ reader' = [reader EXCEPT ![s] = LoopTop(s, "reading")]
    /\ UNCHANGED <<main, reply, handler, inbox, writer, closed, queue, got, appVars, taken>>

(* read() returns nothing or raises.                                       *)
ReadEnds(s) ==
    /\ reader[s] = "reading"
    /\ app[s] = "reset" \/ (app[s] = "closed" /\ taken[s] = written[s])
    /\ reader' = [reader EXCEPT ![s] = "ended"]
    /\ closed' = [closed EXCEPT ![s] = TRUE]
    /\ UNCHANGED <<main, reply, handler, inbox, writer, queue, got, appVars, taken>>

(* A chunk is taken from the queue and written; drain() is awaited.        *)
WriteChunk(s) ==
    /\ writer[s] = "waiting" /\ queue[s] # <<>>
    /\ got' = [got EXCEPT ![s] = Append(@, Head(queue[s]).n)]
    /\ queue' = [queue EXCEPT ![s] = Tail(@)]
    /\ writer' = [writer EXCEPT ![s] = "draining"]
    /\ UNCHANGED <<main, reply, handler, inbox, reader, closed, appVars, taken>>

(* drain() returns, or raises if the other end of the connection is gone.  *)
Drained(s) ==
    /\ writer[s] = "draining"
    /\ \/ /\ writer' = [writer EXCEPT ![s] = LoopTop(s, "waiting")]
          /\ UNCHANGED closed
       \/ /\ app[s] # "open"
          /\ writer' = [writer EXCEPT ![s] = "ended"]
          /\ closed' = [closed EXCEPT ![s] = TRUE]
    /\ UNCHANGED <<main, reply, handler, inbox, reader, queue, got, appVars, taken>>

(* Nothing to relay for 120 s.  Mutant: get() has no timeout.              *)
NeverIdle(s) == FALSE
Idle(s) == queue[s] = <<>>

IdleTimeout(s) ==
    /\ writer[s] = "waiting" /\ Idle(s)
    /\ writer' = [writer EXCEPT ![s] = "ended"]
    /\ closed' = [closed EXCEPT ![s] = TRUE]
    /\ UNCHANGED <<main, reply, handler, inbox, reader, queue, got, appVars, taken>>

(* gather() returns when both tasks have; the connection is closed.        *)
RelayEnds(s) ==
    /\ main[s] = "relaying" /\ reader[s] = "ended" /\ writer[s] = "ended"
    /\ main' = [main EXCEPT ![s] = "ended"]
    /\ UNCHANGED <<reply, handler, inbox, relayVars, appVars, taken>>

Next ==
    \/ Connect \/ TargetOpens \/ TargetFails
    \/ ReplyTimeout \/ ReplyArrives \/ Confirmed
    \/ \E s \in Sides :
        \/ AppWrites(s) \/ AppLeaves(s)
        \/ Deliver(s)
        \/ ReadChunk(s) \/ Sent(s) \/ ReadEnds(s)
        \/ WriteChunk(s) \/ Drained(s) \/ IdleTimeout(s)
        \/ RelayEnds(s)

Spec == Init /\ [][Next]_vars

(* Tasks that can run do, timers fire, the channel delivers, and a target  *)
(* accepts or fails within 30 s.  Client and target owe nothing.           *)
Fairness ==
    /\ WF_vars(TargetOpens \/ TargetFails)
    /\ WF_vars(ReplyTimeout) /\ WF_vars(ReplyArrives) /\ WF_vars(Confirmed)
    /\ \A s \in Sides :
        /\ WF_vars(Deliver(s))
        /\ WF_vars(ReadChunk(s)) /\ WF_vars(Sent(s)) /\ WF_vars(ReadEnds(s))
        /\ WF_vars(WriteChunk(s)) /\ WF_vars(Drained(s)) /\ WF_vars(IdleTimeout(s))
        /\ WF_vars(RelayEnds(s))

FairSpec == Spec /\ Fairness
-----------------------------------------------------------------------------
(* Properties.                                                             *)

(* Every variable has its type.                                            *)
TypeOK ==
    /\ main \in [Sides -> {"idle", "asking", "confirming", "opening", "relaying", "ended"}]
    /\ reply \in {"none", "pending", "cancelled", "ok", "error"}
    /\ handler \in [Sides -> {"none", "first", "dispatch", "relay"}]
    /\ inbox \in [Sides -> Seq(Messages)]
    /\ reader \in [Sides -> {"none", "reading", "sending", "ended"}]
    /\ writer \in [Sides -> {"none", "waiting", "draining", "ended"}]
    /\ closed \in [Sides -> BOOLEAN]
    /\ queue \in [Sides -> Seq(Messages)]
    /\ app \in [Sides -> {"open", "closed", "reset"}]
    /\ written \in [Sides -> 0 .. MaxChunks]
    /\ taken \in [Sides -> 0 .. MaxChunks] /\ \A s \in Sides : taken[s] <= written[s]
    /\ got \in [Sides -> Seq(0 .. MaxChunks)]

(* The client's bytes reach the target whole: what the target was given,   *)
(* what waits in relay_queue and what is on its way are the chunks that the*)
(* local side read, in order.  None of them comes before on_data replaced  *)
(* _dispatch, which would drop it, even when connect_ok comes late.        *)
Ahead(s) == queue[s] \o inbox[s]
Numbers(msgs) == [i \in DOMAIN msgs |-> msgs[i].n]
TargetGetsAll ==
    taken["local"] > 0 =>
        got["remote"] \o Numbers(Ahead("remote")) = [k \in 1 .. taken["local"] |-> k]

(* "After connect_ok, the channel carries raw encrypted byte chunks": what *)
(* the client is given is what the remote side read from the target, from  *)
(* the first chunk on.                                                     *)
ClientGetsAll == \A i \in DOMAIN got["local"] : got["local"][i] = i

(* What the client gets has no gap once it has begun, and never a word of  *)
(* the dialogue: chunks are lost, if at all, only before the relay starts. *)
ClientGetsRun ==
    \A i \in DOMAIN got["local"] :
        /\ got["local"][i] \in Chunks
        /\ i > 1 => got["local"][i] = got["local"][i - 1] + 1

(* Whenever the client leaves, the local side ends, and whenever the target*)
(* leaves, the remote side does: neither hangs on its other relay task.    *)
ClientLeaveEnds == app["local"] # "open" ~> main["local"] = "ended"
TargetLeaveEnds == app["remote"] # "open" ~> main["remote"] = "ended"

(* Each direction is a pipe: every step of both sides puts the next chunk  *)
(* in, takes one out that follows what came out before, or changes nothing *)
(* of the pipe.  The one to the client may lose its first chunks.          *)
ToTarget == INSTANCE BytePipe WITH
                in <- taken["local"], out <- got["remote"], Whole <- TRUE
ToClient == INSTANCE BytePipe WITH
                in <- taken["remote"], out <- got["local"], Whole <- FALSE
ImplementsPipes == ToTarget!PipeSpec /\ ToClient!PipeSpec
=============================================================================
