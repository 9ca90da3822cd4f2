---------------------------- MODULE MessageStream ----------------------------
(***************************************************************************)
(* What protocol/reliable.py promises in its first lines, "reliable        *)
(* ordered delivery over a single logical channel", without acknowledging, *)
(* retransmitting, windows or fragments: messages are submitted, and those *)
(* submitted are delivered whole, in order, each at most once.             *)
(***************************************************************************)
EXTENDS Integers, Sequences

CONSTANTS Sender,       \* the task that submits messages
          MaxMessages,  \* bound: messages submitted
          MaxFragments  \* bound: fragments of one message

VARIABLES submitted,    \* the size of each message submitted
          delivered     \* the messages delivered

streamVars == <<submitted, delivered>>

Message(i) ==
    [j \in 1 .. submitted[i] |->
        [from |-> Sender, msg |-> i, frag |-> j, of |-> submitted[i]]]

StreamInit == submitted = <<>> /\ delivered = <<>>

Submit(n) ==
    /\ Len(submitted) < MaxMessages
    /\ submitted' = Append(submitted, n)
    /\ UNCHANGED delivered

DeliverNext ==
    /\ Len(delivered) < Len(submitted)
    /\ delivered' = Append(delivered, Message(Len(delivered) + 1))
    /\ UNCHANGED submitted

StreamNext == (\E n \in 1 .. MaxFragments : Submit(n)) \/ DeliverNext

StreamSpec == StreamInit /\ [][StreamNext]_streamVars
=============================================================================
