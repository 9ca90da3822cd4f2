-------------------------- MODULE MCReliableChannel --------------------------
(***************************************************************************)
(* ReliableChannel for TLC, with the refinement of MessageStream, which it *)
(* implements when one task sends.                                         *)
(***************************************************************************)
EXTENDS ReliableChannel

Sender == CHOOSE t \in Senders : TRUE

(* The sizes of the messages given to send() so far: those of the fragments*)
(* sent, and that of the message whose first fragment waits for the window.*)
Submitted ==
    LET last == frame[Sender].payload
        SizeOf(i) == (CHOOSE f \in ToSet(sent) : f.payload.msg = i).payload.of
    IN  [i \in 1 .. last.msg |-> IF i = last.msg THEN last.of ELSE SizeOf(i)]

Stream == INSTANCE MessageStream WITH submitted <- Submitted

(* The channel implements the stream of messages: every step of senders,   *)
(* transport, retransmission and receiver submits one message, delivers    *)
(* the next one as it was submitted, or changes nothing of the stream.     *)
ImplementsStream == Stream!StreamSpec
=============================================================================
