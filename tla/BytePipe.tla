------------------------------ MODULE BytePipe ------------------------------
(***************************************************************************)
(* What one direction of a CONNECT promises, "After connect_ok, the channel*)
(* carries raw encrypted byte chunks": an ordered pipe, without channels,  *)
(* messages, queues or tasks.  Chunks are known by their numbers.  A pipe  *)
(* that is not whole may lose its first chunks, before any comes out.      *)
(***************************************************************************)
EXTENDS Integers, Sequences

CONSTANT Whole   \* nothing is lost at the front

VARIABLES in,    \* how many chunks have gone in
          out    \* those that have come out

pipeVars == <<in, out>>

PipeInit == in = 0 /\ out = <<>>

GoesIn == in' = in + 1 /\ UNCHANGED out

(* What may come out after what has.                                       *)
Follows(k) ==
    IF out = <<>> THEN Whole => k = 1 ELSE k = out[Len(out)] + 1

ComesOut ==
    /\ \E k \in 1 .. in : Follows(k) /\ out' = Append(out, k)
    /\ UNCHANGED in

PipeSpec == PipeInit /\ [][GoesIn \/ ComesOut]_pipeVars
=============================================================================
