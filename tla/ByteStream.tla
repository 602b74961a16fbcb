----------------------------- MODULE ByteStream -----------------------------
(***************************************************************************)
(* What a pipe promises: a bounded queue of bytes with two ends.  Bytes    *)
(* leave in the order in which they came, and nothing is put once the read *)
(* end is closed.  A call under way when its own end is closed goes on, so *)
(* Put does not need the write end nor Get the read end.                   *)
(***************************************************************************)
EXTENDS Naturals, Sequences

CONSTANTS Byte, Capacity

VARIABLES queue, readEnd, writeEnd

vars == <<queue, readEnd, writeEnd>>

Init ==
    /\ queue = << >>
    /\ readEnd = TRUE
    /\ writeEnd = TRUE

Put(b) ==
    /\ readEnd
    /\ Len(queue) < Capacity
    /\ queue' = Append(queue, b)
    /\ UNCHANGED <<readEnd, writeEnd>>

Get ==
    /\ queue # << >>
    /\ queue' = Tail(queue)
    /\ UNCHANGED <<readEnd, writeEnd>>

CloseRead ==
    /\ readEnd
    /\ readEnd' = FALSE
    /\ UNCHANGED <<queue, writeEnd>>

CloseWrite ==
    /\ writeEnd
    /\ writeEnd' = FALSE
    /\ UNCHANGED <<queue, readEnd>>

Next == (\E b \in Byte : Put(b)) \/ Get \/ CloseRead \/ CloseWrite

Spec == Init /\ [][Next]_vars
=============================================================================
