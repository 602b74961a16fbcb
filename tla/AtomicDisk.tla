----------------------------- MODULE AtomicDisk -----------------------------
(***************************************************************************)
(* What kernel/log.c promises to the file system: the blocks that survive  *)
(* a crash change only as a whole, from one state in which no system call  *)
(* was in progress to a later such state.                                  *)
(***************************************************************************)
EXTENDS Naturals

CONSTANTS Block, Value

VARIABLES
    durable,   \* what a crash would leave, once recovered
    view,      \* what system calls read and write
    active     \* number of system calls between begin_op and end_op

vars == <<durable, view, active>>

Init ==
    /\ durable \in [Block -> Value]
    /\ view = durable
    /\ active = 0

Begin ==
    /\ active' = active + 1
    /\ UNCHANGED <<durable, view>>

Write(b, v) ==
    /\ active > 0
    /\ view' = [view EXCEPT ![b] = v]
    /\ UNCHANGED <<durable, active>>

End ==
    /\ active > 0
    /\ active' = active - 1
    /\ UNCHANGED <<durable, view>>

Commit ==
    /\ active = 0
    /\ durable' = view
    /\ UNCHANGED <<view, active>>

Crash ==
    /\ view' = durable
    /\ active' = 0
    /\ UNCHANGED durable

Next ==
    \/ Begin
    \/ \E b \in Block, v \in Value : Write(b, v)
    \/ End
    \/ Commit
    \/ Crash

Spec == Init /\ [][Next]_vars
=============================================================================
