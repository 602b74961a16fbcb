----------------------------- MODULE MCSpinlock -----------------------------
(* Two harts and two nested locks; a handler can run on either hart.       *)
EXTENDS Spinlock

CONSTANTS c1, c2

MCCpu == {c1, c2}
MCLock == {1, 2}
=============================================================================
