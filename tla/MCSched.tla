------------------------------ MODULE MCSched -------------------------------
EXTENDS Sched

\* Process 1 has two threads, process 2 one thread and an unused slot.
ThreeThreads == {<<1, 1>>, <<1, 2>>, <<2, 1>>}
=============================================================================
