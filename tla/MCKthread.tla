------------------------------ MODULE MCKthread -----------------------------
EXTENDS Kthread
=============================================================================
