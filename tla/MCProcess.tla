------------------------------ MODULE MCProcess -----------------------------
EXTENDS Process
=============================================================================
