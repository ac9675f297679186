----------------------------- MODULE MCReceive -----------------------------
EXTENDS ReceiveInterface
=============================================================================
