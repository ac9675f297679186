----------------------------- MODULE MCControl -----------------------------
EXTENDS ControlProtocol
=============================================================================
