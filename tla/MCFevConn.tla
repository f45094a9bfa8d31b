----------------------------- MODULE MCFevConn -----------------------------
EXTENDS FevConn
=============================================================================
