----------------------------- MODULE MCHostPort -----------------------------
EXTENDS HostPort
=============================================================================
