---------------------------- MODULE MCHostDriver ----------------------------
EXTENDS HostDriver
=============================================================================
