------------------------------ MODULE MCClkDiv ------------------------------
EXTENDS ClkDiv
=============================================================================
