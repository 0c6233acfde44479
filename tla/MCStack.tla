------------------------------ MODULE MCStack -------------------------------
EXTENDS Stack
=============================================================================
