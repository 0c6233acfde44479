----------------------------- MODULE MCThrottle -----------------------------
EXTENDS Throttle

\* The requests are named in the configuration; liveness is checked, so that
\* they are not declared interchangeable.
=============================================================================
