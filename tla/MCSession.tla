------------------------------ MODULE MCSession ------------------------------
\* Instances of Session: four ticks of timeout, a backoff that doubles twice.
EXTENDS Session
=============================================================================
