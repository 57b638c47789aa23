-------------------------- MODULE MCClientSession --------------------------
\* Small instances of ClientSession.
EXTENDS ClientSession
=============================================================================
