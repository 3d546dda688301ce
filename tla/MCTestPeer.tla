----------------------------- MODULE MCTestPeer -----------------------------
EXTENDS TestPeer
=============================================================================
