----------------------------- MODULE MCPrepIroha -----------------------------
EXTENDS PrepIroha
=============================================================================
