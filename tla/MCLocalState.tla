----------------------------- MODULE MCLocalState -----------------------------
EXTENDS LocalState
===============================================================================
