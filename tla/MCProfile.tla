----------------------------- MODULE MCProfile ------------------------------
EXTENDS ProfileSystem
=============================================================================
