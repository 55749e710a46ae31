---------------------------- MODULE MCPageTable ----------------------------
EXTENDS PageTable

Upper64 == <<101, 102>>
Upper32 == <<>>
=============================================================================
