-------------------------- MODULE MCConnectionEditor --------------------------
EXTENDS ConnectionEditor, TLC

CONSTANTS r1, r2, a, b
=============================================================================
