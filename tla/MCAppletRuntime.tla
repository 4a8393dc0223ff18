---------------------------- MODULE MCAppletRuntime ----------------------------
EXTENDS AppletRuntime, TLC

CONSTANTS c1, c2

=============================================================================
