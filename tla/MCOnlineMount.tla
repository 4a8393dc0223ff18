---------------------------- MODULE MCOnlineMount ----------------------------
EXTENDS OnlineMount, TLC

CONSTANT t1

=============================================================================
