----------------------------- MODULE MCVpnSharing -----------------------------
EXTENDS VpnSharing, TLC

CONSTANTS mount1, mirror1

=============================================================================
