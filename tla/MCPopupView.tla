----------------------------- MODULE MCPopupView -----------------------------
EXTENDS PopupView, TLC

CONSTANTS c1

=============================================================================
