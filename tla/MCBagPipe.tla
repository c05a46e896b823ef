----------------------------- MODULE MCBagPipe -----------------------------
EXTENDS BagPipe, TLC
=============================================================================
