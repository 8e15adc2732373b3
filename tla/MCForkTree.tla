----------------------------- MODULE MCForkTree -----------------------------
EXTENDS ForkTree
=============================================================================
