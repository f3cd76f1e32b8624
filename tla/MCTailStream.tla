---------------------------- MODULE MCTailStream ----------------------------
EXTENDS TailStream

MCHelperId == {"h1", "h2"}
MCStream == {"s1"}
=============================================================================
