-------------------------- MODULE MCScoreCacheLRU --------------------------
EXTENDS ScoreCacheLRU
CONSTANTS k1, k2, k3
MCKeys == {k1, k2, k3}
=============================================================================
