---------------------------- MODULE MCCacheWrite ----------------------------
EXTENDS CacheWrite
CONSTANTS w1, w2, r1, r2
=============================================================================
