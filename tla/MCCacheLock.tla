----------------------------- MODULE MCCacheLock ----------------------------
EXTENDS CacheLock
CONSTANTS a, b, c, m
=============================================================================
