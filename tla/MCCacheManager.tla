---------------------------- MODULE MCCacheManager ---------------------------
(* CacheManager with two or three calls of remember(). *)
EXTENDS CacheManager, TLC

CONSTANTS h1, h2, h3

CacheSymmetry == Permutations(Req)
==============================================================================
