--------------------------- MODULE MCCacheRefresh ---------------------------
(* Small instances of CacheRefresh for TLC.  What is in Ns, CacheIds and    *)
(* Requests are model values.                                              *)
EXTENDS CacheRefresh
=============================================================================
