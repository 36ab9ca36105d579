----------------------------- MODULE MCCacheLoad -----------------------------
\* Model-checks CacheLoad; the instance is in the cfg files.
EXTENDS CacheLoad
=============================================================================
