---------------------------- MODULE MCEntryOrder ----------------------------
\* Instances of EntryOrder for TLC; the values are in the MCEntryOrder_*.cfg.
EXTENDS EntryOrder
=============================================================================
