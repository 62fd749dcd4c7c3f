---------------------------- MODULE MCStoreLocks ----------------------------
(* StoreLocks for TLC: two flushers, two writers and one reader.                           *)
EXTENDS StoreLocks
=============================================================================
