----------------------------- MODULE MCDevWorker -----------------------------
(* DevWorker with a few tasks.                                              *)
EXTENDS DevWorker
CONSTANTS t1, t2, t3
==============================================================================
