--------------------------- MODULE MCProcessShutdown ---------------------------
(* Each of the three processes, up to three requests to its metrics server *)
(* at a time.                                                              *)
EXTENDS ProcessShutdown
=============================================================================
