--------------------------- MODULE MCOpencodeReplay ---------------------------
(* OpencodeReplay on tables of a few rows.                                 *)
EXTENDS OpencodeReplay
=============================================================================
