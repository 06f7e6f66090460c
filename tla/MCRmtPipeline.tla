----------------------------- MODULE MCRmtPipeline -----------------------------
(* TLC instances of RmtPipeline: data packets of two or three beats, sent    *)
(* without pauses.                                                          *)
EXTENDS RmtPipeline
=============================================================================
