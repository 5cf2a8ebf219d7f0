--------------------------- MODULE MCReleaseNetwork ---------------------------
(* Two units of time, three bytes in reads of two, one redirect. *)
EXTENDS ReleaseNetwork
=============================================================================
