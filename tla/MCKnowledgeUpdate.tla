-------------------------- MODULE MCKnowledgeUpdate --------------------------
(* Three releases: the bundled one and two that may be offered.              *)
EXTENDS KnowledgeUpdate

MCReleases == 1 .. 3
MCBundled == 1
=============================================================================
