---------------------------- MODULE MCAskRequest ----------------------------
(* Two bundled releases and one published later, two embedding models. *)
EXTENDS AskRequest, TLC

CONSTANTS july, september, later, m1, m2
MCReleases == {july, september, later}
MCBundled == {july, september}
MCModels == {m1, m2}
MCSymmetry == Permutations(MCModels)
=============================================================================
