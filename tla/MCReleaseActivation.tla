------------------------ MODULE MCReleaseActivation ------------------------
(* Small instances of three builds.                                        *)
EXTENDS ReleaseActivation, TLC

CONSTANTS b1, b2, b3, r1, r2

\* Two builds of one release, which share their final directories, and one
\* of another.
MCReleaseOf == b1 :> r1 @@ b2 :> r1 @@ b3 :> r2

\* One release, installed three times: the third build meets what the second
\* left behind while it replaced the first.
MCSameRelease == [b \in {b1, b2, b3} |-> r1]
=============================================================================
