--------------------------- MODULE ActiveRelease ---------------------------
(***************************************************************************)
(* What knowledge_release.py promises about the one fact every question    *)
(* depends on: which knowledge release is active.  A build is one complete *)
(* result of staging a release (corpus, index and active record).  Builds  *)
(* are offered by installers; the active build changes in one step, only   *)
(* to a build on offer, and is never lost.  Each build is offered once.    *)
(***************************************************************************)
CONSTANTS
    Builds,   \* complete staged installations
    None      \* no release is active

VARIABLES
    current,  \* the build a locked load of the active release returns
    offered,  \* builds whose installation may still take effect
    seen      \* builds ever offered

vars == <<current, offered, seen>>

Init ==
    /\ current = None
    /\ offered = {}
    /\ seen = {}

\* An installer starts with a build nobody staged before.
Offer(b) ==
    /\ b \notin seen
    /\ seen' = seen \cup {b}
    /\ offered' = offered \cup {b}
    /\ UNCHANGED current

\* The whole activation, as one step.
Activate(b) ==
    /\ b \in offered
    /\ current' = b
    /\ offered' = offered \ {b}
    /\ UNCHANGED seen

\* An installation fails, or the process ends and takes its installers along.
Withdraw(S) ==
    /\ S # {}
    /\ offered' = offered \ S
    /\ UNCHANGED <<current, seen>>

Next ==
    \/ \E b \in Builds : Offer(b) \/ Activate(b)
    \/ \E S \in SUBSET offered : Withdraw(S)

Spec == Init /\ [][Next]_vars
=============================================================================
