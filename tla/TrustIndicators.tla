---------------------------- MODULE TrustIndicators ----------------------------
(***************************************************************************)
(* How fresh a material source is at a time, and how far an answer may be  *)
(* trusted (trust_indicators.py).  Pure: the entry points own the clock.   *)
(*                                                                         *)
(* The evidence of a source is                                             *)
(*   [review, health, approved, inputs |-> [due, block, health]]           *)
(* with dates in Nat, Absent, or Unreadable (not a time with an offset).   *)
(* A source without inputs is NoInputs: the code's own branch for it       *)
(* (lines 72-87) gives what the dates and the health it defaults to give.  *)
(***************************************************************************)
EXTENDS Integers

Absent == -1
Unreadable == -2

NoInputs == [due |-> Absent, block |-> Absent, health |-> "current"]

EligibleStates == {"approved-current", "overdue-policy-usable"}
EligibleHealth == {"healthy", "overdue-policy-usable"}

Level(l, usable) == [level |-> l, usable |-> usable]
Blocked == Level("Low", FALSE)
Usable == Level("Medium", TRUE)
Current == Level("High", TRUE)

BaseEligible(e) ==
    e.review \in EligibleStates /\ e.health \in EligibleHealth /\ e.approved

Passed(now, date) == date >= 0 /\ now > date
MarkedOverdue(e) == e.health = "overdue-policy-usable"
OverdueAllowed(e) == e.review = "overdue-policy-usable" \/ e.inputs.block # Absent

\* Mutant: the review due is looked at first.
DatedDueFirst(e, now) ==
    IF Passed(now, e.inputs.due)
    THEN IF OverdueAllowed(e) THEN Usable ELSE Blocked
    ELSE IF Passed(now, e.inputs.block) THEN Blocked
    ELSE IF MarkedOverdue(e) THEN Usable
    ELSE IF e.inputs.health \in {"current", "healthy"} THEN Current ELSE Blocked

(* The dates are looked at in this order: block-after, then the mark on    *)
(* the source, then the review due, then the declared health.              *)
Dated(e, now) ==
    IF e.inputs.block = Unreadable \/ Passed(now, e.inputs.block) THEN Blocked
    ELSE IF MarkedOverdue(e) THEN Usable
    ELSE IF e.inputs.due = Unreadable THEN Blocked
    ELSE IF Passed(now, e.inputs.due)
         THEN IF OverdueAllowed(e) THEN Usable ELSE Blocked
    ELSE IF e.inputs.health \in {"current", "healthy"} THEN Current ELSE Blocked

Freshness(e, now) == IF BaseEligible(e) THEN Dated(e, now) ELSE Blocked

AnswerEligible(e, now) == Freshness(e, now).usable
================================================================================
