--------------------------- MODULE MCEscalationSweep ---------------------------
(* Instances of EscalationSweep for TLC. *)
EXTENDS EscalationSweep

Unassigned == [field |-> "assigned", value |-> FALSE]
OpenOnes   == [field |-> "status", value |-> "open"]
LowOnes    == [field |-> "priority", value |-> "low"]

Rule(conds, acts, legacy, period) ==
  [active |-> TRUE, conditions |-> conds, actions |-> acts, legacy |-> legacy,
   repeatAfter |-> period]

\* Escalates what is open: acting stops the match, an agent can restore it.
Once == Rule({OpenOnes}, <<[type |-> "escalate"]>>, FALSE, 0)
\* Escalates and raises the priority, again after one unit of time.
Period == Rule({Unassigned}, <<[type |-> "escalate"],
                [type |-> "change_priority", value |-> "high"]>>, FALSE, 1)
\* Saved before the contract: announces, and assigns.
Old == Rule({LowOnes}, <<[type |-> "assign_to"]>>, TRUE, 0)
OneOfEach == {Once, Period, Old}
================================================================================
