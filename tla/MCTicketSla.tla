------------------------------ MODULE MCTicketSla ------------------------------
(* Instances of TicketSla for TLC. *)
EXTENDS TicketSla, TLC

\* A reply is due one minute after creation, a resolution three.
MCMinutes == [first_response |-> 1, resolution |-> 3]

Body(status, tags, snooze) == [status |-> status, tags |-> tags, snooze |-> snooze]

\* Bodies of updates: retag, and solve.
SlaUpdates == {Body(Keep, TRUE, FALSE), Body(Solved, FALSE, FALSE)}

Symmetry == Permutations(Sweepers) \cup Permutations(Requests)
================================================================================
