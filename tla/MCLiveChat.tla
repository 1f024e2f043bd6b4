------------------------------- MODULE MCLiveChat -------------------------------
(* Instances of LiveChat for TLC. *)
EXTENDS LiveChat

CONSTANTS a1, sales

\* Sales chats go to an agent; a rule without a department catches the rest.
MCRules == <<[department |-> sales, agent |-> a1], [department |-> None, agent |-> None]>>
================================================================================
