------------------------------ MODULE OneTimeCode ------------------------------
(***************************************************************************)
(* What a guest is promised of an emailed code (docs/guest-access.md): it  *)
(* is spent once.  An operation holds a code while it runs; if it fails    *)
(* the code is free again, if it succeeds the code is spent for good.  A   *)
(* code may also become void: expired, out of guesses, removed, or lost    *)
(* with the process whose operation held it.                               *)
(***************************************************************************)
CONSTANT Codes

VARIABLE phase

Init == phase = [c \in Codes |-> "free"]

Take(c)     == phase[c] = "free" /\ phase' = [phase EXCEPT ![c] = "held"]
Spend(c)    == phase[c] = "held" /\ phase' = [phase EXCEPT ![c] = "spent"]
GiveBack(c) == phase[c] = "held" /\ phase' = [phase EXCEPT ![c] = "free"]
Void(S)     == /\ \A c \in S : phase[c] \in {"free", "held"}
               /\ phase' = [c \in Codes |-> IF c \in S THEN "void" ELSE phase[c]]

Next == \/ \E c \in Codes : Take(c) \/ Spend(c) \/ GiveBack(c)
        \/ \E S \in SUBSET Codes : Void(S)

Spec == Init /\ [][Next]_phase
================================================================================
