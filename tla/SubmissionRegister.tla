------------------------- MODULE SubmissionRegister -------------------------
(***************************************************************************)
(* What the submission endpoint promises its clients, seen from outside: a *)
(* submission slot (a route and the client's key on that route) is given a *)
(* verdict at most once, and the verdict of a slot never changes, however  *)
(* often a client retries and however many requests run side by side.      *)
(***************************************************************************)
CONSTANTS Slots, Verdicts

VARIABLE decided   \* the decisions given: pairs of a slot and its verdict

RegisterInit == decided = {}

Undecided(s) == \A d \in decided : d[1] # s

Decide(s) == /\ Undecided(s)
             /\ \E v \in Verdicts : decided' = decided \cup {<<s, v>>}

\* A request that decides nothing is no step of the register.
RegisterNext == decided' # decided /\ \E s \in Slots : Decide(s)

RegisterSpec == RegisterInit /\ [][RegisterNext]_decided
=============================================================================
