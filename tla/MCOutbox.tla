------------------------------- MODULE MCOutbox -------------------------------
(***************************************************************************)
(* Outbox for model checking: concurrent drains run the same code and are  *)
(* only told apart by what they hold, so the safety runs may permute them. *)
(* A behaviour has a rate limit or an operator's retry, but not both.      *)
(***************************************************************************)
EXTENDS Outbox, TLC

Symmetry == Permutations(Drainer)

OneDetour == limits = 0 \/ \A m \in Message : retries[m] = 0
=============================================================================
