----------------------------- MODULE MCAuthPrompts -----------------------------
(***************************************************************************)
(* AuthPrompts for TLC: one account that a messenger created, with one     *)
(* address, beside one that Google created.                                *)
(***************************************************************************)
EXTENDS AuthPrompts, TLC

CONSTANTS s1, f1

OneAddress == f1 :> s1
================================================================================
