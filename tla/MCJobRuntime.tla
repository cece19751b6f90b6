----------------------------- MODULE MCJobRuntime -----------------------------
(* JobRuntime for TLC: two jobs under one key or under none, two calls of      *)
(* producers, operators or the account deletion, one fault.                    *)
EXTENDS JobRuntime, FiniteSets, TLC

=============================================================================
