----------------------------- MODULE MCDispatch -----------------------------
(***************************************************************************)
(* Small instances of Dispatch for TLC.                                    *)
(***************************************************************************)
EXTENDS Dispatch

CONSTANTS w1, w2, t1, a, b, c

\* A worker that takes one message per batch, and one that takes them all.
MCWeight == [w \in Worker |-> IF w = w1 THEN -1 ELSE 0]

MCBoot1 == <<a>>
=============================================================================
