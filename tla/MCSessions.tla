----------------------------- MODULE MCSessions -----------------------------
(* Small instances of Sessions: calls are alike and sids are drawn at       *)
(* random, so both are interchangeable.                                     *)
EXTENDS Sessions, TLC

CONSTANTS d1, d2, r1, r2

Alike == Permutations(Calls) \cup Permutations(Sid)
=============================================================================
