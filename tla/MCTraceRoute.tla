---------------------------- MODULE MCTraceRoute ----------------------------
(* A small network for TLC: two destinations behind a common first router. *)
EXTENDS TraceRoute

CONSTANTS gw, r1, r2, d1, d2

(* d1 is three hops away, over gw and then r1 or r2; d2 is two hops away,  *)
(* over gw.                                                                *)
MCDistance == [d \in Targets |-> IF d = d1 THEN 3 ELSE 2]

MCRouters ==
  [d \in Targets |-> [n \in TTLs |-> IF n = 1 THEN {gw} ELSE {r1, r2}]]
=============================================================================
