---------------------------- MODULE MCMainProgram ----------------------------
(* main() on the network of MCTraceRoute; addresses are words of one or    *)
(* two letters.                                                            *)
EXTENDS MainProgram

CONSTANTS gw, r1, r2, d1, d2, dot

MCDistance == [d \in Targets |-> IF d = d1 THEN 3 ELSE 2]

MCRouters ==
  [d \in Targets |-> [n \in TTLs |-> IF n = 1 THEN {gw} ELSE {r1, r2}]]

MCText == [h \in Hosts |-> IF h \in {gw, d1} THEN <<h, dot>> ELSE <<h>>]
=============================================================================
