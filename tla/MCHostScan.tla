----------------------------- MODULE MCHostScan -----------------------------
(* Small instances of HostScan for TLC.                                    *)
EXTENDS HostScan

CONSTANTS Silent,     \* addresses that never answer
          Broadcast   \* addresses for which every other host answers

(* Every host answers for itself, a broadcast address is answered by all   *)
(* hosts, a silent address by nobody.                                      *)
MCAnswerers ==
  [a \in Addr |->
     IF a \in Silent THEN {}
     ELSE IF a \in Broadcast THEN Addr \ (Silent \cup Broadcast) ELSE {a}]

(* Windows thread identifiers are multiples of 4.                          *)
MCIcmpId == [t \in Threads |-> 4 * t]
=============================================================================
