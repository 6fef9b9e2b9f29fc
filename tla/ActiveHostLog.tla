--------------------------- MODULE ActiveHostLog ---------------------------
(***************************************************************************)
(* What Scanhost promises about its list of active hosts: threads take     *)
(* turns, and each may add one address, of the range of addresses, while   *)
(* it is its turn.  The list may be lost as a whole, never in part.        *)
(***************************************************************************)
EXTENDS Integers, Sequences

CONSTANT Addr

VARIABLES log,   \* the entries, each with the number of the turn it is from
          turn   \* the number of the current turn, 0 before the first

vars == <<log, turn>>

Init == log = << >> /\ turn = 0

NextTurn ==
  /\ turn' = turn + 1
  /\ UNCHANGED log

List(a) ==
  /\ turn > 0
  /\ \A i \in 1..Len(log) : log[i].by < turn
  /\ log' = Append(log, [addr |-> a, by |-> turn])
  /\ UNCHANGED turn

Lose ==
  /\ log' = << >>
  /\ UNCHANGED turn

Next == NextTurn \/ Lose \/ \E a \in Addr : List(a)

Spec == Init /\ [][Next]_vars
=============================================================================
