------------------------------ MODULE InitList ------------------------------
(***************************************************************************)
(* init() of scanhost/scanhost/init.cpp: splits the list of active hosts,  *)
(* puts the local address in front and goes over the list once to erase    *)
(* the local address from the rest of it.                                  *)
(***************************************************************************)
EXTENDS Split

CONSTANT Locals   \* what getMyIP() may return

ASSUME InitAssumption == Locals \subseteq Seq(Char)

VARIABLES
  ipc,    \* "split", "dedupe", "done"; "overrun": an index past the end of v
          \* was used; "crashed": getMyIP() used a null pointer
  local,  \* what getMyIP() returns
  v, k    \* the vector and the loop variable i, counted from 0

vars == <<splitVars, ipc, local, v, k>>

Init ==
  /\ SplitInit
  /\ ipc = "split"
  /\ local \in Locals
  /\ v = << >> /\ k = 0

SplitStep ==
  /\ ipc = "split" /\ SplitNext
  /\ UNCHANGED <<ipc, local, v, k>>

Hosts == [n \in 1..Len(pieces) |-> Piece(pieces[n])]

(* v.insert(v.begin(), getMyIP()); gethostbyname may find nothing.         *)
InsertLocal ==
  /\ ipc = "split" /\ pc = "done"
  /\ \/ ipc' = "dedupe" /\ v' = <<local>> \o Hosts /\ k' = 1
     \/ ipc' = "crashed" /\ UNCHANGED <<v, k>>
  /\ UNCHANGED <<splitVars, local>>

Without(n) == SubSeq(v, 1, n) \o SubSeq(v, n + 2, Len(v))

(* The index is never advanced; the entry before the local one is erased.  *)
CompareStuck ==
  /\ ipc = "dedupe" /\ k < Len(v)
  /\ IF v[k + 1] = v[1] THEN v' = Without(k) ELSE UNCHANGED v
  /\ UNCHANGED <<splitVars, ipc, local, k>>
CompareErasesBefore ==
  /\ ipc = "dedupe" /\ k < Len(v)
  /\ v' = IF v[k + 1] = v[1] THEN Without(k - 1) ELSE v
  /\ k' = k + 1
  /\ UNCHANGED <<splitVars, ipc, local>>

(* One iteration: the index advances also when the entry is erased.        *)
Compare ==
  /\ ipc = "dedupe" /\ k < Len(v)
  /\ v' = IF v[k + 1] = v[1] THEN Without(k) ELSE v
  /\ k' = k + 1
  /\ UNCHANGED <<splitVars, ipc, local>>

(* The loop condition i != v.size() is still true past the end.            *)
Overrun ==
  /\ ipc = "dedupe" /\ k > Len(v)
  /\ ipc' = "overrun"
  /\ UNCHANGED <<splitVars, local, v, k>>

(* The loop condition i < v.size() - 1.                                    *)
LeaveEarly ==
  /\ ipc = "dedupe" /\ k >= Len(v) - 1
  /\ ipc' = "done"
  /\ UNCHANGED <<splitVars, local, v, k>>

(* The loop is left; init() prints v and an identity matrix of its size.   *)
Leave ==
  /\ ipc = "dedupe" /\ k = Len(v)
  /\ ipc' = "done"
  /\ UNCHANGED <<splitVars, local, v, k>>

Next == SplitStep \/ InsertLocal \/ Compare \/ Overrun \/ Leave

Spec == Init /\ [][Next]_vars /\ WF_vars(Next)
-----------------------------------------------------------------------------
(* from names for each entry of v after the first the host that it was:    *)
(* none but local ones are missing, and none has changed places.           *)
Keeps(from) ==
  /\ \A n \in 2..Len(v) : v[n] = Hosts[from[n]]
  /\ \A m, n \in 2..Len(v) : m < n => from[m] < from[n]
  /\ \A h \in 1..Len(Hosts) : Hosts[h] # local => \E n \in 2..Len(v) : from[n] = h

(* Whatever the list holds, no host but the local one is lost, added or    *)
(* moved, also when the loop runs past the end.                            *)
OthersKept ==
  ipc \in {"dedupe", "done", "overrun"} =>
    /\ v # << >> /\ v[1] = local
    /\ \E from \in [2..Len(v) -> 1..Len(Hosts)] : Keeps(from)

(* The local address is erased from a list in which it does not follow     *)
(* itself, and the loop stays within a list that does not end with it.     *)
ErasedUnlessRepeated ==
  /\ ipc = "done" /\ (\A n \in 1..Len(Hosts) - 1 :
                        Hosts[n] = local => Hosts[n + 1] # local)
       => \A n \in 2..Len(v) : v[n] # local
  /\ ipc = "overrun" => Hosts # << >> /\ Hosts[Len(Hosts)] = local

(* init() gets to the end of its loop, or past the end of the list.        *)
InitEnds == <>(ipc \in {"done", "overrun", "crashed"})

(* init.cpp:9: the local addresses other than the first are deleted from   *)
(* the active hosts.                                                       *)
OtherLocalsDeleted ==
  ipc \in {"done", "overrun"} =>
    ipc = "done" /\ \A n \in 2..Len(v) : v[n] # local
=============================================================================
