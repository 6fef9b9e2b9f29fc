--------------------------- MODULE InitListProofs ---------------------------
(* Theorems about split(), for every string and every set of separators,   *)
(* and about init(), for every list and every local address.               *)
EXTENDS InitList, TLAPS

(* Up to index i the string is cut exactly; between i and j there is text. *)
SplitInv ==
  /\ SplitTypeOK
  /\ pc = "scan" => /\ i <= j /\ TextAt(i)
                    /\ \A n \in i..j - 1 : TextAt(n)
                    /\ i = 0 \/ SeparatorAt(i - 1)
  /\ pc = "skip" => i = 0 \/ SeparatorAt(i - 1) \/ ~TextAt(i)
  /\ pc = "done" => i = size
  /\ \A m \in 1..Len(pieces) : Run(pieces[m]) /\ pieces[m].to <= i
  /\ pc = "scan" => \A m \in 1..Len(pieces) : pieces[m].to < i
  /\ \A m, l \in 1..Len(pieces) : m < l => pieces[m].to < pieces[l].from
  /\ \A n \in 0..i - 1 :
       TextAt(n) => \E m \in 1..Len(pieces) : n \in pieces[m].from..pieces[m].to - 1

(* The loop invariant of split().                                          *)
LEMMA SplitInvariant == SplitSpec => []SplitInv
<1>0. ASSUME SplitTypeOK
      PROVE  /\ size \in Nat /\ i \in Nat /\ j \in Nat
             /\ pieces \in Seq(Cuts)
             /\ \A m \in 1..Len(pieces) : pieces[m].from \in Nat /\ pieces[m].to \in Nat
  <2>1. s \in Seq(Char)
    BY <1>0, SplitAssumption DEF SplitTypeOK
  <2>2. size \in Nat
    BY <2>1 DEF size
  <2>3. pieces \in Seq(Cuts)
    BY <1>0 DEF SplitTypeOK
  <2>4. \A m \in 1..Len(pieces) : pieces[m] \in Cuts
    BY <2>3
  <2>5. QED
    BY <1>0, <2>2, <2>3, <2>4 DEF SplitTypeOK, Cuts
<1>1. SplitInit => SplitInv
  <2> SUFFICES ASSUME SplitInit PROVE SplitInv
    OBVIOUS
  <2>1. size \in Nat
    BY SplitAssumption DEF SplitInit, size
  <2>2. << >> \in Seq(Cuts)
    OBVIOUS
  <2>3. SplitTypeOK
    BY <2>1, <2>2 DEF SplitInit, SplitTypeOK
  <2>4. QED
    BY <2>3 DEF SplitInit, SplitInv
<1>2. SplitInv /\ [SplitNext]_splitVars => SplitInv'
  <2> SUFFICES ASSUME SplitInv, [SplitNext]_splitVars PROVE SplitInv'
    OBVIOUS
  <2>0. /\ size \in Nat /\ i \in Nat /\ j \in Nat
        /\ pieces \in Seq(Cuts)
        /\ \A m \in 1..Len(pieces) : pieces[m].from \in Nat /\ pieces[m].to \in Nat
    BY <1>0 DEF SplitInv
  <2>00. s' = s
    BY DEF SplitNext, Skip, Start, Scan, Cut, Finish, splitVars
  <2>000. /\ size' = size
          /\ Cuts' = Cuts
          /\ \A n : TextAt(n)' = TextAt(n) /\ SeparatorAt(n)' = SeparatorAt(n)
          /\ \A n : ~(TextAt(n) /\ SeparatorAt(n))
          /\ \A n : TextAt(n) \/ SeparatorAt(n) => n < size
          /\ \A n : n < size => TextAt(n) \/ SeparatorAt(n)
    BY <2>00 DEF size, TextAt, SeparatorAt, Cuts
  <2>0000. \A c : Run(c)' <=> Run(c)
    BY <2>000 DEF Run
  <2>1. CASE Skip
    <3>1. /\ pc = "skip" /\ SeparatorAt(i) /\ i' = i + 1 /\ UNCHANGED <<pc, j, pieces>>
      BY <2>1 DEF Skip
    <3>2. SplitTypeOK'
      BY <2>0, <2>00, <2>000, <3>1 DEF SplitInv, SplitTypeOK
    <3>3. \A n \in 0..i' - 1 : n \in 0..i - 1 \/ n = i
      BY <2>0, <3>1
    <3>4. \A n \in 0..i' - 1 :
            TextAt(n) => \E m \in 1..Len(pieces) : n \in pieces[m].from..pieces[m].to - 1
      BY <2>000, <3>1, <3>3 DEF SplitInv
    <3>5. \A m \in 1..Len(pieces) : Run(pieces[m]) /\ pieces[m].to <= i + 1
      BY <2>0 DEF SplitInv
    <3>6. SeparatorAt(i - 1)'
      <4>1. i' - 1 = i
        BY <2>0, <3>1
      <4>2. QED
        BY <2>00, <2>000, <3>1, <4>1 DEF SeparatorAt
    <3>7. QED
      BY <2>000, <2>0000, <3>1, <3>2, <3>4, <3>5, <3>6 DEF SplitInv
  <2>2. CASE Start
    <3>1. /\ pc = "skip" /\ TextAt(i) /\ j' = i /\ pc' = "scan" /\ UNCHANGED <<i, pieces>>
      BY <2>2 DEF Start
    <3>2. SplitTypeOK'
      BY <2>0, <2>00, <2>000, <3>1 DEF SplitInv, SplitTypeOK
    <3>3. i = 0 \/ SeparatorAt(i - 1)
      BY <3>1 DEF SplitInv
    <3>4. \A m \in 1..Len(pieces) : pieces[m].to # i
      <4> SUFFICES ASSUME NEW m \in 1..Len(pieces), pieces[m].to = i PROVE FALSE
        OBVIOUS
      <4>1. Run(pieces[m])
        BY DEF SplitInv
      <4>2. i = size \/ SeparatorAt(i)
        BY <4>1 DEF Run
      <4>3. QED
        BY <2>0, <2>000, <3>1, <4>2
    <3>5. \A m \in 1..Len(pieces) : pieces[m].to < i
      BY <2>0, <3>4 DEF SplitInv
    <3>6. i <= j' /\ \A n \in i..j' - 1 : FALSE
      BY <2>0, <3>1
    <3>7. QED
      BY <2>000, <2>0000, <3>1, <3>2, <3>3, <3>5, <3>6 DEF SplitInv
  <2>3. CASE Scan
    <3>1. /\ pc = "scan" /\ TextAt(j) /\ j' = j + 1 /\ UNCHANGED <<pc, i, pieces>>
      BY <2>3 DEF Scan
    <3>2. SplitTypeOK'
      BY <2>0, <2>00, <2>000, <3>1 DEF SplitInv, SplitTypeOK
    <3>3. \A n \in i..j' - 1 : n \in i..j - 1 \/ n = j
      BY <2>0, <3>1
    <3>4. /\ i <= j /\ TextAt(i) /\ (i = 0 \/ SeparatorAt(i - 1))
          /\ \A n \in i..j - 1 : TextAt(n)
      BY <3>1 DEF SplitInv
    <3>5. i <= j' /\ \A n \in i..j' - 1 : TextAt(n)
      BY <2>0, <3>1, <3>3, <3>4
    <3>6. QED
      BY <2>000, <2>0000, <3>1, <3>2, <3>4, <3>5 DEF SplitInv
  <2>4. CASE Cut
    <3> DEFINE c == [from |-> i, to |-> j]
    <3>1. /\ pc = "scan" /\ ~TextAt(j) /\ pieces' = Append(pieces, c)
          /\ i' = j /\ pc' = "skip" /\ j' = j
      BY <2>4 DEF Cut
    <3>2. /\ i <= j /\ TextAt(i) /\ \A n \in i..j - 1 : TextAt(n)
          /\ i = 0 \/ SeparatorAt(i - 1)
          /\ i \in 0..size /\ j \in 0..size
      BY <3>1 DEF SplitInv, SplitTypeOK
    <3>3. i < j
      BY <2>0, <3>1, <3>2
    <3>4. c.from = i /\ c.to = j /\ c \in Cuts
      BY <3>2 DEF Cuts
    <3>5. Run(c)
      BY <2>0, <2>000, <3>1, <3>2, <3>3, <3>4 DEF Run
    <3> HIDE DEF c
    <3>6. /\ Len(pieces') = Len(pieces) + 1 /\ pieces'[Len(pieces) + 1] = c
          /\ \A m \in 1..Len(pieces) : pieces'[m] = pieces[m]
          /\ \A m \in 1..Len(pieces') : m \in 1..Len(pieces) \/ m = Len(pieces) + 1
          /\ pieces' \in Seq(Cuts)
      BY <2>0, <3>1, <3>4
    <3>7. SplitTypeOK'
      BY <2>0, <2>00, <2>000, <3>1, <3>2, <3>6 DEF SplitInv, SplitTypeOK
    <3>8. ASSUME NEW m \in 1..Len(pieces')
          PROVE  Run(pieces'[m]) /\ pieces'[m].to <= j
      <4>1. CASE m \in 1..Len(pieces)
        <5>1. Run(pieces[m]) /\ pieces[m].to <= i
          BY <4>1 DEF SplitInv
        <5>2. QED
          BY <2>0, <3>2, <3>6, <4>1, <5>1
      <4>2. CASE m = Len(pieces) + 1
        BY <2>0, <3>4, <3>5, <3>6, <4>2
      <4>3. QED
        BY <3>6, <4>1, <4>2
    <3>9. ASSUME NEW m \in 1..Len(pieces'), NEW l \in 1..Len(pieces'), m < l
          PROVE  pieces'[m].to < pieces'[l].from
      <4>1. m \in 1..Len(pieces)
        BY <2>0, <3>6, <3>9
      <4>2. CASE l \in 1..Len(pieces)
        BY <3>6, <3>9, <4>1, <4>2 DEF SplitInv
      <4>3. CASE l = Len(pieces) + 1
        BY <3>1, <3>4, <3>6, <4>1, <4>3 DEF SplitInv
      <4>4. QED
        BY <3>6, <4>2, <4>3
    <3>10. ASSUME NEW n \in 0..j - 1, TextAt(n)
           PROVE  \E m \in 1..Len(pieces') : n \in pieces'[m].from..pieces'[m].to - 1
      <4>1. CASE n \in 0..i - 1
        <5>1. PICK m \in 1..Len(pieces) : n \in pieces[m].from..pieces[m].to - 1
          BY <3>10, <4>1 DEF SplitInv
        <5>2. m \in 1..Len(pieces') /\ pieces'[m] = pieces[m]
          BY <2>0, <3>6
        <5>3. QED
          BY <5>1, <5>2
      <4>2. CASE n \in i..j - 1
        <5>1. Len(pieces) + 1 \in 1..Len(pieces')
          BY <2>0, <3>6
        <5>2. QED
          BY <3>4, <3>6, <4>2, <5>1
      <4>3. QED
        BY <2>0, <4>1, <4>2
    <3>11. QED
      BY <2>0, <2>000, <2>0000, <3>1, <3>7, <3>8, <3>9, <3>10 DEF SplitInv
  <2>5. CASE Finish
    <3>1. pc' = "done" /\ i = size /\ UNCHANGED <<i, j, pieces>>
      BY <2>5 DEF Finish
    <3>2. SplitTypeOK'
      BY <2>00, <2>000, <3>1 DEF SplitInv, SplitTypeOK
    <3>3. QED
      BY <2>000, <2>0000, <3>1, <3>2 DEF SplitInv
  <2>6. CASE UNCHANGED splitVars
    <3>1. UNCHANGED <<pc, i, j, pieces>>
      BY <2>6 DEF splitVars
    <3>2. SplitTypeOK'
      BY <2>00, <2>000, <3>1 DEF SplitInv, SplitTypeOK
    <3>3. QED
      BY <2>000, <2>0000, <3>1, <3>2 DEF SplitInv
  <2>7. QED
    BY <2>1, <2>2, <2>3, <2>4, <2>5, <2>6 DEF SplitNext
<1>3. QED
  BY <1>1, <1>2, PTL DEF SplitSpec

(* The indices stay within the string.                                     *)
THEOREM SplitIsTyped == SplitSpec => []SplitTypeOK
<1>1. SplitInv => SplitTypeOK
  BY DEF SplitInv
<1> QED
  BY <1>1, SplitInvariant, PTL

(* split() returns exactly the maximal runs of text, in order, for every   *)
(* string and every set of separators.                                     *)
THEOREM SplitIsExact == SplitSpec => []SplitExact
<1>1. SplitInv => SplitExact
  BY DEF SplitInv, SplitExact
<1>2. QED
  BY <1>1, SplitInvariant, PTL
-----------------------------------------------------------------------------
(* init() runs split() and leaves its result alone.                        *)
THEOREM InitRunsSplit == Spec => SplitSpec
<1>1. Init => SplitInit
  BY DEF Init
<1>2. [Next]_vars => [SplitNext]_splitVars
  BY DEF Next, SplitStep, InsertLocal, Compare, Overrun, Leave, vars
<1> QED
  BY <1>1, <1>2, PTL DEF Spec, SplitSpec

Deduping == ipc \in {"dedupe", "done", "overrun"}

(* How many entries are gone from the list.                                *)
Gone == Len(Hosts) + 1 - Len(v)

(* from names the hosts kept so far; the entries from k on are where the   *)
(* erased ones have moved them, and a local address behind the loop stood  *)
(* next to another one.                                                    *)
LoopKeeps(from) ==
  /\ Keeps(from)
  /\ \A n \in 2..Len(v) : n > k => from[n] = n - 1 + Gone
  /\ \A n \in 2..Len(v) : n <= k /\ v[n] = local =>
       from[n] > 1 /\ Hosts[from[n] - 1] = local

(* The loop leaves the vector by at most one index, and then only if the   *)
(* last host is the local one.                                             *)
LoopInv ==
  Deduping =>
    /\ v \in Seq(Seq(Char)) /\ Len(v) >= 1 /\ v[1] = local
    /\ k \in 1..Len(v) + 1
    /\ k = Len(v) + 1 => Len(Hosts) > 0 /\ Hosts[Len(Hosts)] = local
    /\ ipc = "done" => k = Len(v)
    /\ ipc = "overrun" => k = Len(v) + 1
    /\ \E from \in [2..Len(v) -> 1..Len(Hosts)] : LoopKeeps(from)

InitInv == SplitInv /\ local \in Locals /\ LoopInv

LEMMA HostsType == ASSUME SplitTypeOK PROVE Hosts \in Seq(Seq(Char)) /\ Len(Hosts) \in Nat
<1>1. s \in Seq(Char) /\ pieces \in Seq(Cuts)
  BY SplitAssumption DEF SplitTypeOK
<1>2. \A n \in 1..Len(pieces) : Piece(pieces[n]) \in Seq(Char)
  <2>1. \A n \in 1..Len(pieces) : pieces[n].from \in 0..size /\ pieces[n].to \in 0..size
    <3>1. \A n \in 1..Len(pieces) : pieces[n] \in Cuts
      BY <1>1
    <3> QED
      BY <3>1 DEF Cuts
  <2>2. size \in Nat
    BY <1>1 DEF size
  <2> QED
    BY <1>1, <2>1, <2>2 DEF Piece, size
<1> QED
  BY <1>1, <1>2 DEF Hosts

LEMMA InsertLocalInv == InitInv /\ InsertLocal => LoopInv'
<1> SUFFICES ASSUME InitInv, InsertLocal, Deduping' PROVE LoopInv'
  BY DEF LoopInv
<1>0. PICK from : from = [n \in 2..Len(v') |-> n - 1]
  OBVIOUS
<1>1. /\ ipc' = "dedupe" /\ v' = <<local>> \o Hosts /\ k' = 1
      /\ UNCHANGED <<splitVars, local>> /\ Hosts' = Hosts
  BY DEF InsertLocal, Deduping, splitVars, Hosts, Piece, InitInv, LoopInv
<1>2. Hosts \in Seq(Seq(Char)) /\ Len(Hosts) \in Nat /\ local \in Seq(Char)
  BY HostsType, InitAssumption DEF InitInv, SplitInv
<1>3. /\ Len(v') = Len(Hosts) + 1 /\ v'[1] = local
      /\ \A n \in 2..Len(v') : v'[n] = Hosts[n - 1]
  BY <1>1, <1>2
<1>4. from \in [2..Len(v') -> 1..Len(Hosts)] /\ \A n \in 2..Len(v') : from[n] = n - 1
  BY <1>0, <1>2, <1>3
<1>5. LoopKeeps(from)'
  <2>1. \A h \in 1..Len(Hosts) : h + 1 \in 2..Len(v') /\ from[h + 1] = h
    BY <1>2, <1>3, <1>4
  <2>2. \A n \in 2..Len(v') : v'[n] = Hosts[from[n]]
    BY <1>3, <1>4
  <2>3. Len(v') \in Nat
    BY <1>2, <1>3
  <2>4. \A m, n \in 2..Len(v') : m < n => from[m] < from[n]
    BY <1>4, <2>3
  <2>5. Keeps(from)'
    BY <1>1, <2>1, <2>2, <2>4 DEF Keeps
  <2>6. \A n \in 2..Len(v') : from[n] = n - 1 + (Len(Hosts) + 1 - Len(v'))
    BY <1>2, <1>3, <1>4
  <2>7. \A n \in 2..Len(v') : ~(n <= 1)
    BY <2>3
  <2> QED
    BY <1>1, <2>5, <2>6, <2>7 DEF LoopKeeps, Gone
<1>6. v' \in Seq(Seq(Char))
  <2>1. <<local>> \in Seq(Seq(Char))
    BY <1>2
  <2> QED
    BY <1>1, <1>2, <2>1
<1>7. Len(v') >= 1 /\ 1 \in 1..Len(v') + 1 /\ 1 # Len(v') + 1
  BY <1>2, <1>3
<1> QED
  BY <1>1, <1>3, <1>4, <1>5, <1>6, <1>7 DEF LoopInv

(* One entry is erased.                                                    *)
LEMMA WithoutOne ==
  ASSUME NEW S, v \in Seq(S), NEW n \in 1..Len(v) - 1
  PROVE  /\ Without(n) \in Seq(S) /\ Len(Without(n)) = Len(v) - 1
         /\ \A m \in 1..n : Without(n)[m] = v[m]
         /\ \A m \in n + 1..Len(v) - 1 : Without(n)[m] = v[m + 1]
<1> DEFINE front == SubSeq(v, 1, n)
           back  == SubSeq(v, n + 2, Len(v))
<1>1. Len(v) \in Nat
  OBVIOUS
<1>2. front \in Seq(S) /\ Len(front) = n /\ \A m \in 1..n : front[m] = v[m]
  BY <1>1
<1>3. /\ back \in Seq(S) /\ Len(back) = Len(v) - n - 1
      /\ \A m \in 1..Len(v) - n - 1 : back[m] = v[m + n + 1]
  BY <1>1
<1> HIDE DEF front, back
<1>4. /\ front \o back \in Seq(S) /\ Len(front \o back) = Len(v) - 1
      /\ \A m \in 1..n : (front \o back)[m] = v[m]
  <2>1. front \in Seq(S) /\ back \in Seq(S)
    BY <1>2, <1>3
  <2>2. front \o back \in Seq(S) /\ Len(front \o back) = Len(front) + Len(back)
    BY <2>1
  <2>3. \A m \in 1..Len(front) : (front \o back)[m] = front[m]
    BY <2>1
  <2> QED
    BY <1>1, <1>2, <1>3, <2>2, <2>3
<1>5. ASSUME NEW m \in n + 1..Len(v) - 1 PROVE (front \o back)[m] = v[m + 1]
  <2>1. (front \o back)[m] = back[m - n]
    BY <1>1, <1>2, <1>3
  <2>2. m - n \in 1..Len(v) - n - 1 /\ (m - n) + n + 1 = m + 1
    BY <1>1
  <2> QED
    BY <1>3, <2>1, <2>2
<1> QED
  BY <1>4, <1>5 DEF Without, front, back

LEMMA CompareInv == InitInv /\ Compare => LoopInv'
<1> SUFFICES ASSUME InitInv, Compare PROVE LoopInv'
  OBVIOUS
<1>1. /\ ipc = "dedupe" /\ k < Len(v) /\ k' = k + 1
      /\ UNCHANGED <<splitVars, ipc, local>> /\ Hosts' = Hosts
      /\ v' = IF v[k + 1] = v[1] THEN Without(k) ELSE v
  BY DEF Compare, splitVars, Hosts, Piece
<1>2. v \in Seq(Seq(Char))
  BY <1>1 DEF InitInv, LoopInv, Deduping
<1>3. Len(Hosts) \in Nat /\ Len(v) \in Nat /\ v[1] = local /\ k \in 1..Len(v) - 1
  BY <1>1, HostsType DEF InitInv, SplitInv, LoopInv, Deduping
<1>4. PICK from \in [2..Len(v) -> 1..Len(Hosts)] : LoopKeeps(from)
  BY <1>1 DEF InitInv, LoopInv, Deduping
<1>5. /\ \A n \in 2..Len(v) : v[n] = Hosts[from[n]] /\ from[n] \in 1..Len(Hosts)
      /\ \A m, n \in 2..Len(v) : m < n => from[m] < from[n]
      /\ \A h \in 1..Len(Hosts) : Hosts[h] # local => \E n \in 2..Len(v) : from[n] = h
  BY <1>4 DEF LoopKeeps, Keeps
<1>6. \A n \in 2..Len(v) : n > k => from[n] = n + Len(Hosts) - Len(v)
  BY <1>3, <1>4 DEF LoopKeeps, Gone
<1>7. \A n \in 2..Len(v) : n <= k /\ v[n] = local =>
         from[n] > 1 /\ Hosts[from[n] - 1] = local
  BY <1>4 DEF LoopKeeps
<1>8. CASE v[k + 1] # v[1]
  <2>1. v' = v
    BY <1>1, <1>8
  <2>2. Keeps(from)'
    BY <1>1, <1>5, <2>1 DEF Keeps
  <2>3. \A n \in 2..Len(v) : n > k + 1 => from[n] = n - 1 + Gone
    BY <1>3, <1>6 DEF Gone
  <2>4. \A n \in 2..Len(v) : n <= k + 1 /\ v[n] = local =>
          from[n] > 1 /\ Hosts[from[n] - 1] = local
    BY <1>3, <1>7, <1>8
  <2>5. LoopKeeps(from)'
    BY <1>1, <2>1, <2>2, <2>3, <2>4 DEF LoopKeeps, Gone
  <2>6. Len(v) >= 1 /\ k' \in 1..Len(v) + 1 /\ k' # Len(v) + 1
    BY <1>1, <1>3
  <2>7. from \in [2..Len(v') -> 1..Len(Hosts')]
    BY <1>1, <1>4, <2>1
  <2>8. v' \in Seq(Seq(Char)) /\ v'[1] = local' /\ Len(v') >= 1
    BY <1>1, <1>2, <1>3, <2>1, <2>6
  <2>9. k' \in 1..Len(v') + 1 /\ k' # Len(v') + 1 /\ ipc' = "dedupe"
    BY <1>1, <2>1, <2>6
  <2> QED
    BY <2>5, <2>7, <2>8, <2>9 DEF LoopInv
<1>9. CASE v[k + 1] = v[1]
  <2>1. v' \in Seq(Seq(Char))
    BY <1>1, <1>2, <1>3, <1>9, WithoutOne
  <2>2. /\ Len(v') = Len(v) - 1
        /\ \A n \in 1..k : v'[n] = v[n]
        /\ \A n \in k + 1..Len(v) - 1 : v'[n] = v[n + 1]
    BY <1>1, <1>2, <1>3, <1>9, WithoutOne
  <2>3. PICK to : to = [n \in 2..Len(v) - 1 |-> IF n <= k THEN from[n] ELSE from[n + 1]]
    OBVIOUS
  <2>4. /\ DOMAIN to = 2..Len(v') /\ to = [n \in DOMAIN to |-> to[n]]
        /\ \A n \in 2..k : to[n] = from[n]
        /\ \A n \in k + 1..Len(v) - 1 : to[n] = from[n + 1]
    BY <1>3, <2>2, <2>3
  <2>5. /\ from[k + 1] = k + 1 + Len(Hosts) - Len(v) /\ Hosts[from[k + 1]] = local
        /\ from[k + 1] \in 1..Len(Hosts)
    BY <1>3, <1>5, <1>6, <1>9
  <2>6. ASSUME NEW n \in 2..Len(v')
        PROVE  v'[n] = Hosts[to[n]] /\ to[n] \in 1..Len(Hosts)
    <3>1. CASE n <= k
      <4>1. n \in 2..k /\ n \in 1..k /\ n \in 2..Len(v)
        BY <1>3, <3>1
      <4> QED
        BY <1>5, <2>2, <2>4, <4>1
    <3>2. CASE n > k
      <4>1. n \in k + 1..Len(v) - 1 /\ n + 1 \in 2..Len(v)
        BY <1>3, <2>2, <3>2
      <4> QED
        BY <1>5, <2>2, <2>4, <4>1
    <3> QED
      BY <1>3, <2>2, <3>1, <3>2
  <2>7. to \in [2..Len(v') -> 1..Len(Hosts)]
    BY <2>4, <2>6
  <2>8. ASSUME NEW m \in 2..Len(v'), NEW n \in 2..Len(v'), m < n
        PROVE  to[m] < to[n]
    <3>1. CASE n <= k
      <4>1. m \in 2..k /\ n \in 2..k /\ m \in 2..Len(v) /\ n \in 2..Len(v)
        BY <1>3, <2>8, <3>1
      <4> QED
        BY <1>5, <2>4, <2>8, <4>1
    <3>2. CASE m <= k /\ n > k
      <4>1. m \in 2..k /\ n \in k + 1..Len(v) - 1
        BY <1>3, <2>2, <3>2
      <4>2. m \in 2..Len(v) /\ n + 1 \in 2..Len(v) /\ m < n + 1
        BY <1>3, <4>1
      <4> QED
        BY <1>5, <2>4, <4>1, <4>2
    <3>3. CASE m > k
      <4>1. m \in k + 1..Len(v) - 1 /\ n \in k + 1..Len(v) - 1
        BY <1>3, <2>2, <2>8, <3>3
      <4>2. m + 1 \in 2..Len(v) /\ n + 1 \in 2..Len(v) /\ m + 1 < n + 1
        BY <1>3, <2>8, <4>1
      <4>3. to[m] = from[m + 1] /\ to[n] = from[n + 1]
        BY <2>4, <4>1
      <4> QED
        BY <1>5, <4>2, <4>3
    <3> QED
      BY <1>3, <2>2, <3>1, <3>2, <3>3
  <2>9. ASSUME NEW h \in 1..Len(Hosts), Hosts[h] # local
        PROVE  \E n \in 2..Len(v') : to[n] = h
    <3>1. PICK n \in 2..Len(v) : from[n] = h
      BY <1>5, <2>9
    <3>2. n # k + 1
      BY <2>5, <2>9, <3>1
    <3>3. CASE n <= k
      BY <1>3, <2>2, <2>4, <3>1, <3>3
    <3>4. CASE n > k + 1
      <4>1. n - 1 \in 2..Len(v') /\ n - 1 \in k + 1..Len(v) - 1 /\ (n - 1) + 1 = n
        BY <1>3, <2>2, <3>4
      <4> QED
        BY <2>4, <3>1, <4>1
    <3> QED
      BY <1>3, <3>2, <3>3, <3>4
  <2>10. ASSUME NEW n \in 2..Len(v'), n > k'
         PROVE  to[n] = n - 1 + (Len(Hosts) + 1 - Len(v'))
    <3>1. n \in k + 1..Len(v) - 1
      BY <1>1, <1>3, <2>2, <2>10
    <3>2. n + 1 \in 2..Len(v) /\ n + 1 > k
      BY <1>3, <3>1
    <3>3. to[n] = from[n + 1]
      BY <2>4, <3>1
    <3>4. from[n + 1] = n + 1 + Len(Hosts) - Len(v)
      BY <1>6, <3>2
    <3> QED
      BY <1>3, <2>2, <3>1, <3>3, <3>4
  <2>11. ASSUME NEW n \in 2..Len(v'), n <= k', v'[n] = local
         PROVE  to[n] > 1 /\ Hosts[to[n] - 1] = local
    <3>1. CASE n <= k
      BY <1>3, <1>7, <2>2, <2>4, <2>11, <3>1
    <3>2. CASE n = k + 1
      <4>1. to[n] = from[k + 1] + 1
        <5>1. n + 1 \in 2..Len(v) /\ n + 1 > k /\ to[n] = from[n + 1]
          BY <1>3, <2>2, <2>4, <3>2
        <5> QED
          BY <1>3, <1>6, <2>5, <3>2, <5>1
      <4> QED
        BY <1>3, <2>5, <4>1
    <3> QED
      BY <1>1, <1>3, <2>11, <3>1, <3>2
  <2>12. Keeps(to)'
    BY <1>1, <2>6, <2>8, <2>9 DEF Keeps
  <2>13. LoopKeeps(to)'
    BY <1>1, <2>10, <2>11, <2>12 DEF LoopKeeps, Gone
  <2>14. v'[1] = local /\ Len(v') >= 1 /\ k' \in 1..Len(v') + 1
    BY <1>1, <1>3, <2>2
  <2>15. k' = Len(v') + 1 => Len(Hosts) > 0 /\ Hosts[Len(Hosts)] = local
    BY <1>1, <1>3, <2>2, <2>5
  <2> QED
    BY <1>1, <2>1, <2>7, <2>13, <2>14, <2>15 DEF LoopInv
<1> QED
  BY <1>8, <1>9

LEMMA EndOfLoopInv ==
  ASSUME InitInv,
         Overrun \/ Leave \/ (SplitStep /\ ipc = "split")
           \/ UNCHANGED <<splitVars, ipc, local, v, k>>
  PROVE  LoopInv'
<1>1. CASE Overrun \/ Leave \/ UNCHANGED <<splitVars, ipc, local, v, k>>
  <2>1. /\ UNCHANGED <<splitVars, local, v, k>> /\ Hosts' = Hosts
        /\ Deduping' => Deduping
        /\ ipc' = "done" => ipc = "done" \/ k = Len(v)
        /\ ipc' = "overrun" => ipc = "overrun" \/ (ipc = "dedupe" /\ k > Len(v))
    BY <1>1 DEF Overrun, Leave, splitVars, Hosts, Piece, Deduping
  <2>2. Deduping => Len(v) \in Nat /\ k \in 1..Len(v) + 1
    BY DEF InitInv, LoopInv
  <2>3. \A from : LoopKeeps(from)' <=> LoopKeeps(from)
    BY <2>1 DEF LoopKeeps, Keeps, Gone
  <2> QED
    BY <2>1, <2>2, <2>3 DEF InitInv, LoopInv, Deduping
<1>2. CASE SplitStep /\ ipc = "split"
  BY <1>2 DEF SplitStep, LoopInv, Deduping
<1> QED
  BY <1>1, <1>2

LEMMA InitInvariant == Spec => []InitInv
<1>1. Init => local \in Locals /\ LoopInv
  BY DEF Init, LoopInv, Deduping
<1>2. InitInv /\ [Next]_vars => local' \in Locals /\ LoopInv'
  <2> SUFFICES ASSUME InitInv, [Next]_vars PROVE local' \in Locals /\ LoopInv'
    OBVIOUS
  <2>1. local' = local
    BY DEF Next, SplitStep, InsertLocal, Compare, Overrun, Leave, vars
  <2>2. LoopInv'
    BY InsertLocalInv, CompareInv, EndOfLoopInv DEF Next, SplitStep, vars
  <2> QED
    BY <2>1, <2>2 DEF InitInv
<1>3. Spec => []SplitInv
  BY InitRunsSplit, SplitInvariant, PTL
<1>4. InitInv <=> SplitInv /\ local \in Locals /\ LoopInv
  BY DEF InitInv
<1>5. SplitInv /\ (local \in Locals /\ LoopInv) /\ [Next]_vars
        => (local \in Locals /\ LoopInv)'
  BY <1>2, <1>4
<1>6. Spec => [](local \in Locals /\ LoopInv)
  BY <1>1, <1>3, <1>5, PTL DEF Spec
<1> QED
  BY <1>3, <1>4, <1>6, PTL

(* No host but the local one is lost, added or moved, for every list.      *)
THEOREM OtherHostsKept == Spec => []OthersKept
<1>1. InitInv => OthersKept
  BY DEF InitInv, LoopInv, Deduping, LoopKeeps, OthersKept
<1> QED
  BY <1>1, InitInvariant, PTL

(* The local address stays in the list only where it follows itself, and   *)
(* only a list that ends with it makes the loop leave the vector.          *)
THEOREM LocalErasedUnlessRepeated == Spec => []ErasedUnlessRepeated
<1>1. InitInv => ErasedUnlessRepeated
  <2> SUFFICES ASSUME InitInv PROVE ErasedUnlessRepeated
    OBVIOUS
  <2>1. Len(Hosts) \in Nat
    BY HostsType DEF InitInv, SplitInv
  <2>2. ASSUME ipc = "done", \A n \in 1..Len(Hosts) - 1 :
                               Hosts[n] = local => Hosts[n + 1] # local,
               NEW n \in 2..Len(v), v[n] = local
        PROVE  FALSE
    <3>1. k = Len(v) /\ Len(v) \in Nat
      BY <2>2 DEF InitInv, LoopInv, Deduping
    <3>2. PICK from \in [2..Len(v) -> 1..Len(Hosts)] : LoopKeeps(from)
      BY <2>2 DEF InitInv, LoopInv, Deduping
    <3>3. /\ v[n] = Hosts[from[n]] /\ from[n] \in 1..Len(Hosts) /\ from[n] > 1
          /\ Hosts[from[n] - 1] = local
      BY <2>2, <3>1, <3>2 DEF LoopKeeps, Keeps
    <3>4. from[n] - 1 \in 1..Len(Hosts) - 1 /\ (from[n] - 1) + 1 = from[n]
      BY <2>1, <3>3
    <3> QED
      BY <2>2, <3>3, <3>4
  <2>3. ASSUME ipc = "overrun" PROVE Hosts # << >> /\ Hosts[Len(Hosts)] = local
    BY <2>1, <2>3 DEF InitInv, LoopInv, Deduping
  <2> QED
    BY <2>2, <2>3 DEF ErasedUnlessRepeated
<1> QED
  BY <1>1, InitInvariant, PTL
=============================================================================
