--------------------------- MODULE HostScanProofs ---------------------------
(***************************************************************************)
(* Theorems about HostScan, for every number of threads and calls, every   *)
(* range, every network and every assignment of thread identifiers.        *)
(***************************************************************************)
EXTENDS HostScan, TLAPS

(* inet_addr yields a 32-bit address, for every string.                    *)
LEMMA InetAddrType == ASSUME NEW q PROVE InetAddr(q) \in Addr
BY ScanAssumption DEF InetAddr, Addr

(* Scanhost's state stays within its types: in particular the loop         *)
(* variable of make() stays a 32-bit address although it is incremented    *)
(* past the last one.                                                      *)
THEOREM TypeCorrect == Spec => []TypeOK
<1>1. Init => TypeOK
  BY ScanAssumption DEF Init, TypeOK, Addr, Quad, Packet, NoPacket, MainPC,
       WorkerPC, Threads, Entry, NoThread
<1>2. TypeOK /\ [Next]_vars => TypeOK'
  <2> SUFFICES ASSUME TypeOK, [Next]_vars PROVE TypeOK'
    OBVIOUS
  <2> USE DEF TypeOK, mainVars, threadVars, bufVars, listVars, netVars
  <2>1. ASSUME NEW q \in StartQuads, SetIP1(q) PROVE TypeOK'
    BY <2>1, ScanAssumption DEF SetIP1
  <2>2. ASSUME NEW q \in EndQuads, SetIP2(q) PROVE TypeOK'
    BY <2>2, ScanAssumption DEF SetIP2
  <2>3. CASE Make
    <3>1. InetAddr(IP1) \in Addr /\ InetAddr(IP2) \in Addr
      BY InetAddrType
    <3>2. mpc' \in MainPC /\ calls' \in Nat
      BY <2>3 DEF Make, MainPC
    <3>3. /\ startIP' \in {InetAddr(IP1), startIP}
          /\ endIP' \in {InetAddr(IP2), endIP}
          /\ queue' \in {<< >>, queue}
      BY <2>3 DEF Make
    <3>4. startIP' \in Addr /\ endIP' \in Addr
      BY <3>1, <3>3
    <3>5. queue' \in Seq(Packet)
      <4>1. << >> \in Seq(Packet)
        OBVIOUS
      <4>2. CASE queue' = << >>
        BY <4>1, <4>2
      <4>3. QED
        BY <3>3, <4>2
    <3>6. UNCHANGED <<IP1, IP2, hThread, threadVars, ThreadNumCounter, bufVars,
                      listVars, requests>>
      BY <2>3 DEF Make
    <3>7. QED
      BY <3>2, <3>4, <3>5, <3>6
  <2>4. CASE StartWorker
    <3>1. CASE created < MaxThreads /\ created' = created + 1
      <4>1. created + 1 \in Threads
        BY <3>1, ScanAssumption DEF Threads
      <4>2. created' \in 0..MaxThreads
        BY <3>1, ScanAssumption
      <4>3. /\ hThread' = created + 1
            /\ wpc' = [wpc EXCEPT ![created + 1] = "started"]
            /\ probe' = [probe EXCEPT ![created + 1] =
                                        [addr |-> startIP, call |-> calls]]
        BY <2>4, <3>1 DEF StartWorker
      <4>4. wpc' \in [Threads -> WorkerPC]
        BY <4>1, <4>3 DEF WorkerPC
      <4>5. probe' \in [Threads -> [addr : Addr, call : Nat]]
        BY <4>1, <4>3
      <4>6. QED
        BY <2>4, <4>1, <4>2, <4>3, <4>4, <4>5 DEF StartWorker, MainPC
    <3>2. CASE hThread' = NoThread /\ UNCHANGED threadVars
      BY <2>4, <3>2 DEF StartWorker, MainPC
    <3>3. QED
      BY <2>4, <3>1, <3>2 DEF StartWorker
  <2>5. CASE TerminateWorker
    BY <2>5 DEF TerminateWorker, MainPC, WorkerPC
  <2>6. CASE Advance
    BY <2>6, ScanAssumption DEF Advance, Addr, MainPC
  <2>7. CASE Return
    BY <2>7 DEF Return, MainPC
  <2>8. ASSUME NEW t \in Threads, Enter(t) PROVE TypeOK'
    BY <2>8 DEF Enter, At, Goto, WorkerPC
  <2>9. ASSUME NEW t \in Threads, Send(t) PROVE TypeOK'
    <3>1. wpc' \in [Threads -> WorkerPC] /\ mpc' \in MainPC
      BY <2>9 DEF Send, Goto, WorkerPC, MainPC
    <3>2. [dst |-> probe[t].addr, id |-> IcmpId[t]] \in Request
      BY ScanAssumption DEF Request
    <3>3. QED
      BY <2>9, <3>1, <3>2 DEF Send
  <2>10. ASSUME NEW t \in Threads, Receive(t) PROVE TypeOK'
    <3>1. Head(queue) \in Packet /\ Tail(queue) \in Seq(Packet)
      BY <2>10 DEF Receive
    <3>2. QED
      BY <2>10, <3>1 DEF Receive, Goto, WorkerPC, Packet
  <2>11. ASSUME NEW t \in Threads, ReceiveFails(t) PROVE TypeOK'
    BY <2>11 DEF ReceiveFails, At, MainPC
  <2>12. ASSUME NEW t \in Threads, Discard(t) PROVE TypeOK'
    BY <2>12 DEF Discard, At, Goto, WorkerPC
  <2>13. ASSUME NEW t \in Threads, Concat(t) PROVE TypeOK'
    <3>1. Append(result, [addr |-> from, by |-> t]) \in Seq(Entry)
      BY DEF Entry
    <3>2. QED
      BY <2>13, <3>1 DEF Concat, At, Goto, WorkerPC
  <2>14. ASSUME NEW t \in Threads, Concatenated(t) PROVE TypeOK'
    BY <2>14 DEF Concatenated, At, Goto, WorkerPC
  <2>15. ASSUME NEW t \in Threads, AssignClear(t) PROVE TypeOK'
    BY <2>15 DEF AssignClear, At, Goto, WorkerPC
  <2>16. ASSUME NEW t \in Threads, AssignStore(t) PROVE TypeOK'
    BY <2>16 DEF AssignStore, At, Goto, WorkerPC
  <2>17. ASSUME NEW t \in Threads, Leave(t) PROVE TypeOK'
    BY <2>17 DEF Leave, At, Goto, WorkerPC
  <2>18. CASE ForeignPacket
    <3>1. ASSUME NEW p \in Packet, Arrive(p) PROVE TypeOK'
      BY <3>1 DEF Arrive
    <3>2. ASSUME NEW a \in ForeignSources, NEW i \in ForeignIds
          PROVE  /\ [reply |-> TRUE, id |-> i, src |-> a] \in Packet
                 /\ [reply |-> FALSE, id |-> 0, src |-> a] \in Packet
      BY ScanAssumption DEF Packet
    <3>3. CASE \E a \in ForeignSources, i \in ForeignIds :
                 Arrive([reply |-> TRUE, id |-> i, src |-> a])
      BY <3>1, <3>2, <3>3
    <3>4. CASE \E a \in ForeignSources :
                 Arrive([reply |-> FALSE, id |-> 0, src |-> a])
      <4>1. PICK a \in ForeignSources :
                   Arrive([reply |-> FALSE, id |-> 0, src |-> a])
        BY <3>4
      <4>2. [reply |-> FALSE, id |-> 0, src |-> a] \in Packet
        BY ScanAssumption DEF Packet
      <4>3. QED
        BY <3>1, <4>1, <4>2
    <3>5. QED
      BY <2>18, <3>3, <3>4 DEF ForeignPacket
  <2>19. ASSUME NEW r \in requests, EchoReply(r) PROVE TypeOK'
    BY <2>19, ScanAssumption DEF EchoReply, Arrive, Packet, Request
  <2>20. CASE UNCHANGED vars
    BY <2>20 DEF vars
  <2>21. QED
    BY <2>1, <2>2, <2>3, <2>4, <2>5, <2>6, <2>7, <2>8, <2>9, <2>10, <2>11,
       <2>12, <2>13, <2>14, <2>15, <2>16, <2>17, <2>18, <2>19, <2>20
       DEF Next, Main, Network, Worker
<1>3. QED
  BY <1>1, <1>2, PTL DEF Spec

-----------------------------------------------------------------------------
(* Threads are started one at a time, and only the latest can be alive.    *)
Turns ==
  /\ hThread <= created
  /\ mpc = "spin" => hThread \in {NoThread, created}
  /\ \A t \in Threads : t > created => wpc[t] = "none"
  /\ \A t \in Threads : wpc[t] \in Live =>
        t = hThread /\ t = created /\ mpc \in {"spin", "exited"}

(* The turn-taking of make() and its threads: whatever a thread does, it   *)
(* is the thread make() started last, and make() is in its busy-wait.      *)
THEOREM TurnsTaken == Spec => []Turns
<1>1. Init => Turns
  BY ScanAssumption DEF Init, Turns, Threads, NoThread, Live
<1>2. TypeOK /\ Turns /\ [Next]_vars => Turns'
  <2> SUFFICES ASSUME TypeOK, Turns, [Next]_vars PROVE Turns'
    OBVIOUS
  <2>0. /\ wpc \in [Threads -> WorkerPC]
        /\ created \in 0..MaxThreads
        /\ hThread \in Threads \cup {NoThread}
    BY DEF TypeOK
  <2> USE DEF Turns, mainVars, threadVars
  <2>1. ASSUME NEW q, SetIP1(q) \/ SetIP2(q) PROVE Turns'
    BY <2>1 DEF SetIP1, SetIP2
  <2>2. CASE Make
    BY <2>2 DEF Make
  <2>3. CASE StartWorker
    <3>1. \A t \in Threads : wpc[t] \notin Live
      BY <2>3 DEF StartWorker
    <3>2. CASE created' = created + 1
      <4>1. created + 1 \in Threads
        BY <2>0, <2>3, <3>2, ScanAssumption DEF StartWorker, Threads, threadVars
      <4>2. hThread' = created' /\ mpc' = "spin"
        BY <2>0, <2>3, <3>2 DEF StartWorker, threadVars
      <4>3. wpc' = [wpc EXCEPT ![created'] = "started"]
        BY <2>0, <2>3, <3>2 DEF StartWorker, threadVars
      <4>4. \A t \in Threads : t # created' => wpc'[t] = wpc[t]
        BY <2>0, <4>3
      <4>5. \A t \in Threads : t > created' => wpc'[t] = "none"
        BY <2>0, <3>2, <4>4 DEF Threads
      <4>6. \A t \in Threads : wpc'[t] \in Live => t = created'
        BY <3>1, <4>4
      <4>7. QED
        BY <2>0, <3>2, <4>2, <4>5, <4>6
    <3>3. CASE hThread' = NoThread /\ UNCHANGED threadVars
      BY <2>0, <2>3, <3>1, <3>3 DEF StartWorker, NoThread
    <3>4. QED
      BY <2>3, <3>2, <3>3 DEF StartWorker
  <2>4. CASE TerminateWorker
    <3>1. UNCHANGED <<hThread, created>> /\ mpc' = "advance"
      BY <2>4 DEF TerminateWorker
    <3>2. \A t \in Threads : wpc'[t] \notin Live
      BY <2>0, <2>4 DEF TerminateWorker, Live
    <3>3. \A t \in Threads : t > created => wpc'[t] = "none"
      BY <2>0, <2>4 DEF TerminateWorker, Live
    <3>4. QED
      BY <3>1, <3>2, <3>3
  <2>5. CASE Advance \/ Return
    BY <2>5 DEF Advance, Return
  <2>6. ASSUME NEW t \in Threads, Worker(t) PROVE Turns'
    <3>1. wpc[t] \in Live /\ mpc = "spin" /\ t = hThread /\ t = created
      BY <2>6 DEF Worker, Enter, Send, Receive, ReceiveFails, Discard, Concat,
           Concatenated, AssignClear, AssignStore, Leave, At, Live
    <3>2. UNCHANGED <<hThread, created>> /\ mpc' \in {mpc, "exited"}
      BY <2>6 DEF Worker, Enter, Send, Receive, ReceiveFails, Discard, Concat,
           Concatenated, AssignClear, AssignStore, Leave
    <3>3. \A u \in Threads : u # t => wpc'[u] = wpc[u]
      BY <2>0, <2>6 DEF Worker, Enter, Send, Receive, ReceiveFails, Discard,
           Concat, Concatenated, AssignClear, AssignStore, Leave, Goto
    <3>4. \A u \in Threads : u > created' => wpc'[u] = "none"
      BY <2>0, <3>1, <3>2, <3>3 DEF Threads
    <3>5. \A u \in Threads : wpc'[u] \in Live => u = hThread' /\ u = created'
      BY <3>1, <3>2, <3>3
    <3>6. QED
      BY <3>1, <3>2, <3>4, <3>5
  <2>7. CASE Network
    BY <2>7 DEF Network, ForeignPacket, EchoReply, Arrive
  <2>8. CASE UNCHANGED vars
    BY <2>8 DEF vars
  <2>9. QED
    BY <2>1, <2>2, <2>3, <2>4, <2>5, <2>6, <2>7, <2>8 DEF Next, Main
<1>3. QED
  BY <1>1, <1>2, TypeCorrect, PTL DEF Spec

(* No two threads ever use recvbuf, from and Scanhost::result at the same  *)
(* time, and none while make() clears `from` or starts the next thread.    *)
THEOREM OneWorkerAtATime == Spec => []OneWorker
<1>1. Turns => OneWorker
  BY DEF Turns, OneWorker
<1>2. QED
  BY <1>1, TurnsTaken, PTL

-----------------------------------------------------------------------------
(* A thread between its increment and its decrement of the counter.        *)
Counted(t) == wpc[t] \in Live \ {"started"}

(* How far ThreadNumCounter can be above 0 at each point of make().        *)
CounterBound ==
  /\ mpc \in {"idle", "check"} => ThreadNumCounter <= 0
  /\ mpc = "spin" =>
       \/ ThreadNumCounter <= 0
       \/ ThreadNumCounter = 1 /\ hThread # NoThread /\ Counted(hThread)
  /\ mpc = "advance" => ThreadNumCounter <= 1

(* make() decrements ThreadNumCounter once per thread, and every thread    *)
(* that is not terminated in between has already undone its own increment. *)
LEMMA CounterBounded == Spec => []CounterBound
<1>1. Init => CounterBound
  BY DEF Init, CounterBound
<1>2. TypeOK /\ Turns /\ CounterBound /\ [Next]_vars => CounterBound'
  <2> SUFFICES ASSUME TypeOK, Turns, CounterBound, [Next]_vars
               PROVE  CounterBound'
    OBVIOUS
  <2>0. /\ wpc \in [Threads -> WorkerPC] /\ ThreadNumCounter \in Int
        /\ \A t \in Threads : wpc[t] \in Live => t = hThread
        /\ \A t \in Threads : t \in Nat /\ t # NoThread
    BY DEF TypeOK, Turns, Threads, NoThread
  <2> USE DEF CounterBound, Counted, mainVars, threadVars
  <2>1. ASSUME NEW q, SetIP1(q) \/ SetIP2(q) PROVE CounterBound'
    BY <2>1 DEF SetIP1, SetIP2
  <2>2. CASE Make \/ Return
    BY <2>2 DEF Make, Return
  <2>3. CASE StartWorker
    BY <2>3 DEF StartWorker
  <2>4. CASE TerminateWorker
    BY <2>0, <2>4 DEF TerminateWorker
  <2>5. CASE Advance
    BY <2>0, <2>5 DEF Advance
  <2>6. ASSUME NEW t \in Threads, Enter(t) PROVE CounterBound'
    <3>1. wpc[t] = "started" /\ t = hThread /\ ~Counted(hThread)
      BY <2>0, <2>6 DEF Enter, At, Live
    <3>2. wpc'[t] = "sending"
      BY <2>0, <2>6 DEF Enter, Goto
    <3>3. mpc = "spin" /\ UNCHANGED <<mpc, hThread>>
      BY <2>6, <3>1 DEF Enter, At, Turns, Live
    <3>4. ThreadNumCounter <= 0 /\ ThreadNumCounter' = ThreadNumCounter + 1
      BY <2>6, <3>1, <3>3 DEF Enter
    <3>5. QED
      BY <2>0, <3>1, <3>2, <3>3, <3>4 DEF Live
  <2>7. ASSUME NEW t \in Threads, Leave(t) PROVE CounterBound'
    <3>1. mpc = "spin" /\ mpc' = mpc
      BY <2>7 DEF Leave, At, Turns, Live
    <3>2. ThreadNumCounter <= 1 /\ ThreadNumCounter' = ThreadNumCounter - 1
      BY <2>0, <2>7, <3>1 DEF Leave
    <3>3. QED
      BY <2>0, <3>1, <3>2
  <2>8. ASSUME NEW t \in Threads,
               \/ Send(t) \/ Receive(t) \/ ReceiveFails(t) \/ Discard(t)
               \/ Concat(t) \/ Concatenated(t) \/ AssignClear(t)
               \/ AssignStore(t)
        PROVE  CounterBound'
    <3>1. t = hThread /\ Counted(t)
      BY <2>0, <2>8 DEF Send, Receive, ReceiveFails, Discard, Concat,
           Concatenated, AssignClear, AssignStore, At, Live
    <3>2. Counted(t)'
      BY <2>0, <2>8, <3>1 DEF Send, Receive, ReceiveFails, Discard, Concat,
           Concatenated, AssignClear, AssignStore, Goto, Live
    <3>3. /\ UNCHANGED <<ThreadNumCounter, hThread>>
          /\ mpc' \in {mpc, "exited"}
      BY <2>8 DEF Send, Receive, ReceiveFails, Discard, Concat,
           Concatenated, AssignClear, AssignStore
    <3>4. QED
      BY <3>1, <3>2, <3>3
  <2>9. CASE Network \/ UNCHANGED vars
    BY <2>9 DEF Network, ForeignPacket, EchoReply, Arrive, vars
  <2>10. QED
    BY <2>1, <2>2, <2>3, <2>4, <2>5, <2>6, <2>7, <2>8, <2>9
       DEF Next, Main, Worker
<1>3. QED
  BY <1>1, <1>2, TypeCorrect, TurnsTaken, PTL DEF Spec

(* The throttle at the top of make()'s loop never engages, whatever the    *)
(* limit: the counter is never positive there.                             *)
THEOREM ThrottleNeverEngages == Spec => []NeverThrottled
<1>1. CounterBound => NeverThrottled
  BY DEF CounterBound, NeverThrottled
<1>2. QED
  BY <1>1, CounterBounded, PTL

-----------------------------------------------------------------------------
Increasing(s) == \A i, j \in 1..Len(s) : i < j => s[i].by < s[j].by
AllBefore(s, t) == \A i \in 1..Len(s) : s[i].by < t

(* What Scanhost::result and a thread's new string hold while the thread   *)
(* works its way through the statement result = result + str1 + ";".       *)
BeforeClear == Live \ {"store", "finish"}

ListShape ==
  /\ Increasing(result)
  /\ AllBefore(result, created + 1)
  /\ \A t \in Threads :
       /\ wpc[t] \in BeforeClear => AllBefore(result, t)
       /\ wpc[t] \in {"concat", "assign"} =>
            \E a \in Addr : newResult[t] = Append(result, [addr |-> a, by |-> t])
       /\ wpc[t] = "store" =>
            /\ result = << >>
            /\ Increasing(newResult[t]) /\ AllBefore(newResult[t], created + 1)

(* The entries of a list name threads.                                     *)
LEMMA EntriesNameThreads ==
  ASSUME NEW s \in Seq(Entry), NEW i \in 1..Len(s)
  PROVE  s[i].by \in Threads /\ s[i].by \in Nat
<1>1. s[i] \in Entry
  OBVIOUS
<1>2. s[i].by \in Threads
  BY <1>1 DEF Entry
<1>3. QED
  BY <1>2, ScanAssumption DEF Threads

(* Appending an entry of a later thread keeps a list in order.             *)
LEMMA AppendInOrder ==
  ASSUME NEW s \in Seq(Entry), NEW e \in Entry, Increasing(s), AllBefore(s, e.by)
  PROVE  Increasing(Append(s, e)) /\ AllBefore(Append(s, e), e.by + 1)
<1>1. e.by \in Int /\ \A i \in 1..Len(s) : s[i].by \in Int
  <2>1. e.by \in Int
    BY ScanAssumption DEF Entry, Threads
  <2>2. QED
    BY <2>1, EntriesNameThreads
<1>2. Len(Append(s, e)) = Len(s) + 1 /\ Append(s, e)[Len(s) + 1] = e
  OBVIOUS
<1>3. \A i \in 1..Len(s) : Append(s, e)[i] = s[i]
  OBVIOUS
<1>4. \A i \in 1..Len(s) + 1 : i \in 1..Len(s) \/ i = Len(s) + 1
  OBVIOUS
<1>5. AllBefore(Append(s, e), e.by + 1)
  BY <1>1, <1>2, <1>3, <1>4 DEF AllBefore
<1>6. ASSUME NEW i \in 1..Len(s) + 1, NEW j \in 1..Len(s) + 1, i < j
      PROVE  Append(s, e)[i].by < Append(s, e)[j].by
  <2>1. i \in 1..Len(s)
    BY <1>4, <1>6
  <2>2. CASE j \in 1..Len(s)
    BY <1>3, <1>6, <2>1, <2>2 DEF Increasing
  <2>3. CASE j = Len(s) + 1
    BY <1>2, <1>3, <2>1, <2>3 DEF AllBefore
  <2>4. QED
    BY <1>4, <2>2, <2>3
<1>7. QED
  BY <1>2, <1>5, <1>6 DEF Increasing

(* A list without entries is in order.                                     *)
LEMMA EmptyInOrder ==
  \A n : Increasing(<< >>) /\ AllBefore(<< >>, n)
BY DEF Increasing, AllBefore

LEMMA ListShaped == Spec => []ListShape
<1>1. Init => ListShape
  BY EmptyInOrder DEF Init, ListShape, BeforeClear, Live
<1>2. TypeOK /\ Turns /\ ListShape /\ [Next]_vars => ListShape'
  <2> SUFFICES ASSUME TypeOK, Turns, ListShape, [Next]_vars PROVE ListShape'
    OBVIOUS
  <2>0. /\ wpc \in [Threads -> WorkerPC] /\ created \in Nat
        /\ newResult \in [Threads -> Seq(Entry)] /\ result \in Seq(Entry)
        /\ \A t \in Threads : wpc[t] \in Live => t = created
        /\ \A t \in Threads : t \in Nat
        /\ \A i \in 1..Len(result) : result[i].by \in Nat
    <3>1. wpc \in [Threads -> WorkerPC] /\ result \in Seq(Entry)
      BY DEF TypeOK
    <3>2. created \in Nat /\ newResult \in [Threads -> Seq(Entry)]
      BY ScanAssumption DEF TypeOK
    <3>3. \A t \in Threads : wpc[t] \in Live => t = created
      BY DEF Turns
    <3>4. \A t \in Threads : t \in Nat
      BY ScanAssumption DEF Threads
    <3>5. \A i \in 1..Len(result) : result[i].by \in Threads
      BY <3>1, EntriesNameThreads
    <3>6. QED
      BY <3>1, <3>2, <3>3, <3>4, <3>5
  <2>1. ASSUME UNCHANGED <<created, wpc, newResult, result>> PROVE ListShape'
    BY <2>1 DEF ListShape, Increasing, AllBefore
  <2>2. CASE \/ Make \/ Advance \/ Return \/ Network \/ UNCHANGED vars
             \/ \E q \in StartQuads : SetIP1(q)
             \/ \E q \in EndQuads : SetIP2(q)
    <3>1. UNCHANGED <<created, wpc, newResult, result>>
      BY <2>2 DEF Make, Advance, Return, Network, ForeignPacket, EchoReply,
           Arrive, vars, SetIP1, SetIP2, threadVars, listVars
    <3>2. QED
      BY <2>1, <3>1
  <2>3. CASE StartWorker
    <3>1. /\ UNCHANGED <<newResult, result>>
          /\ \A t \in Threads : wpc[t] \notin Live
      BY <2>3 DEF StartWorker, listVars, Turns
    <3>2. CASE created' = created + 1
      <4>1. wpc' = [wpc EXCEPT ![created'] = "started"]
        BY <2>0, <2>3, <3>2 DEF StartWorker, threadVars
      <4>2. \A t \in Threads : wpc'[t] \in Live => t = created' /\ wpc'[t] = "started"
        BY <2>0, <3>1, <4>1
      <4>3. AllBefore(result, created + 1 + 1)
        BY <2>0 DEF ListShape, AllBefore
      <4>4. QED
        BY <2>0, <3>1, <3>2, <4>2, <4>3 DEF ListShape, BeforeClear, Live
    <3>3. CASE UNCHANGED threadVars
      BY <2>1, <3>1, <3>3 DEF threadVars
    <3>4. QED
      BY <2>3, <3>2, <3>3 DEF StartWorker
  <2>4. CASE TerminateWorker
    <3>1. /\ UNCHANGED <<created, newResult, result>>
          /\ \A t \in Threads : wpc'[t] = wpc[t] \/ wpc'[t] = "killed"
      BY <2>0, <2>4 DEF TerminateWorker, listVars
    <3>2. QED
      BY <2>0, <3>1 DEF ListShape, BeforeClear, Live
  <2>5. ASSUME NEW t \in Threads, Worker(t) PROVE ListShape'
    <3>1. wpc[t] \in Live /\ t = created /\ created' = created
      BY <2>0, <2>5 DEF Worker, Enter, Send, Receive, ReceiveFails, Discard,
           Concat, Concatenated, AssignClear, AssignStore, Leave, At, Live,
           threadVars
    <3>2. \A u \in Threads : u # t => wpc'[u] = wpc[u] /\ wpc[u] \notin Live
      BY <2>0, <2>5, <3>1 DEF Worker, Enter, Send, Receive, ReceiveFails,
           Discard, Concat, Concatenated, AssignClear, AssignStore, Leave,
           Goto, threadVars
    <3>3. CASE Enter(t) \/ Send(t) \/ Receive(t) \/ ReceiveFails(t)
               \/ Discard(t) \/ Leave(t)
      <4>1. /\ UNCHANGED <<newResult, result>>
            /\ wpc'[t] \in BeforeClear => wpc[t] \in BeforeClear
            /\ wpc'[t] \notin {"concat", "assign", "store"}
        BY <2>0, <3>3 DEF Enter, Send, Receive, ReceiveFails, Discard, Leave,
             At, Goto, listVars, threadVars, BeforeClear, Live
      <4>2. QED
        BY <2>0, <3>1, <3>2, <4>1 DEF ListShape, BeforeClear, Live
    <3>4. CASE Concat(t)
      <4>1. /\ wpc[t] = "decoding" /\ wpc'[t] = "concat" /\ result' = result
            /\ newResult'[t] = Append(result, [addr |-> from, by |-> t])
        BY <2>0, <3>4 DEF Concat, At, Goto
      <4>2. from \in Addr
        BY DEF TypeOK
      <4>3. QED
        BY <2>0, <3>1, <3>2, <4>1, <4>2 DEF ListShape, BeforeClear, Live
    <3>5. CASE Concatenated(t)
      <4>1. /\ wpc[t] = "concat" /\ wpc'[t] = "assign"
            /\ UNCHANGED <<newResult, result>>
        BY <2>0, <3>5 DEF Concatenated, At, Goto
      <4>2. QED
        BY <2>0, <3>1, <3>2, <4>1 DEF ListShape, BeforeClear, Live
    <3>6. CASE AssignClear(t)
      <4>1. /\ wpc[t] = "assign" /\ wpc'[t] = "store"
            /\ newResult' = newResult /\ result' = << >>
        BY <2>0, <3>6 DEF AssignClear, At, Goto
      <4>2. PICK a \in Addr : newResult[t] = Append(result, [addr |-> a, by |-> t])
        BY <4>1 DEF ListShape
      <4>3. AllBefore(result, t) /\ Increasing(result)
        BY <4>1 DEF ListShape, BeforeClear, Live
      <4>4. [addr |-> a, by |-> t] \in Entry
        BY DEF Entry
      <4>5. Increasing(newResult[t]) /\ AllBefore(newResult[t], t + 1)
        BY <2>0, <4>2, <4>3, <4>4, AppendInOrder
      <4>6. QED
        BY <2>0, <3>1, <3>2, <4>1, <4>5, EmptyInOrder
           DEF ListShape, BeforeClear, Live
    <3>7. CASE AssignStore(t)
      <4>1. /\ wpc[t] = "store" /\ wpc'[t] = "finish" /\ result' = newResult[t]
        BY <2>0, <3>7 DEF AssignStore, At, Goto
      <4>2. QED
        BY <2>0, <3>1, <3>2, <4>1 DEF ListShape, BeforeClear, Live
    <3>8. QED
      BY <2>5, <3>3, <3>4, <3>5, <3>6, <3>7 DEF Worker
  <2>6. QED
    BY <2>2, <2>3, <2>4, <2>5 DEF Next, Main
<1>3. QED
  BY <1>1, <1>2, TypeCorrect, TurnsTaken, PTL DEF Spec

(* The list holds at most one address per thread, in the order in which    *)
(* the threads were started.                                               *)
THEOREM ListInOrder == Spec => []ListedInOrder
<1>1. ListShape => ListedInOrder
  BY DEF ListShape, ListedInOrder, Increasing
<1>2. QED
  BY <1>1, ListShaped, PTL

-----------------------------------------------------------------------------
(* Every step either leaves the list alone, appends one address listed by  *)
(* the latest thread after all others, or is the termination of a thread   *)
(* that had emptied the list and not yet stored the new one.               *)
ListStep ==
  \/ HostList' = HostList /\ created' \in {created, created + 1}
  \/ /\ created' = created /\ created > 0
     /\ AllBefore(HostList, created)
     /\ \E a \in Addr : HostList' = Append(HostList, [addr |-> a, by |-> created])
  \/ /\ created' = created /\ HostList' = << >>
     /\ mpc = "spin" /\ wpc[hThread] = "store" /\ wpc'[hThread] = "killed"

LEMMA ListSteps ==
  ASSUME TypeOK, Turns, ListShape, [Next]_vars
  PROVE  ListStep
<1>0. /\ wpc \in [Threads -> WorkerPC] /\ created \in Nat
      /\ \A t \in Threads : wpc[t] \in Live =>
           t = created /\ t = hThread /\ mpc \in {"spin", "exited"}
  BY ScanAssumption DEF TypeOK, Turns
<1>1. ASSUME UNCHANGED <<created, hThread, wpc, newResult, result>> PROVE ListStep
  BY <1>1 DEF ListStep, HostList
<1>2. CASE \/ Make \/ Advance \/ Return \/ Network \/ UNCHANGED vars
           \/ \E q \in StartQuads : SetIP1(q)
           \/ \E q \in EndQuads : SetIP2(q)
  <2>1. UNCHANGED <<created, hThread, wpc, newResult, result>>
    BY <1>2 DEF Make, Advance, Return, Network, ForeignPacket, EchoReply,
         Arrive, vars, SetIP1, SetIP2, mainVars, threadVars, listVars
  <2>2. QED
    BY <1>1, <2>1
<1>3. CASE StartWorker
  <2>1. \A t \in Threads : wpc[t] # "store"
    BY <1>0, <1>3 DEF StartWorker, Live
  <2>2. \A t \in Threads : wpc'[t] # "store"
    BY <1>0, <1>3, <2>1 DEF StartWorker, threadVars
  <2>3. created' \in {created, created + 1} /\ result' = result
    BY <1>3 DEF StartWorker, threadVars, listVars
  <2>4. QED
    BY <2>1, <2>2, <2>3 DEF ListStep, HostList
<1>4. CASE TerminateWorker
  <2>1. UNCHANGED <<created, hThread, newResult, result>> /\ mpc = "spin"
    BY <1>4 DEF TerminateWorker, listVars
  <2>2. CASE hThread \in Threads /\ wpc[hThread] = "store"
    <3>1. wpc'[hThread] = "killed"
      BY <1>0, <1>4, <2>2 DEF TerminateWorker, Live
    <3>2. HostList' = result
      BY <2>1, <2>2, <3>1 DEF HostList
    <3>3. result = << >>
      BY <2>2 DEF ListShape
    <3>4. QED
      BY <2>1, <2>2, <3>1, <3>2, <3>3 DEF ListStep
  <2>3. CASE ~(hThread \in Threads /\ wpc[hThread] = "store")
    <3>1. HostList' = HostList
      BY <1>0, <1>4, <2>1, <2>3 DEF TerminateWorker, HostList, Live
    <3>2. QED
      BY <2>1, <3>1 DEF ListStep
  <2>4. QED
    BY <2>2, <2>3
<1>5. ASSUME NEW t \in Threads, Worker(t) PROVE ListStep
  <2>1. /\ t = created /\ t = hThread /\ wpc[t] \in Live
        /\ created' = created /\ hThread' = hThread /\ created > 0
    BY <1>0, <1>5, ScanAssumption DEF Worker, Enter, Send, Receive,
         ReceiveFails, Discard, Concat, Concatenated, AssignClear,
         AssignStore, Leave, At, Live, mainVars, threadVars, Threads
  <2>2. CASE AssignClear(t)
    <3>1. /\ wpc[t] = "assign" /\ wpc'[t] = "store" /\ newResult' = newResult
      BY <1>0, <2>2 DEF AssignClear, At, Goto
    <3>2. HostList = result /\ HostList' = newResult[t]
      BY <2>1, <3>1 DEF HostList
    <3>3. AllBefore(result, t)
      BY <3>1 DEF ListShape, BeforeClear, Live
    <3>4. \E a \in Addr : newResult[t] = Append(result, [addr |-> a, by |-> t])
      BY <3>1 DEF ListShape
    <3>5. QED
      BY <2>1, <3>2, <3>3, <3>4 DEF ListStep
  <2>3. CASE AssignStore(t)
    <3>1. wpc[t] = "store" /\ wpc'[t] = "finish" /\ result' = newResult[t]
      BY <1>0, <2>3 DEF AssignStore, At, Goto
    <3>2. HostList' = HostList
      BY <2>1, <3>1 DEF HostList
    <3>3. QED
      BY <2>1, <3>2 DEF ListStep
  <2>4. CASE \/ Enter(t) \/ Send(t) \/ Receive(t) \/ ReceiveFails(t)
             \/ Discard(t) \/ Concat(t) \/ Concatenated(t) \/ Leave(t)
    <3>1. wpc[t] # "store" /\ result' = result
      BY <2>4 DEF Enter, Send, Receive, ReceiveFails, Discard, Concat,
           Concatenated, Leave, At, listVars
    <3>2. wpc'[t] # "store"
      BY <1>0, <2>4 DEF Enter, Send, Receive, ReceiveFails, Discard, Concat,
           Concatenated, Leave, At, Goto, threadVars
    <3>3. HostList' = HostList
      BY <2>1, <3>1, <3>2 DEF HostList
    <3>4. QED
      BY <2>1, <3>3 DEF ListStep
  <2>5. QED
    BY <1>5, <2>2, <2>3, <2>4 DEF Worker
<1>6. QED
  BY <1>2, <1>3, <1>4, <1>5 DEF Next, Main

(* HostList is a sequence of entries.                                      *)
LEMMA HostListType == ASSUME TypeOK PROVE HostList \in Seq(Entry)
BY DEF TypeOK, HostList

(* The list only grows at its end, until make() terminates a thread in the *)
(* middle of the assignment.                                               *)
THEOREM OnlyTerminationLoses == Spec => LossOnlyByTermination
<1>1. ASSUME TypeOK, Turns, ListShape, [Next]_vars
      PROVE  \/ ExtendedBy(HostList, HostList')
             \/ mpc = "spin" /\ wpc[hThread] = "store" /\ wpc'[hThread] = "killed"
  <2>1. ListStep
    BY <1>1, ListSteps
  <2>2. HostList \in Seq(Entry)
    BY <1>1, HostListType
  <2>3. CASE HostList' = HostList
    BY <2>2, <2>3 DEF ExtendedBy
  <2>4. ASSUME NEW a \in Addr,
               HostList' = Append(HostList, [addr |-> a, by |-> created])
        PROVE  ExtendedBy(HostList, HostList')
    BY <2>2, <2>4 DEF ExtendedBy
  <2>5. QED
    BY <2>1, <2>3, <2>4 DEF ListStep
<1>2. QED
  BY <1>1, TypeCorrect, TurnsTaken, ListShaped, PTL DEF Spec, LossOnlyByTermination

(* The scanner implements the log of module ActiveHostLog: threads take    *)
(* turns, and a turn adds at most one address, after all earlier turns'.   *)
THEOREM ImplementsLog == Spec => LogSpec
<1>1. Init => Log!Init
  BY DEF Init, Log!Init, HostList, NoThread, Threads
<1>2. ASSUME TypeOK, Turns, ListShape, [Next]_vars
      PROVE  [Log!Next]_(Log!vars)
  <2>1. ListStep
    BY <1>2, ListSteps
  <2>2. CASE HostList' = HostList /\ created' = created
    BY <2>2 DEF Log!vars
  <2>3. CASE HostList' = HostList /\ created' = created + 1
    BY <2>3 DEF Log!Next, Log!NextTurn
  <2>4. ASSUME NEW a \in Addr, created' = created, created > 0,
               AllBefore(HostList, created),
               HostList' = Append(HostList, [addr |-> a, by |-> created])
        PROVE  Log!List(a)
    BY <2>4 DEF Log!List, AllBefore
  <2>5. CASE HostList' = << >> /\ created' = created
    BY <2>5 DEF Log!Next, Log!Lose
  <2>6. QED
    BY <2>1, <2>2, <2>3, <2>4, <2>5 DEF ListStep, Log!Next
<1>3. QED
  BY <1>1, <1>2, TypeCorrect, TurnsTaken, ListShaped, PTL
     DEF Spec, LogSpec, Log!Spec

-----------------------------------------------------------------------------
(* An echo reply is for another program, or answers a request that went    *)
(* out.                                                                    *)
Genuine(p) ==
  p.reply => \/ p.id \in ForeignIds
             \/ \E r \in requests : p.id = r.id /\ p.src \in Answerers[r.dst]

(* The address of an entry answered the request of the entry's thread.     *)
Owned(e) == e.by <= created /\ e.addr \in Answerers[probe[e.by].addr]

Provenance ==
  /\ \A r \in requests : \E t \in Threads :
       t <= created /\ r.dst = probe[t].addr /\ r.id = IcmpId[t]
  /\ \A i \in 1..Len(queue) : Genuine(queue[i])
  /\ Genuine(recvbuf)
  /\ \A t \in Threads : wpc[t] = "decoding" => from = recvbuf.src
  /\ DistinctIds =>
       /\ \A i \in 1..Len(result) : Owned(result[i])
       /\ \A t \in Threads : \A i \in 1..Len(newResult[t]) : Owned(newResult[t][i])

LEMMA ProvenanceKept == Spec => []Provenance
<1>1. Init => Provenance
  BY DEF Init, Provenance, Genuine, NoPacket
<1>2. TypeOK /\ Turns /\ Provenance /\ [Next]_vars => Provenance'
  <2> SUFFICES ASSUME TypeOK, Turns, Provenance, [Next]_vars
               PROVE  Provenance'
    OBVIOUS
  <2>0. /\ wpc \in [Threads -> WorkerPC] /\ created \in Nat
        /\ newResult \in [Threads -> Seq(Entry)] /\ result \in Seq(Entry)
        /\ probe \in [Threads -> [addr : Addr, call : Nat]]
        /\ queue \in Seq(Packet)
        /\ \A t \in Threads : wpc[t] \in Live => t = created
    BY ScanAssumption DEF TypeOK, Turns
  <2> USE DEF Provenance
  <2>1. ASSUME UNCHANGED <<created, probe, requests, queue, recvbuf, from,
                           newResult, result>>,
               \A t \in Threads : wpc'[t] = "decoding" => wpc[t] = "decoding"
        PROVE  Provenance'
    BY <2>1 DEF Genuine, Owned
  <2>2. CASE \/ Return \/ TerminateWorker \/ UNCHANGED vars
             \/ \E q \in StartQuads : SetIP1(q)
             \/ \E q \in EndQuads : SetIP2(q)
    <3>1. UNCHANGED <<created, probe, requests, queue, recvbuf, from,
                      newResult, result>>
      BY <2>2 DEF Return, TerminateWorker, vars, SetIP1, SetIP2, threadVars,
           listVars, bufVars, netVars
    <3>2. \A t \in Threads : wpc'[t] = "decoding" => wpc[t] = "decoding"
      BY <2>0, <2>2 DEF Return, TerminateWorker, vars, SetIP1, SetIP2, threadVars
    <3>3. QED
      BY <2>1, <3>1, <3>2
  <2>3. CASE Make
    <3>1. /\ UNCHANGED <<created, probe, requests, recvbuf, from, newResult,
                         result, wpc>>
          /\ queue' = queue \/ queue' = << >>
      BY <2>3 DEF Make, threadVars, bufVars, listVars
    <3>2. \A i \in 1..Len(queue') : Genuine(queue[i]) /\ queue'[i] = queue[i]
      BY <2>0, <3>1
    <3>3. QED
      BY <3>1, <3>2 DEF Genuine, Owned
  <2>4. CASE StartWorker
    <3>1. /\ UNCHANGED <<requests, queue, recvbuf, from, newResult, result>>
          /\ \A t \in Threads : wpc'[t] = "decoding" => wpc[t] = "decoding"
      BY <2>0, <2>4 DEF StartWorker, threadVars, bufVars, listVars, netVars
    <3>2. /\ created' >= created /\ created' \in Nat
          /\ \A t \in Threads : t <= created => probe'[t] = probe[t]
      <4>1. CASE created' = created + 1
        <5>1. probe' = [probe EXCEPT ![created + 1] =
                                        [addr |-> startIP, call |-> calls]]
          BY <2>0, <2>4, <4>1 DEF StartWorker, threadVars
        <5>2. \A t \in Threads : t <= created => t # created + 1
          BY <2>0, ScanAssumption DEF Threads
        <5>3. QED
          BY <2>0, <4>1, <5>1, <5>2
      <4>2. CASE UNCHANGED threadVars
        BY <2>0, <4>2 DEF threadVars
      <4>3. QED
        BY <2>4, <4>1, <4>2 DEF StartWorker
    <3>3. \A e \in Entry : Owned(e) => Owned(e)'
      BY <2>0, <3>2, ScanAssumption DEF Owned, Entry, Threads
    <3>4. /\ \A i \in 1..Len(result) : result[i] \in Entry
          /\ \A t \in Threads : \A i \in 1..Len(newResult[t]) : newResult[t][i] \in Entry
      BY <2>0
    <3>5. \A t \in Threads : t <= created => t <= created'
      BY <2>0, <3>2, ScanAssumption DEF Threads
    <3>6. QED
      BY <3>1, <3>2, <3>3, <3>4, <3>5 DEF Genuine
  <2>5. CASE Advance
    <3>1. /\ UNCHANGED <<created, probe, requests, queue, recvbuf, newResult,
                         result, wpc>>
          /\ \A t \in Threads : wpc[t] # "decoding"
      BY <2>5 DEF Advance, threadVars, listVars, netVars, Turns, Live
    <3>2. QED
      BY <3>1 DEF Genuine, Owned
  <2>6. CASE Network
    <3>1. PICK p : Arrive(p) /\ Genuine(p)
      <4>1. CASE ForeignPacket
        <5>1. PICK a \in ForeignSources :
                \/ \E i \in ForeignIds : Arrive([reply |-> TRUE, id |-> i, src |-> a])
                \/ Arrive([reply |-> FALSE, id |-> 0, src |-> a])
          BY <4>1 DEF ForeignPacket
        <5>2. \A i \in ForeignIds : Genuine([reply |-> TRUE, id |-> i, src |-> a])
          BY DEF Genuine
        <5>3. Genuine([reply |-> FALSE, id |-> 0, src |-> a])
          BY DEF Genuine
        <5>4. QED
          BY <5>1, <5>2, <5>3
      <4>2. ASSUME NEW r \in requests, EchoReply(r)
            PROVE  \E p : Arrive(p) /\ Genuine(p)
        BY <4>2 DEF EchoReply, Genuine
      <4>3. QED
        BY <2>6, <4>1, <4>2 DEF Network
    <3>2. /\ UNCHANGED <<created, probe, requests, recvbuf, from, newResult,
                         result, wpc>>
          /\ queue' = Append(queue, p)
      BY <3>1 DEF Arrive, threadVars, bufVars, listVars
    <3>3. \A i \in 1..Len(queue') : Genuine(queue'[i])
      <4>1. \A i \in 1..Len(queue') : i \in 1..Len(queue) \/ i = Len(queue) + 1
        BY <2>0, <3>2
      <4>2. /\ \A i \in 1..Len(queue) : queue'[i] = queue[i]
            /\ queue'[Len(queue) + 1] = p
        BY <2>0, <3>2
      <4>3. QED
        BY <3>1, <4>1, <4>2
    <3>4. QED
      BY <3>2, <3>3 DEF Genuine, Owned
  <2>7. ASSUME NEW t \in Threads, Send(t) PROVE Provenance'
    <3>1. /\ UNCHANGED <<created, probe, queue, recvbuf, from, newResult, result>>
          /\ requests' \in {requests, requests \cup
                             {[dst |-> probe[t].addr, id |-> IcmpId[t]]}}
      BY <2>7 DEF Send, bufVars, listVars
    <3>2. \A u \in Threads : wpc'[u] = "decoding" => wpc[u] = "decoding"
      BY <2>0, <2>7 DEF Send, Goto
    <3>3. t <= created
      BY <2>0, <2>7 DEF Send, At, Live
    <3>4. \A p : Genuine(p) => Genuine(p)'
      BY <3>1 DEF Genuine
    <3>5. QED
      BY <3>1, <3>2, <3>3, <3>4 DEF Owned
  <2>8. ASSUME NEW t \in Threads, Receive(t) PROVE Provenance'
    <3>1. /\ UNCHANGED <<created, probe, requests, newResult, result>>
          /\ queue # << >> /\ queue' = Tail(queue)
          /\ recvbuf' = Head(queue) /\ from' = recvbuf'.src
      BY <2>8 DEF Receive, listVars
    <3>2. Genuine(recvbuf') /\ \A i \in 1..Len(queue') : Genuine(queue'[i])
      BY <2>0, <3>1
    <3>3. QED
      BY <3>1, <3>2 DEF Genuine, Owned
  <2>9. ASSUME NEW t \in Threads, Concat(t) PROVE Provenance'
    <3>1. /\ UNCHANGED <<created, probe, requests, queue, recvbuf, from, result>>
          /\ \A u \in Threads : wpc'[u] = "decoding" => wpc[u] = "decoding"
          /\ wpc[t] = "decoding" /\ Accepts(t)
          /\ newResult' = [newResult EXCEPT ![t] =
                             Append(result, [addr |-> from, by |-> t])]
      BY <2>0, <2>9 DEF Concat, At, Goto, bufVars, netVars
    <3>2. ASSUME DistinctIds PROVE Owned([addr |-> from, by |-> t])
      <4>1. PICK r \in requests : IcmpId[t] = r.id /\ from \in Answerers[r.dst]
        BY <3>1, <3>2 DEF Accepts, Genuine, DistinctIds
      <4>2. PICK u \in Threads : u <= created /\ r.dst = probe[u].addr /\ r.id = IcmpId[u]
        BY <4>1
      <4>3. u = t
        BY <3>2, <4>1, <4>2 DEF DistinctIds
      <4>4. QED
        BY <4>1, <4>2, <4>3 DEF Owned
    <3>3. ASSUME DistinctIds, NEW i \in 1..Len(newResult'[t])
          PROVE  Owned(newResult'[t][i])
      <4>1. newResult'[t] = Append(result, [addr |-> from, by |-> t])
        BY <2>0, <3>1
      <4>2. CASE i \in 1..Len(result)
        BY <2>0, <3>3, <4>1, <4>2
      <4>3. CASE i = Len(result) + 1
        BY <2>0, <3>2, <3>3, <4>1, <4>3
      <4>4. QED
        BY <2>0, <4>1, <4>2, <4>3
    <3>4. \A u \in Threads : u # t => newResult'[u] = newResult[u]
      BY <2>0, <3>1
    <3>5. QED
      BY <3>1, <3>3, <3>4 DEF Genuine, Owned
  <2>10. ASSUME NEW t \in Threads, AssignClear(t) PROVE Provenance'
    <3>1. /\ UNCHANGED <<created, probe, requests, queue, recvbuf, from, newResult>>
          /\ \A u \in Threads : wpc'[u] = "decoding" => wpc[u] = "decoding"
          /\ result' = << >>
      BY <2>0, <2>10 DEF AssignClear, Goto, bufVars, netVars
    <3>2. QED
      BY <3>1 DEF Genuine, Owned
  <2>11. ASSUME NEW t \in Threads, AssignStore(t) PROVE Provenance'
    <3>1. /\ UNCHANGED <<created, probe, requests, queue, recvbuf, from>>
          /\ \A u \in Threads : wpc'[u] = "decoding" => wpc[u] = "decoding"
          /\ result' = newResult[t]
          /\ newResult' = [newResult EXCEPT ![t] = << >>]
      BY <2>0, <2>11 DEF AssignStore, Goto, bufVars, netVars
    <3>2. \A u \in Threads : newResult'[u] \in {newResult[u], << >>}
      BY <2>0, <3>1
    <3>3. \A u \in Threads : \A i \in 1..Len(newResult'[u]) :
            i \in 1..Len(newResult[u]) /\ newResult'[u][i] = newResult[u][i]
      BY <2>0, <3>2
    <3>4. QED
      BY <3>1, <3>3 DEF Genuine, Owned
  <2>12. ASSUME NEW t \in Threads,
                \/ Enter(t) \/ ReceiveFails(t) \/ Discard(t)
                \/ Concatenated(t) \/ Leave(t)
         PROVE  Provenance'
    <3>1. UNCHANGED <<created, probe, requests, queue, recvbuf, from,
                      newResult, result>>
      BY <2>12 DEF Enter, ReceiveFails, Discard, Concatenated, Leave,
           threadVars, bufVars, listVars, netVars
    <3>2. \A u \in Threads : wpc'[u] = "decoding" => wpc[u] = "decoding"
      BY <2>0, <2>12 DEF Enter, ReceiveFails, Discard, Concatenated, Leave,
           Goto, threadVars
    <3>3. QED
      BY <2>1, <3>1, <3>2
  <2>13. QED
    BY <2>2, <2>3, <2>4, <2>5, <2>6, <2>7, <2>8, <2>9, <2>10, <2>11, <2>12
       DEF Next, Main, Worker
<1>3. QED
  BY <1>1, <1>2, TypeCorrect, TurnsTaken, PTL DEF Spec

(* With distinct identifiers a listed address answered the echo request of *)
(* the very thread that listed it, however late or often replies come.     *)
THEOREM OnlyOwnAnswers == Spec => []OwnAnswer
<1>1. Provenance => OwnAnswer
  BY DEF Provenance, OwnAnswer, Owned
<1>2. QED
  BY <1>1, ProvenanceKept, PTL

-----------------------------------------------------------------------------
(* An address that sent an ICMP packet to this host.                       *)
Known(a) == a \in ForeignSources \/ \E r \in requests : a \in Answerers[r.dst]

Heard ==
  /\ \A i \in 1..Len(queue) : Known(queue[i].src)
  /\ \A t \in Threads : wpc[t] = "decoding" => Known(from)
  /\ \A i \in 1..Len(result) : Known(result[i].addr)
  /\ \A t \in Threads : \A i \in 1..Len(newResult[t]) : Known(newResult[t][i].addr)

LEMMA HeardKept == Spec => []Heard
<1>1. Init => Heard
  BY DEF Init, Heard
<1>2. TypeOK /\ Turns /\ Heard /\ [Next]_vars => Heard'
  <2> SUFFICES ASSUME TypeOK, Turns, Heard, [Next]_vars PROVE Heard'
    OBVIOUS
  <2>0. /\ wpc \in [Threads -> WorkerPC]
        /\ newResult \in [Threads -> Seq(Entry)] /\ result \in Seq(Entry)
        /\ queue \in Seq(Packet)
    BY DEF TypeOK
  <2> USE DEF Heard
  <2>1. ASSUME requests \subseteq requests', queue' \in {queue, << >>},
               UNCHANGED <<from, newResult, result>>,
               \A t \in Threads : wpc'[t] = "decoding" => wpc[t] = "decoding"
        PROVE  Heard'
    <3>1. \A a : Known(a) => Known(a)'
      BY <2>1 DEF Known
    <3>2. \A i \in 1..Len(queue') : i \in 1..Len(queue) /\ queue'[i] = queue[i]
      BY <2>0, <2>1
    <3>3. QED
      BY <2>1, <3>1, <3>2
  <2>2. CASE \/ Make \/ StartWorker \/ Return \/ TerminateWorker \/ UNCHANGED vars
             \/ \E q \in StartQuads : SetIP1(q)
             \/ \E q \in EndQuads : SetIP2(q)
    <3>1. requests' = requests /\ queue' \in {queue, << >>}
      BY <2>2 DEF Make, StartWorker, Return, TerminateWorker, vars, SetIP1,
           SetIP2, netVars
    <3>2. UNCHANGED <<from, newResult, result>>
      BY <2>2 DEF Make, StartWorker, Return, TerminateWorker, vars, SetIP1,
           SetIP2, bufVars, listVars
    <3>3. CASE StartWorker
      BY <2>0, <2>1, <3>1, <3>2, <3>3 DEF StartWorker, threadVars
    <3>4. CASE ~StartWorker
      <4>1. \A t \in Threads : wpc'[t] = "decoding" => wpc[t] = "decoding"
        BY <2>0, <2>2, <3>4 DEF Make, Return, TerminateWorker, vars, SetIP1,
             SetIP2, threadVars
      <4>2. QED
        BY <2>1, <3>1, <3>2, <4>1
    <3>5. QED
      BY <3>3, <3>4
  <2>3. CASE Advance
    <3>1. /\ UNCHANGED <<requests, queue, newResult, result, wpc>>
          /\ \A t \in Threads : wpc[t] # "decoding"
      BY <2>3 DEF Advance, threadVars, listVars, netVars, Turns, Live
    <3>2. QED
      BY <3>1 DEF Known
  <2>4. CASE Network
    <3>1. PICK p : Arrive(p) /\ Known(p.src)
      <4>1. CASE ForeignPacket
        <5>1. PICK a \in ForeignSources :
                \/ \E i \in ForeignIds : Arrive([reply |-> TRUE, id |-> i, src |-> a])
                \/ Arrive([reply |-> FALSE, id |-> 0, src |-> a])
          BY <4>1 DEF ForeignPacket
        <5>2. \A b, i : Known([reply |-> b, id |-> i, src |-> a].src)
          BY DEF Known
        <5>3. QED
          BY <5>1, <5>2
      <4>2. ASSUME NEW r \in requests, EchoReply(r)
            PROVE  \E p : Arrive(p) /\ Known(p.src)
        BY <4>2 DEF EchoReply, Known
      <4>3. QED
        BY <2>4, <4>1, <4>2 DEF Network
    <3>2. /\ UNCHANGED <<requests, from, newResult, result, wpc>>
          /\ queue' = Append(queue, p)
      BY <3>1 DEF Arrive, threadVars, bufVars, listVars
    <3>3. \A i \in 1..Len(queue') : Known(queue'[i].src)
      <4>1. \A i \in 1..Len(queue') : i \in 1..Len(queue) \/ i = Len(queue) + 1
        BY <2>0, <3>2
      <4>2. /\ \A i \in 1..Len(queue) : queue'[i] = queue[i]
            /\ queue'[Len(queue) + 1] = p
        BY <2>0, <3>2
      <4>3. QED
        BY <3>1, <4>1, <4>2
    <3>4. QED
      BY <3>2, <3>3 DEF Known
  <2>5. ASSUME NEW t \in Threads,
               \/ Enter(t) \/ Send(t) \/ ReceiveFails(t) \/ Discard(t)
               \/ Concatenated(t) \/ Leave(t)
        PROVE  Heard'
    <3>1. requests \subseteq requests' /\ queue' = queue
      BY <2>5 DEF Enter, Send, ReceiveFails, Discard, Concatenated, Leave, netVars
    <3>2. UNCHANGED <<from, newResult, result>>
      BY <2>5 DEF Enter, Send, ReceiveFails, Discard, Concatenated, Leave,
           bufVars, listVars
    <3>3. \A u \in Threads : wpc'[u] = "decoding" => wpc[u] = "decoding"
      BY <2>0, <2>5 DEF Enter, Send, ReceiveFails, Discard, Concatenated, Leave,
           Goto, threadVars
    <3>4. QED
      BY <2>1, <3>1, <3>2, <3>3
  <2>6. ASSUME NEW t \in Threads, Receive(t) PROVE Heard'
    <3>1. /\ UNCHANGED <<requests, newResult, result>>
          /\ queue # << >> /\ queue' = Tail(queue) /\ from' = Head(queue).src
      BY <2>6 DEF Receive, listVars
    <3>2. Known(from') /\ \A i \in 1..Len(queue') : Known(queue'[i].src)
      BY <2>0, <3>1
    <3>3. QED
      BY <3>1, <3>2 DEF Known
  <2>7. ASSUME NEW t \in Threads, Concat(t) PROVE Heard'
    <3>1. /\ UNCHANGED <<requests, queue, from, result>>
          /\ \A u \in Threads : wpc'[u] = "decoding" => wpc[u] = "decoding"
          /\ wpc[t] = "decoding"
          /\ newResult' = [newResult EXCEPT ![t] =
                             Append(result, [addr |-> from, by |-> t])]
      BY <2>0, <2>7 DEF Concat, At, Goto, bufVars, netVars
    <3>2. ASSUME NEW i \in 1..Len(newResult'[t]) PROVE Known(newResult'[t][i].addr)
      <4>1. newResult'[t] = Append(result, [addr |-> from, by |-> t])
        BY <2>0, <3>1
      <4>2. CASE i \in 1..Len(result)
        BY <2>0, <4>1, <4>2
      <4>3. CASE i = Len(result) + 1
        BY <2>0, <3>1, <4>1, <4>3
      <4>4. QED
        BY <2>0, <4>1, <4>2, <4>3
    <3>3. \A u \in Threads : u # t => newResult'[u] = newResult[u]
      BY <2>0, <3>1
    <3>4. QED
      BY <3>1, <3>2, <3>3 DEF Known
  <2>8. ASSUME NEW t \in Threads, AssignClear(t) PROVE Heard'
    <3>1. /\ UNCHANGED <<requests, queue, from, newResult>>
          /\ \A u \in Threads : wpc'[u] = "decoding" => wpc[u] = "decoding"
          /\ result' = << >>
      BY <2>0, <2>8 DEF AssignClear, Goto, bufVars, netVars
    <3>2. QED
      BY <3>1 DEF Known
  <2>9. ASSUME NEW t \in Threads, AssignStore(t) PROVE Heard'
    <3>1. /\ UNCHANGED <<requests, queue, from>>
          /\ \A u \in Threads : wpc'[u] = "decoding" => wpc[u] = "decoding"
          /\ result' = newResult[t]
          /\ newResult' = [newResult EXCEPT ![t] = << >>]
      BY <2>0, <2>9 DEF AssignStore, Goto, bufVars, netVars
    <3>2. \A u \in Threads : newResult'[u] \in {newResult[u], << >>}
      BY <2>0, <3>1
    <3>3. \A u \in Threads : \A i \in 1..Len(newResult'[u]) :
            i \in 1..Len(newResult[u]) /\ newResult'[u][i] = newResult[u][i]
      BY <2>0, <3>2
    <3>4. QED
      BY <3>1, <3>3 DEF Known
  <2>10. QED
    BY <2>2, <2>3, <2>4, <2>5, <2>6, <2>7, <2>8, <2>9 DEF Next, Main, Worker
<1>3. QED
  BY <1>1, <1>2, TypeCorrect, TurnsTaken, PTL DEF Spec

(* Without any assumption on identifiers, a listed address is one that     *)
(* sent an ICMP packet to this host.                                       *)
THEOREM ListedHostsAreReal == Spec => []ListedHostsExist
<1>1. Heard => ListedHostsExist
  BY DEF Heard, Known, ListedHostsExist
<1>2. QED
  BY <1>1, HeardKept, PTL

-----------------------------------------------------------------------------
(* Where the probes of the current call stand relative to startIP.         *)
InThisCall(t) == t <= created /\ probe[t].call = calls

ProbeRange ==
  /\ \A t \in Threads : probe[t].call <= calls
  /\ mpc # "exited" /\ endIP < MaxAddr =>
       /\ mpc \in {"spin", "advance"} => startIP <= endIP
       /\ \A t \in Threads : InThisCall(t) =>
            /\ probe[t].addr <= endIP
            /\ probe[t].addr <= startIP
            /\ mpc \in {"idle", "check"} => probe[t].addr < startIP
            /\ \A s \in Threads :
                 s < t /\ InThisCall(s) => probe[s].addr < probe[t].addr

(* As long as the end is not the last address, startIP cannot wrap: it is  *)
(* at most one past the end.                                               *)
LEMMA ProbesInRange == Spec => []ProbeRange
<1>1. Init => ProbeRange
  BY ScanAssumption DEF Init, ProbeRange, InThisCall, Threads
<1>2. TypeOK /\ Turns /\ ProbeRange /\ [Next]_vars => ProbeRange'
  <2> SUFFICES ASSUME TypeOK, Turns, ProbeRange, [Next]_vars
               PROVE  ProbeRange'
    OBVIOUS
  <2>0. /\ created \in Nat /\ calls \in Nat /\ MaxAddr \in Nat
        /\ startIP \in Nat /\ endIP \in Nat /\ startIP <= MaxAddr
        /\ \A t \in Threads : t \in Nat
    BY ScanAssumption DEF TypeOK, Threads, Addr
  <2>00. /\ probe \in [Threads -> [addr : Addr, call : Nat]]
         /\ \A t \in Threads : probe[t].addr \in Nat /\ probe[t].call \in Nat
    BY ScanAssumption DEF TypeOK, Addr
  <2> USE DEF ProbeRange, InThisCall
  <2>1. ASSUME UNCHANGED <<calls, created, probe, startIP, endIP>>,
               mpc' \in {mpc, "exited"}
        PROVE  ProbeRange'
    BY <2>1
  <2>2. CASE \/ UNCHANGED vars \/ Network \/ \E t \in Threads : Worker(t)
             \/ \E q \in StartQuads : SetIP1(q)
             \/ \E q \in EndQuads : SetIP2(q)
    <3>1. ASSUME NEW t \in Threads, Worker(t)
          PROVE  /\ UNCHANGED <<calls, created, probe, startIP, endIP>>
                 /\ mpc' \in {mpc, "exited"}
      BY <3>1 DEF Worker, Enter, Send, Receive, ReceiveFails, Discard, Concat,
           Concatenated, AssignClear, AssignStore, Leave, mainVars, threadVars
    <3>2. QED
      BY <2>1, <2>2, <3>1 DEF vars, Network, ForeignPacket, EchoReply, Arrive,
           SetIP1, SetIP2, mainVars, threadVars
  <2>3. CASE Make
    <3>1. calls' = calls + 1 /\ UNCHANGED <<created, probe>>
      BY <2>3 DEF Make, threadVars
    <3>2. \A t \in Threads : probe'[t].call < calls'
      BY <2>0, <2>00, <3>1
    <3>3. mpc' \in {"check", "exited"}
      BY <2>3 DEF Make
    <3>4. \A t \in Threads : ~InThisCall(t)'
      BY <2>0, <2>00, <3>1, <3>2
    <3>5. \A t \in Threads : probe'[t].call <= calls'
      BY <2>0, <2>00, <3>1
    <3>6. QED
      BY <3>3, <3>4, <3>5
  <2>4. CASE StartWorker
    <3>1. /\ mpc = "check" /\ mpc' = "spin" /\ startIP <= endIP
          /\ UNCHANGED <<calls, startIP, endIP>>
      BY <2>4 DEF StartWorker
    <3>2. CASE UNCHANGED threadVars
      BY <2>0, <2>00, <3>1, <3>2 DEF threadVars
    <3>3. CASE created' = created + 1
      <4>1. created + 1 \in Threads
        BY <2>0, <2>4, <3>3, ScanAssumption DEF StartWorker, threadVars, Threads
      <4>2. probe' = [probe EXCEPT ![created + 1] =
                                     [addr |-> startIP, call |-> calls]]
        BY <2>0, <2>4, <3>3 DEF StartWorker, threadVars
      <4>3. /\ probe'[created + 1].addr = startIP
            /\ probe'[created + 1].call = calls
            /\ \A t \in Threads : t # created + 1 => probe'[t] = probe[t]
        BY <2>00, <4>1, <4>2
      <4>4. \A t \in Threads : InThisCall(t)' /\ t # created + 1 => InThisCall(t)
        BY <2>0, <3>1, <3>3, <4>3
      <4>5. \A t \in Threads : probe'[t].call <= calls'
        BY <2>0, <2>00, <3>1, <4>3
      <4>6. ASSUME endIP < MaxAddr, NEW t \in Threads, InThisCall(t)'
            PROVE  /\ probe'[t].addr <= endIP
                   /\ probe'[t].addr <= startIP
                   /\ \A s \in Threads : s < t /\ InThisCall(s)' =>
                        probe'[s].addr < probe'[t].addr
        <5>1. CASE t = created + 1
          <6>1. \A s \in Threads : s < t => s # created + 1
            BY <2>0, <5>1
          <6>2. \A s \in Threads : s < t /\ InThisCall(s)' => probe[s].addr < startIP
            BY <3>1, <4>4, <4>6, <6>1
          <6>3. QED
            BY <2>0, <3>1, <4>3, <5>1, <6>1, <6>2
        <5>2. CASE t # created + 1
          <6>1. t <= created
            BY <4>4, <4>6, <5>2
          <6>2. \A s \in Threads : s < t => s # created + 1
            BY <2>0, <6>1
          <6>3. QED
            BY <2>0, <2>00, <3>1, <4>3, <4>4, <4>6, <5>2, <6>2
        <5>3. QED
          BY <5>1, <5>2
      <4>7. QED
        BY <3>1, <4>5, <4>6
    <3>4. QED
      BY <2>4, <3>2, <3>3 DEF StartWorker
  <2>5. CASE TerminateWorker
    BY <2>0, <2>00, <2>5 DEF TerminateWorker
  <2>6. CASE Advance
    <3>1. /\ mpc = "advance" /\ mpc' = "check"
          /\ startIP' = (startIP + 1) % (MaxAddr + 1)
          /\ UNCHANGED <<calls, created, probe, endIP>>
      BY <2>6 DEF Advance, threadVars
    <3>2. CASE endIP < MaxAddr
      <4>1. startIP <= endIP
        BY <3>1, <3>2
      <4>2. startIP' = startIP + 1
        BY <2>0, <3>1, <3>2, <4>1
      <4>3. QED
        BY <2>0, <2>00, <3>1, <4>2
    <3>3. CASE ~(endIP < MaxAddr)
      BY <3>1, <3>3
    <3>4. QED
      BY <3>2, <3>3
  <2>7. CASE Return
    BY <2>0, <2>00, <2>7 DEF Return, threadVars
  <2>8. QED
    BY <2>2, <2>3, <2>4, <2>5, <2>6, <2>7 DEF Next, Main
<1>3. QED
  BY <1>1, <1>2, TypeCorrect, TurnsTaken, PTL DEF Spec

(* Unless the end is the all-ones address, a call of make() probes no      *)
(* address beyond the end and none twice, although startIP is a 32-bit     *)
(* number that wraps.                                                      *)
THEOREM EveryAddressOnce == Spec => []ProbedOnce
<1>1. ASSUME TypeOK, ProbeRange PROVE ProbedOnce
  <2>1. \A t \in 1..created : t \in Threads /\ t <= created
    BY <1>1, ScanAssumption DEF TypeOK, Threads
  <2>2. QED
    BY <1>1, <2>1 DEF ProbeRange, InThisCall, ProbedOnce
<1>2. QED
  BY <1>1, TypeCorrect, ProbesInRange, PTL
=============================================================================
