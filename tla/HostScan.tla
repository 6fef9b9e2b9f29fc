------------------------------ MODULE HostScan ------------------------------
(***************************************************************************)
(* The active-host scanner of scanhost/scanhost/scanhost.cpp.              *)
(*                                                                         *)
(* Scanhost::make() walks the addresses IP1..IP2.  For each address it     *)
(* starts a thread running FindIP, busy-waits, terminates the thread, and  *)
(* decrements ThreadNumCounter.  FindIP sends one ICMP echo request on the *)
(* raw socket all threads share, receives ONE packet into the buffer all   *)
(* threads share, and lets decode_resp append the sender to                *)
(* Scanhost::result when the packet is an echo reply that carries the      *)
(* thread's own identifier.                                                *)
(*                                                                         *)
(* The busy-wait has no relation to the network or to the scheduler, so    *)
(* TerminateThread may strike at any point of FindIP.  Threads never read  *)
(* a clock here: a receive time-out is an action that may always happen.   *)
(*                                                                         *)
(* Addresses are numbers in host byte order, 0..MaxAddr.  An entry of      *)
(* `result` is the address with, as history, the thread that listed it.    *)
(***************************************************************************)
EXTENDS Integers, Sequences, FiniteSets

CONSTANTS
  MaxAddr,         \* the all-ones address; also inet_addr's INADDR_NONE
  ThreadNumLimit,  \* largest ThreadNumCounter at which make() starts threads
  StartQuads,      \* arguments setIP1 is called with
  EndQuads,        \* arguments setIP2 is called with
  MaxThreads,      \* bound: threads CreateThread grants over the run
  MaxCalls,        \* bound: calls of make()
  MaxDrift,        \* bound: how far below 0 ThreadNumCounter may fall
  IcmpId,          \* IcmpId[t]: (USHORT)GetCurrentThreadId() of thread t
  Answerers,       \* Answerers[a]: who replies to an echo request to a
  ForeignIds,      \* identifiers in echo replies to other programs
  ForeignSources,  \* senders of ICMP packets this program did not ask for
  QueueLimit       \* packets the raw socket's receive buffer holds

Addr    == 0..MaxAddr
Threads == 1..MaxThreads

(* An octet outside 0..255 makes the dotted string unparsable; one value   *)
(* stands for every such argument of setIP1/setIP2.                        *)
Unparsable == MaxAddr + 1
Quad == Addr \cup {Unparsable}

ASSUME ScanAssumption ==
  /\ MaxAddr \in Nat
  /\ ThreadNumLimit \in Nat
  /\ MaxThreads \in Nat /\ MaxCalls \in Nat /\ MaxDrift \in Nat
  /\ StartQuads \subseteq Quad /\ EndQuads \subseteq Quad
  /\ IcmpId \in [Threads -> Nat]
  /\ Answerers \in [Addr -> SUBSET Addr]
  /\ ForeignIds \subseteq Nat
  /\ ForeignSources \subseteq Addr
  /\ QueueLimit \in Nat

(* What decode_resp looks at in a received packet: whether it is a         *)
(* complete echo reply, its identifier, and the sender recvfrom reports.   *)
Packet  == [reply : BOOLEAN, id : Nat, src : Addr]
Request == [dst : Addr, id : Nat]
Entry   == [addr : Addr, by : Threads]

NoThread == 0        \* CreateThread failed, or nobody owns the heap

MainPC   == {"idle", "check", "spin", "advance", "exited"}
WorkerPC == {"none", "started", "sending", "receiving", "decoding", "concat",
             "assign", "store", "finish", "done", "killed"}

VARIABLES
  mpc,               \* where make() is; "idle" between calls
  calls,             \* calls of make() so far
  IP1, IP2,          \* the quads set by setIP1 and setIP2
  startIP, endIP,    \* make()'s loop variable (also in dest) and its bound
  hThread,           \* the thread make() started last
  created,           \* threads created so far; thread numbers are 1..created
  ThreadNumCounter,  \* *aa
  wpc,               \* where each thread is in FindIP
  probe,             \* [addr, call] of each thread: *pIPAddrTemp and, as
                     \* history, the call of make() that started it
  recvbuf, from,     \* the global receive buffer and sender address
  heap,              \* owner of the CRT heap lock
  newResult,         \* per thread: result + str1 + ";" before it is assigned
  result,            \* Scanhost::result
  requests,          \* echo requests that ever went out
  queue              \* packets waiting in sockRaw

mainVars   == <<mpc, calls, IP1, IP2, startIP, endIP, hThread>>
threadVars == <<created, wpc, probe>>
bufVars    == <<recvbuf, from>>
listVars   == <<heap, newResult, result>>
netVars    == <<requests, queue>>
vars == <<mainVars, threadVars, ThreadNumCounter, bufVars, listVars, netVars>>

NoPacket == [reply |-> FALSE, id |-> 0, src |-> 0]

(* inet_addr of the dotted string built from a quad.                       *)
InetAddr(q) == IF q \in Addr THEN q ELSE MaxAddr

Live == {"started", "sending", "receiving", "decoding", "concat", "assign",
         "store", "finish"}

Init ==
  /\ mpc = "idle" /\ calls = 0
  /\ IP1 = 0 /\ IP2 = 0 /\ startIP = 0 /\ endIP = 0
  /\ hThread = NoThread /\ created = 0
  /\ ThreadNumCounter = 0
  /\ wpc = [t \in Threads |-> "none"]
  /\ probe = [t \in Threads |-> [addr |-> 0, call |-> 0]]
  /\ recvbuf = NoPacket /\ from = 0
  /\ heap = NoThread
  /\ newResult = [t \in Threads |-> << >>]
  /\ result = << >>
  /\ requests = {} /\ queue = << >>

-----------------------------------------------------------------------------
(* The caller's thread.                                                    *)

SetIP1(q) ==
  /\ mpc = "idle"
  /\ IP1' = q
  /\ UNCHANGED <<mpc, calls, IP2, startIP, endIP, hThread, threadVars,
                 ThreadNumCounter, bufVars, listVars, netVars>>

SetIP2(q) ==
  /\ mpc = "idle"
  /\ IP2' = q
  /\ UNCHANGED <<mpc, calls, IP1, startIP, endIP, hThread, threadVars,
                 ThreadNumCounter, bufVars, listVars, netVars>>

(* make() up to its loop.  Any Winsock failure is ExitProcess.  Each call  *)
(* opens a new raw socket; what was queued on the previous one is never    *)
(* read again.                                                             *)
Make ==
  /\ mpc = "idle" /\ calls < MaxCalls
  /\ calls' = calls + 1
  /\ \/ /\ mpc' = "check"
        /\ startIP' = InetAddr(IP1) /\ endIP' = InetAddr(IP2)
        /\ queue' = << >>
     \/ /\ mpc' = "exited"
        /\ UNCHANGED <<startIP, endIP, queue>>
  /\ UNCHANGED <<IP1, IP2, hThread, threadVars, ThreadNumCounter, bufVars,
                 listVars, requests>>

(* The loop condition off by one.                                          *)
StartWorkerPastEnd ==
  /\ mpc = "check" /\ startIP <= endIP + 1
  /\ created < MaxThreads /\ heap = NoThread
  /\ ThreadNumCounter <= ThreadNumLimit
  /\ created' = created + 1 /\ hThread' = created + 1
  /\ wpc' = [wpc EXCEPT ![created + 1] = "started"]
  /\ probe' = [probe EXCEPT ![created + 1] = [addr |-> startIP, call |-> calls]]
  /\ mpc' = "spin"
  /\ UNCHANGED <<calls, IP1, IP2, startIP, endIP, ThreadNumCounter, bufVars,
                 listVars, netVars>>

(* One loop iteration up to CreateThread.  `new` takes the heap lock; over *)
(* the limit make() sleeps and looks again, which is no step here.         *)
StartWorker ==
  /\ mpc = "check" /\ startIP <= endIP
  /\ ThreadNumCounter <= ThreadNumLimit /\ ThreadNumCounter >= -MaxDrift
  /\ heap = NoThread
  /\ \/ /\ created < MaxThreads
        /\ created' = created + 1
        /\ hThread' = created + 1
        /\ wpc' = [wpc EXCEPT ![created + 1] = "started"]
        /\ probe' = [probe EXCEPT ![created + 1] =
                                    [addr |-> startIP, call |-> calls]]
     \/ /\ hThread' = NoThread
        /\ UNCHANGED threadVars
  /\ mpc' = "spin"
  /\ UNCHANGED <<calls, IP1, IP2, startIP, endIP, ThreadNumCounter, bufVars,
                 listVars, netVars>>

(* TerminateThread forgotten: the thread lives on beside its successors.   *)
TerminateWorkerForgotten ==
  /\ mpc = "spin" /\ mpc' = "advance"
  /\ UNCHANGED <<calls, IP1, IP2, startIP, endIP, hThread, threadVars,
                 ThreadNumCounter, bufVars, listVars, netVars>>

(* TerminateThread after the busy-wait.  A thread that already returned is *)
(* left alone; a terminated thread releases nothing it holds.              *)
TerminateWorker ==
  /\ mpc = "spin"
  /\ wpc' = IF hThread \in Threads /\ wpc[hThread] \in Live
            THEN [wpc EXCEPT ![hThread] = "killed"] ELSE wpc
  /\ mpc' = "advance"
  /\ UNCHANGED <<calls, IP1, IP2, startIP, endIP, hThread, created, probe,
                 ThreadNumCounter, bufVars, listVars, netVars>>

(* Variants of Advance: no decrement; a 64-bit unsigned long; only dest    *)
(* moved to the next address and not the loop variable.                    *)
AdvanceVariant(drop, next) ==
  /\ mpc = "advance" /\ mpc' = "check"
  /\ ThreadNumCounter' = ThreadNumCounter - drop
  /\ from' = 0 /\ startIP' = next
  /\ UNCHANGED <<calls, IP1, IP2, endIP, hThread, threadVars, recvbuf,
                 listVars, netVars>>
AdvanceUncounted == AdvanceVariant(0, (startIP + 1) % (MaxAddr + 1))
AdvanceWide      == AdvanceVariant(1, startIP + 1)
AdvanceStays     == AdvanceVariant(1, startIP)

(* The rest of the iteration: make() decrements the counter whatever the   *)
(* thread did to it, clears `from` and moves to the next 32-bit address.   *)
Advance ==
  /\ mpc = "advance"
  /\ ThreadNumCounter' = ThreadNumCounter - 1
  /\ from' = 0
  /\ startIP' = (startIP + 1) % (MaxAddr + 1)
  /\ mpc' = "check"
  /\ UNCHANGED <<calls, IP1, IP2, endIP, hThread, threadVars, recvbuf,
                 listVars, netVars>>

(* The loop condition htonl(startIP) < htonl(endIP).                       *)
ReturnAtEnd ==
  /\ mpc = "check" /\ startIP >= endIP
  /\ mpc' = "idle"
  /\ UNCHANGED <<calls, IP1, IP2, startIP, endIP, hThread, threadVars,
                 ThreadNumCounter, bufVars, listVars, netVars>>

(* The loop ends and make() returns, whether or not the counter is 0.      *)
Return ==
  /\ mpc = "check" /\ startIP > endIP
  /\ mpc' = "idle"
  /\ UNCHANGED <<calls, IP1, IP2, startIP, endIP, hThread, threadVars,
                 ThreadNumCounter, bufVars, listVars, netVars>>

-----------------------------------------------------------------------------
(* FindIP and decode_resp, run by thread t.  ExitProcess ends every thread.*)

At(t, here) == mpc # "exited" /\ wpc[t] = here
Goto(t, there) == wpc' = [wpc EXCEPT ![t] = there]

(* InterlockedIncrement; then the packet is filled, private to the thread. *)
Enter(t) ==
  /\ At(t, "started") /\ Goto(t, "sending")
  /\ ThreadNumCounter' = ThreadNumCounter + 1
  /\ UNCHANGED <<mainVars, created, probe, bufVars, listVars, netVars>>

(* sendto; an error or a short write is ExitProcess.                       *)
Send(t) ==
  /\ At(t, "sending")
  /\ \/ /\ Goto(t, "receiving")
        /\ requests' = requests \cup {[dst |-> probe[t].addr, id |-> IcmpId[t]]}
        /\ UNCHANGED mpc
     \/ /\ mpc' = "exited"
        /\ UNCHANGED <<wpc, requests>>
  /\ UNCHANGED <<calls, IP1, IP2, startIP, endIP, hThread, created, probe,
                 ThreadNumCounter, bufVars, listVars, queue>>

(* recvfrom with a null address: the sender is not stored.                 *)
ReceiveUnnamed(t) ==
  /\ At(t, "receiving") /\ Goto(t, "decoding")
  /\ queue # << >>
  /\ recvbuf' = Head(queue) /\ queue' = Tail(queue)
  /\ UNCHANGED <<mainVars, created, probe, ThreadNumCounter, from, listVars,
                 requests>>

(* recvfrom returns the first packet in the socket, whoever it is for.     *)
Receive(t) ==
  /\ At(t, "receiving") /\ Goto(t, "decoding")
  /\ queue # << >>
  /\ recvbuf' = Head(queue) /\ from' = Head(queue).src
  /\ queue' = Tail(queue)
  /\ UNCHANGED <<mainVars, created, probe, ThreadNumCounter, listVars, requests>>

(* recvfrom fails; the one-second time-out is such a failure, and it ends  *)
(* the process.                                                            *)
ReceiveFails(t) ==
  /\ At(t, "receiving")
  /\ mpc' = "exited"
  /\ UNCHANGED <<calls, IP1, IP2, startIP, endIP, hThread, threadVars,
                 ThreadNumCounter, bufVars, listVars, netVars>>

(* The identifier is not compared.                                         *)
AcceptsAnyReply(t) == recvbuf.reply

(* decode_resp's early returns, and its test of the identifier.            *)
Accepts(t) == recvbuf.reply /\ recvbuf.id = IcmpId[t]

Discard(t) ==
  /\ At(t, "decoding") /\ ~Accepts(t) /\ Goto(t, "finish")
  /\ UNCHANGED <<mainVars, created, probe, ThreadNumCounter, bufVars,
                 listVars, netVars>>

(* The new string replaces the list, or is put in front of it.             *)
ConcatVariant(t, new) ==
  /\ At(t, "decoding") /\ Accepts(t) /\ Goto(t, "concat")
  /\ heap = NoThread /\ heap' = t
  /\ newResult' = [newResult EXCEPT ![t] = new]
  /\ UNCHANGED <<mainVars, created, probe, ThreadNumCounter, bufVars, result,
                 netVars>>
ConcatAlone(t)   == ConcatVariant(t, <<[addr |-> from, by |-> t]>>)
ConcatInFront(t) == ConcatVariant(t, <<[addr |-> from, by |-> t]>> \o result)

(* result + str1 + ";" is built in a new string, allocated from the heap.  *)
Concat(t) ==
  /\ At(t, "decoding") /\ Accepts(t) /\ Goto(t, "concat")
  /\ heap = NoThread /\ heap' = t
  /\ newResult' = [newResult EXCEPT ![t] =
                     Append(result, [addr |-> from, by |-> t])]
  /\ UNCHANGED <<mainVars, created, probe, ThreadNumCounter, bufVars, result,
                 netVars>>

Concatenated(t) ==
  /\ At(t, "concat") /\ Goto(t, "assign")
  /\ heap' = NoThread
  /\ UNCHANGED <<mainVars, created, probe, ThreadNumCounter, bufVars,
                 newResult, result, netVars>>

(* std::string's move assignment empties the target, then takes over the   *)
(* source's buffer.                                                        *)
AssignClear(t) ==
  /\ At(t, "assign") /\ Goto(t, "store")
  /\ result' = << >>
  /\ UNCHANGED <<mainVars, created, probe, ThreadNumCounter, bufVars, heap,
                 newResult, netVars>>

(* The thread goes back to recvfrom after a reply was listed.              *)
AssignStoreAndReceiveOn(t) ==
  /\ At(t, "store") /\ Goto(t, "receiving")
  /\ result' = newResult[t]
  /\ newResult' = [newResult EXCEPT ![t] = << >>]
  /\ UNCHANGED <<mainVars, created, probe, ThreadNumCounter, bufVars, heap,
                 netVars>>

AssignStore(t) ==
  /\ At(t, "store") /\ Goto(t, "finish")
  /\ result' = newResult[t]
  /\ newResult' = [newResult EXCEPT ![t] = << >>]
  /\ UNCHANGED <<mainVars, created, probe, ThreadNumCounter, bufVars, heap,
                 netVars>>

(* InterlockedDecrement; the thread returns.                               *)
Leave(t) ==
  /\ At(t, "finish") /\ Goto(t, "done")
  /\ ThreadNumCounter' = ThreadNumCounter - 1
  /\ UNCHANGED <<mainVars, created, probe, bufVars, listVars, netVars>>

Worker(t) ==
  \/ Enter(t) \/ Send(t) \/ Receive(t) \/ ReceiveFails(t)
  \/ Discard(t) \/ Concat(t) \/ Concatenated(t)
  \/ AssignClear(t) \/ AssignStore(t) \/ Leave(t)

-----------------------------------------------------------------------------
(* The network.  A raw ICMP socket gets every ICMP packet the host gets.   *)
(* A reply may come at any time, repeatedly, or never.                     *)

Arrive(p) ==
  /\ calls > 0 /\ mpc # "exited"
  /\ Len(queue) < QueueLimit
  /\ queue' = Append(queue, p)
  /\ UNCHANGED <<mainVars, threadVars, ThreadNumCounter, bufVars, listVars,
                 requests>>

EchoReply(r) ==
  \E a \in Answerers[r.dst] : Arrive([reply |-> TRUE, id |-> r.id, src |-> a])

(* An echo reply to another program, or a packet that is not a reply.      *)
ForeignPacket ==
  \E a \in ForeignSources :
    \/ \E i \in ForeignIds : Arrive([reply |-> TRUE, id |-> i, src |-> a])
    \/ Arrive([reply |-> FALSE, id |-> 0, src |-> a])

Network == ForeignPacket \/ \E r \in requests : EchoReply(r)

Main ==
  \/ \E q \in StartQuads : SetIP1(q)
  \/ \E q \in EndQuads : SetIP2(q)
  \/ Make \/ StartWorker \/ TerminateWorker \/ Advance \/ Return

Next == Main \/ Network \/ \E t \in Threads : Worker(t)

Spec == Init /\ [][Next]_vars

(* make() keeps running once called, and TerminateThread follows its       *)
(* finite busy-wait; nothing is promised for threads or the network.       *)
MakeFairness ==
  WF_vars(StartWorker) /\ WF_vars(TerminateWorker) /\ WF_vars(Advance)
    /\ WF_vars(Return)

FairSpec == Spec /\ MakeFairness
-----------------------------------------------------------------------------
(* Properties.                                                             *)

TypeOK ==
  /\ mpc \in MainPC
  /\ calls \in Nat
  /\ IP1 \in Quad /\ IP2 \in Quad
  /\ startIP \in Addr /\ endIP \in Addr
  /\ hThread \in Threads \cup {NoThread}
  /\ created \in 0..MaxThreads
  /\ ThreadNumCounter \in Int
  /\ wpc \in [Threads -> WorkerPC]
  /\ probe \in [Threads -> [addr : Addr, call : Nat]]
  /\ recvbuf \in Packet /\ from \in Addr
  /\ heap \in Threads \cup {NoThread}
  /\ newResult \in [Threads -> Seq(Entry)]
  /\ result \in Seq(Entry)
  /\ requests \subseteq Request
  /\ queue \in Seq(Packet)

(* recvbuf, from and Scanhost::result are global and unlocked.  They are   *)
(* used by one thread at a time only because make() terminates each thread *)
(* before it starts the next one or clears `from`.                         *)
OneWorker ==
  \A t \in Threads :
    wpc[t] \in Live => t = hThread /\ mpc \in {"spin", "exited"}

(* ThreadNumCounter is incremented by a thread that gets to run, and       *)
(* decremented by that thread and again by make().  So it never exceeds 0  *)
(* where make() compares it with ThreadNumLimit: the throttle in the loop  *)
(* never engages.                                                          *)
NeverThrottled == mpc = "check" => ThreadNumCounter <= 0

(* The 16-bit truncation keeps the thread identifiers apart, and no other  *)
(* program pings with one of them.                                         *)
DistinctIds ==
  /\ \A s, t \in Threads : IcmpId[s] = IcmpId[t] => s = t
  /\ \A t \in Threads : IcmpId[t] \notin ForeignIds

(* Replies may be late, repeated, reordered, or for another program, and   *)
(* every thread reads whatever comes first.  Still an address is listed    *)
(* only by the thread whose own echo request it answered.                  *)
OwnAnswer ==
  DistinctIds =>
    \A i \in 1..Len(result) :
      result[i].addr \in Answerers[probe[result[i].by].addr]

(* Scanhost::result holds at most one address per thread, in the order in  *)
(* which the threads were started, although it is rewritten as a whole by  *)
(* threads that are killed at any point of doing so.                       *)
ListedInOrder ==
  \A i, j \in 1..Len(result) : i < j => result[i].by < result[j].by

(* Whatever the identifiers, a listed address sent an ICMP packet to this  *)
(* host: `from` is never the address make() cleared, nor of another packet.*)
ListedHostsExist ==
  \A i \in 1..Len(result) :
    result[i].addr \in ForeignSources \cup UNION {Answerers[r.dst] : r \in requests}

(* Within a call whose end is not the all-ones address (which is also what *)
(* inet_addr makes of an unparsable one), no address is probed twice and   *)
(* none beyond the end: startIP does not wrap around.                      *)
ProbedOnce ==
  endIP < MaxAddr =>
    \A t \in 1..created :
      probe[t].call = calls /\ mpc # "exited" =>
        /\ probe[t].addr <= endIP
        /\ \A s \in 1..created :
             s < t /\ probe[s].call = calls => probe[s].addr < probe[t].addr

(* A thread was terminated while it held the heap lock.                    *)
HeapOrphaned == heap # NoThread /\ wpc[heap] = "killed"

(* Scanhost::result as it will read once the thread that is assigning to  *)
(* it is through.                                                          *)
HostList == IF hThread \in Threads /\ wpc[hThread] = "store"
            THEN newResult[hThread] ELSE result

(* The list of hosts only grows at its end, except that make() terminates  *)
(* a thread between emptying the string and storing the new one: then all  *)
(* hosts found so far are gone.                                            *)
ExtendedBy(s, t) == Len(s) <= Len(t) /\ \A i \in 1..Len(s) : t[i] = s[i]

LossOnlyByTermination ==
  [][ \/ ExtendedBy(HostList, HostList')
      \/ mpc = "spin" /\ wpc[hThread] = "store" /\ wpc'[hThread] = "killed" ]_vars

(* scanhost.cpp:16 and :77 call ThreadNumCounter the number of threads.    *)
(* Where make() compares it with ThreadNumLimit, it is the number of       *)
(* threads that are alive.                                                 *)
CounterCountsThreads ==
  mpc = "check" =>
    ThreadNumCounter = Cardinality({t \in Threads : wpc[t] \in Live})

(* main.cpp:12: obtaining the active hosts is done, save that the scanner  *)
(* may miss the host it runs on.  So no thread gives up on its host while  *)
(* that host's answer is waiting in the socket.                            *)
WaitingAnswerIsTaken ==
  [][ \A t \in Threads :
        wpc[t] = "decoding" /\ wpc'[t] = "finish" =>
          \A i \in 1..Len(queue) :
            ~(queue[i].reply /\ queue[i].id = IcmpId[t]) ]_vars

(* The scanner is a log in which each thread may list one address while it *)
(* is the latest one (module ActiveHostLog).                               *)
Log == INSTANCE ActiveHostLog WITH log <- HostList, turn <- created
LogSpec == Log!Spec

(* A call of make() whose end is not the all-ones address ends: it returns *)
(* or the process exits, unless a terminated thread left the heap locked,  *)
(* in which case make() waits in `new` forever.                            *)
ScanEnds ==
  mpc = "check" /\ endIP < MaxAddr ~> mpc \in {"idle", "exited"} \/ HeapOrphaned

(* scanhost.cpp:199: a call whose end is the all-ones address, or one that *)
(* inet_addr cannot parse, never returns, however far the loop variable    *)
(* wraps: such a scan stops only when the process exits.                   *)
AllOnesNeverReturns ==
  [](mpc = "check" /\ endIP = MaxAddr => [](mpc # "idle"))
=============================================================================
