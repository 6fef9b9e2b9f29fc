----------------------------- MODULE TraceRoute -----------------------------
(***************************************************************************)
(* The route tracer of scanhost/scanhost/tracert.cpp.                      *)
(*                                                                         *)
(* TraceRT::tracert() sends one echo request per TTL, numbered from 0 in   *)
(* every call, and reads ICMP packets until decode() finds one that        *)
(* carries the process identifier and the current number, or until         *)
(* recvfrom times out.  Each hop found is appended to the static string    *)
(* TraceRT::route.                                                         *)
(*                                                                         *)
(* An entry of `route` is the hop's address with, as history, the TTL, the *)
(* destination and the call of tracert() it was listed for.                *)
(***************************************************************************)
EXTENDS Integers, Sequences

CONSTANTS
  Hosts,           \* addresses
  Targets,         \* addresses tracert() is called with
  MaxHop,          \* MAX_HOP
  MaxCalls,        \* bound: calls of tracert()
  ProcId,          \* (USHORT)GetCurrentProcessId()
  Distance,        \* Distance[d]: the least TTL at which a probe reaches d
  Routers,         \* Routers[d][n]: who may drop a probe to d of TTL n
  ForeignIds,      \* identifiers in ICMP packets for other programs
  ForeignSources,  \* senders of packets this program did not ask for
  QueueLimit       \* packets the raw socket's receive buffer holds

TTLs == 1..MaxHop
Seqs == 0..MaxHop

ASSUME TraceAssumption ==
  /\ MaxHop \in Nat /\ MaxCalls \in Nat /\ QueueLimit \in Nat
  /\ Targets \subseteq Hosts
  /\ ProcId \in Nat /\ ForeignIds \subseteq Nat
  /\ Distance \in [Targets -> Nat \ {0}]
  /\ Routers \in [Targets -> [TTLs -> SUBSET Hosts]]
  /\ ForeignSources \subseteq Hosts

(* What decode() looks at: "reply" is an echo reply, "exceeded" a time     *)
(* exceeded message with the header of the dropped probe, "cut" one whose  *)
(* copy of the probe is missing, "other" everything decode() returns false *)
(* for at once.                                                            *)
Kinds  == {"reply", "exceeded", "cut", "other"}
Packet == [kind : Kinds, id : Nat, seq : Seqs, src : Hosts]
Probe  == [call : Nat, dst : Targets, ttl : TTLs, seq : Seqs]
Hop    == [addr : Hosts, ttl : TTLs, dst : Targets, call : Nat]

(* Identifier and number decode() finds where a time exceeded message has  *)
(* the header of the dropped probe: bytes of earlier packets, or the       *)
(* zeroes the buffer starts with.  Payload bytes match no identifier.      *)
NoId  == -1
Zeros == [id |-> 0, seq |-> 0]
Bytes == [id : Nat \cup {NoId}, seq : Seqs]
Payload == [id |-> NoId, seq |-> 0]

VARIABLES
  pc,          \* where tracert() is; "idle" between calls
  calls,       \* calls of tracert() so far
  dst,         \* des_sock_add
  reach, max_hop, ttl, seq_number,
  seq,         \* result.seq
  leftover,    \* what the receive buffer holds past a short packet
  route,       \* TraceRT::route
  probes,      \* echo requests that ever went out
  queue        \* packets waiting in my_socket

loopVars == <<reach, max_hop, ttl, seq_number, seq>>
vars == <<pc, calls, dst, loopVars, leftover, route, probes, queue>>

Init ==
  /\ pc = "idle" /\ calls = 0
  /\ dst \in Targets
  /\ reach = FALSE /\ max_hop = 0 /\ ttl = 1 /\ seq_number = 0 /\ seq = 0
  /\ leftover = Zeros
  /\ route = << >>
  /\ probes = {} /\ queue = << >>

-----------------------------------------------------------------------------
(* tracert(d) up to its loop.  Failures end the process.                   *)
Tracert(d) ==
  /\ pc = "idle" /\ calls < MaxCalls
  /\ calls' = calls + 1
  /\ \/ /\ pc' = "loop"
        /\ dst' = d
        /\ reach' = FALSE /\ max_hop' = MaxHop /\ ttl' = 1 /\ seq_number' = 0
        /\ leftover' = Zeros
        /\ queue' = << >>
     \/ /\ pc' = "exited"
        /\ UNCHANGED <<dst, reach, max_hop, ttl, seq_number, leftover, queue>>
  /\ UNCHANGED <<seq, route, probes>>

(* Variants of the loop: the number is not advanced; the loop goes on      *)
(* after the destination was reached; it is not bounded by MAX_HOP.        *)
SendProbeVariant(goOn, next) ==
  /\ pc = "loop" /\ goOn
  /\ max_hop' = max_hop - 1
  /\ seq' = seq_number /\ seq_number' = next
  /\ pc' = "recv"
  /\ probes' = probes \cup
       {[call |-> calls, dst |-> dst, ttl |-> ttl, seq |-> seq_number]}
  /\ UNCHANGED <<calls, dst, reach, ttl, leftover, route, queue>>
SendProbeSameNumber == SendProbeVariant(~reach /\ max_hop > 0, seq_number)
SendProbeRegardless == SendProbeVariant(max_hop > 0, seq_number + 1)
SendProbeUnbounded  == SendProbeVariant(~reach, seq_number + 1)

(* One iteration of the loop up to sendto, whose errors end the process.   *)
SendProbe ==
  /\ pc = "loop" /\ ~reach /\ max_hop > 0
  /\ max_hop' = max_hop - 1
  /\ seq' = seq_number /\ seq_number' = seq_number + 1
  /\ \/ /\ pc' = "recv"
        /\ probes' = probes \cup
             {[call |-> calls, dst |-> dst, ttl |-> ttl, seq |-> seq_number]}
     \/ /\ pc' = "exited"
        /\ UNCHANGED probes
  /\ UNCHANGED <<calls, dst, reach, ttl, leftover, route, queue>>

Complete ==
  /\ pc = "loop" /\ (reach \/ max_hop = 0)
  /\ pc' = "idle"
  /\ UNCHANGED <<calls, dst, loopVars, leftover, route, probes, queue>>

(* Identifier and number decode() reads; it checks the size of the outer   *)
(* headers only.                                                           *)
Carried(p) == IF p.kind = "cut" THEN leftover ELSE [id |-> p.id, seq |-> p.seq]

(* The number is not compared.                                             *)
DecodesAnyNumber(p) == p.kind # "other" /\ Carried(p).id = ProcId

Decodes(p) ==
  p.kind # "other" /\ Carried(p) = [id |-> ProcId, seq |-> seq]

(* What a packet leaves in the buffer where decode() looks for the header  *)
(* of a dropped probe: it may be too short to reach that far.              *)
Leaves(p) ==
  CASE p.kind = "exceeded" -> {[id |-> p.id, seq |-> p.seq]}
    [] p.kind = "cut"      -> {leftover}
    [] OTHER               -> {leftover, Payload}

(* recvfrom returns a packet: the answer to the probe is the next hop,     *)
(* anything else is dropped and recvfrom called again.                     *)
Receive ==
  /\ pc = "recv" /\ queue # << >>
  /\ queue' = Tail(queue)
  /\ leftover' \in Leaves(Head(queue))
  /\ IF Decodes(Head(queue))
     THEN /\ route' = Append(route, [addr |-> Head(queue).src, ttl |-> ttl,
                                     dst |-> dst, call |-> calls])
          /\ reach' = (reach \/ Head(queue).src = dst)
          /\ ttl' = ttl + 1
          /\ pc' = "loop"
     ELSE UNCHANGED <<route, reach, ttl, pc>>
  /\ UNCHANGED <<calls, dst, max_hop, seq_number, seq, probes>>

(* After a time-out the probe is repeated, without limit.                  *)
TimeOutRetries ==
  /\ pc = "recv" /\ queue = << >>
  /\ pc' = "loop"
  /\ max_hop' = max_hop + 1 /\ seq_number' = seq_number - 1
  /\ UNCHANGED <<calls, dst, reach, ttl, seq, leftover, route, probes, queue>>

(* recvfrom times out; the hop is left out of the route.                   *)
TimeOut ==
  /\ pc = "recv" /\ queue = << >>
  /\ ttl' = ttl + 1
  /\ pc' = "loop"
  /\ UNCHANGED <<calls, dst, reach, max_hop, seq_number, seq, leftover, route,
                 probes, queue>>

ReceiveFails ==
  /\ pc = "recv"
  /\ pc' = "exited"
  /\ UNCHANGED <<calls, dst, loopVars, leftover, route, probes, queue>>

-----------------------------------------------------------------------------
(* The network.  Answers may be lost, late, repeated and reordered.        *)

Arrive(p) ==
  /\ pc # "exited" /\ calls > 0
  /\ Len(queue) < QueueLimit
  /\ queue' = Append(queue, p)
  /\ UNCHANGED <<pc, calls, dst, loopVars, leftover, route, probes>>

(* Who answers a probe to d of TTL n.                                      *)
Answerers(d, n) == IF n < Distance[d] THEN Routers[d][n] ELSE {d}

Answer(q) ==
  \E a \in Answerers(q.dst, q.ttl) :
    Arrive([kind |-> IF q.ttl < Distance[q.dst] THEN "exceeded" ELSE "reply",
            id |-> ProcId, seq |-> q.seq, src |-> a])

(* Answers to other programs, time exceeded messages that do not say what  *)
(* they are for, and other ICMP packets.                                   *)
ForeignPacket ==
  \E a \in ForeignSources :
    \/ \E k \in {"reply", "exceeded"}, i \in ForeignIds, n \in Seqs :
         Arrive([kind |-> k, id |-> i, seq |-> n, src |-> a])
    \/ \E k \in {"cut", "other"} :
         Arrive([kind |-> k, id |-> 0, seq |-> 0, src |-> a])

Next ==
  \/ \E d \in Targets : Tracert(d)
  \/ SendProbe \/ Complete \/ Receive \/ TimeOut \/ ReceiveFails
  \/ \E q \in probes : Answer(q)
  \/ ForeignPacket

Spec == Init /\ [][Next]_vars

(* tracert() runs once called, and recvfrom returns when there is a packet *)
(* or when SO_RCVTIMEO has passed without one.                             *)
TracertFairness ==
  WF_vars(SendProbe) /\ WF_vars(Complete) /\ WF_vars(Receive) /\ WF_vars(TimeOut)

FairSpec == Spec /\ TracertFairness
-----------------------------------------------------------------------------
(* Properties.                                                             *)

TypeOK ==
  /\ pc \in {"idle", "loop", "recv", "exited"}
  /\ calls \in Nat /\ dst \in Targets
  /\ reach \in BOOLEAN /\ max_hop \in 0..MaxHop
  /\ ttl \in 1..MaxHop + 1 /\ seq_number \in Seqs /\ seq \in Seqs
  /\ leftover \in Bytes
  /\ route \in Seq(Hop)
  /\ probes \subseteq Probe
  /\ queue \in Seq(Packet)

(* No other program uses this process's identifier, and it is not the one  *)
(* that an empty receive buffer shows.                                     *)
DistinctId == ProcId # 0 /\ ProcId \notin ForeignIds

(* Within a call a sequence number stands for one TTL: 30 probes, each of  *)
(* them numbered and aimed differently, however many are answered.         *)
NumberMeansTTL ==
  \A p, q \in probes : p.call = q.call /\ p.seq = q.seq => p = q

(* In the first call, a hop listed for a TTL is a host that answers there, *)
(* although late and foreign packets are read in between and decode() may  *)
(* look at bytes that an earlier packet left in the buffer.                *)
FirstRouteTrue ==
  DistinctId =>
    \A i \in 1..Len(route) :
      route[i].call = 1 => route[i].addr \in Answerers(route[i].dst, route[i].ttl)

(* Within a call the hops are listed by increasing TTL and the destination *)
(* is the last of them.                                                    *)
RouteEndsAtDestination ==
  \A i, j \in 1..Len(route) :
    i < j /\ route[i].call = route[j].call =>
      route[i].ttl < route[j].ttl /\ route[i].addr # route[i].dst

(* A trace ends, provided that ICMP packets stop coming in: recvfrom's     *)
(* time-out starts anew with every packet, also those for other programs.  *)
TraceEnds ==
  <>[](queue = << >>) =>
    (pc \in {"loop", "recv"} ~> pc \in {"idle", "exited"})

(* main.cpp:19: the routes are to be turned into an adjacency matrix.  So  *)
(* hosts that follow one another in a route are one hop apart.             *)
ListedHopsAdjacent ==
  \A i \in 1..Len(route) - 1 : route[i + 1].ttl = route[i].ttl + 1

(* main.cpp:19: tracert() is to be called for each active host to obtain   *)
(* the path to it.  So in every call a hop is a host on the path to that   *)
(* call's destination.                                                     *)
EveryRouteTrue ==
  DistinctId =>
    \A i \in 1..Len(route) :
      route[i].addr \in Answerers(route[i].dst, route[i].ttl)
=============================================================================
