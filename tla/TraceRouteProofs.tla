-------------------------- MODULE TraceRouteProofs --------------------------
(***************************************************************************)
(* Theorems about TraceRoute, for every network, every MAX_HOP and every   *)
(* number of calls.                                                        *)
(***************************************************************************)
EXTENDS TraceRoute, TLAPS

(* The loop's counters determine one another.                              *)
Counters ==
  /\ pc = "loop" => ttl = seq_number + 1 /\ max_hop + seq_number = MaxHop
  /\ pc = "recv" =>
       /\ ttl = seq_number /\ max_hop + seq_number = MaxHop
       /\ seq_number = seq + 1

TypeInv == TypeOK /\ Counters

(* Types, with the counters they need: TTLs stay within 1..MAX_HOP and     *)
(* sequence numbers within what a probe may carry.                         *)
LEMMA TypeInvariant == Spec => []TypeInv
<1> USE TraceAssumption DEF Seqs, TTLs
<1>1. Init => TypeInv
  <2>1. Zeros \in Bytes
    BY DEF Zeros, Bytes
  <2>2. << >> \in Seq(Hop) /\ << >> \in Seq(Packet)
    OBVIOUS
  <2>3. ASSUME Init PROVE TypeOK
    <3>1. /\ route = << >> /\ queue = << >> /\ leftover = Zeros /\ reach = FALSE
          /\ pc = "idle" /\ dst \in Targets /\ calls = 0 /\ probes = {}
          /\ max_hop = 0 /\ ttl = 1 /\ seq_number = 0 /\ seq = 0
      BY <2>3 DEF Init
    <3>2. route \in Seq(Hop) /\ queue \in Seq(Packet) /\ leftover \in Bytes
      BY <2>1, <2>2, <3>1
    <3>3. max_hop \in 0..MaxHop /\ ttl \in 1..MaxHop + 1
      BY <3>1
    <3>4. QED
      BY <3>1, <3>2, <3>3 DEF TypeOK
  <2>4. ASSUME Init PROVE Counters
    BY <2>4 DEF Init, Counters
  <2>5. QED
    BY <2>3, <2>4 DEF TypeInv
<1>2. TypeInv /\ [Next]_vars => TypeInv'
  <2> SUFFICES ASSUME TypeInv, [Next]_vars PROVE TypeInv'
    OBVIOUS
  <2> USE DEF TypeInv, TypeOK, Counters, loopVars
  <2>1. ASSUME NEW d \in Targets, Tracert(d) PROVE TypeInv'
    <3>1. CASE pc' = "loop"
      <4>1. /\ dst' = d /\ calls' = calls + 1 /\ queue' = << >> /\ leftover' = Zeros
            /\ reach' = FALSE /\ max_hop' = MaxHop /\ ttl' = 1 /\ seq_number' = 0
            /\ UNCHANGED <<seq, route, probes>>
        BY <2>1, <3>1 DEF Tracert
      <4>2. << >> \in Seq(Packet) /\ Zeros \in Bytes
        BY DEF Zeros, Bytes
      <4>3. queue' \in Seq(Packet) /\ leftover' \in Bytes
        BY <4>1, <4>2
      <4>4. /\ max_hop' \in 0..MaxHop /\ ttl' \in 1..MaxHop + 1
            /\ seq_number' \in 0..MaxHop /\ Counters'
        BY <3>1, <4>1
      <4>5. reach' \in BOOLEAN
        BY <4>1
      <4>6. UNCHANGED <<seq, route, probes>> /\ calls' \in Nat /\ dst' \in Targets
        BY <4>1
      <4>7. QED
        BY <3>1, <4>3, <4>4, <4>5, <4>6
    <3>2. CASE pc' = "exited"
      BY <2>1, <3>2 DEF Tracert
    <3>3. QED
      BY <2>1, <3>1, <3>2 DEF Tracert
  <2>2. CASE SendProbe
    <3>1. /\ max_hop' = max_hop - 1 /\ seq' = seq_number
          /\ seq_number' = seq_number + 1 /\ pc = "loop" /\ max_hop > 0
          /\ UNCHANGED <<calls, dst, reach, ttl, leftover, route, queue>>
      BY <2>2 DEF SendProbe
    <3>2. seq_number < MaxHop /\ ttl \in 1..MaxHop
      BY <3>1
    <3>3. [call |-> calls, dst |-> dst, ttl |-> ttl, seq |-> seq_number] \in Probe
      BY <3>2 DEF Probe
    <3>4. probes' \subseteq Probe /\ pc' \in {"recv", "exited"}
      BY <2>2, <3>3 DEF SendProbe
    <3>5. QED
      BY <3>1, <3>2, <3>4
  <2>3. CASE Complete
    BY <2>3 DEF Complete
  <2>4. CASE Receive
    <3>1. /\ queue # << >> /\ queue' = Tail(queue) /\ pc = "recv"
          /\ leftover' \in Leaves(Head(queue))
          /\ UNCHANGED <<calls, dst, max_hop, seq_number, seq, probes>>
      BY <2>4 DEF Receive
    <3>2. Head(queue) \in Packet /\ queue' \in Seq(Packet)
      BY <3>1
    <3>3. leftover' \in Bytes
      <4>1. Payload \in Bytes
        BY DEF Payload, Bytes
      <4>2. [id |-> Head(queue).id, seq |-> Head(queue).seq] \in Bytes
        BY <3>2 DEF Packet, Bytes
      <4>3. leftover' \in {[id |-> Head(queue).id, seq |-> Head(queue).seq],
                           leftover, Payload}
        BY <3>1 DEF Leaves
      <4>4. QED
        BY <4>1, <4>2, <4>3
    <3>4. CASE Decodes(Head(queue))
      <4>1. [addr |-> Head(queue).src, ttl |-> ttl, dst |-> dst, call |-> calls] \in Hop
        <5>1. Head(queue).src \in Hosts
          BY <3>2 DEF Packet
        <5>2. ttl \in TTLs
          BY <3>1
        <5>3. QED
          BY <5>1, <5>2 DEF Hop
      <4>2. /\ route' = Append(route, [addr |-> Head(queue).src, ttl |-> ttl,
                                       dst |-> dst, call |-> calls])
            /\ reach' = (reach \/ Head(queue).src = dst)
            /\ ttl' = ttl + 1 /\ pc' = "loop"
        BY <2>4, <3>4 DEF Receive
      <4>3. route' \in Seq(Hop) /\ reach' \in BOOLEAN
        BY <4>1, <4>2
      <4>4. QED
        BY <3>1, <3>2, <3>3, <4>2, <4>3
    <3>5. CASE ~Decodes(Head(queue))
      BY <2>4, <3>1, <3>2, <3>3, <3>5 DEF Receive
    <3>6. QED
      BY <3>4, <3>5
  <2>5. CASE TimeOut
    BY <2>5 DEF TimeOut
  <2>6. CASE ReceiveFails
    BY <2>6 DEF ReceiveFails
  <2>7. ASSUME NEW p \in Packet, Arrive(p) PROVE TypeInv'
    BY <2>7 DEF Arrive
  <2>8. ASSUME NEW q \in probes, Answer(q) PROVE TypeInv'
    <3>1. PICK a \in Answerers(q.dst, q.ttl) :
            Arrive([kind |-> IF q.ttl < Distance[q.dst] THEN "exceeded" ELSE "reply",
                    id |-> ProcId, seq |-> q.seq, src |-> a])
      BY <2>8 DEF Answer
    <3>2. q \in Probe
      OBVIOUS
    <3>3. a \in Hosts
      BY <3>2 DEF Answerers, Probe
    <3>4. [kind |-> IF q.ttl < Distance[q.dst] THEN "exceeded" ELSE "reply",
           id |-> ProcId, seq |-> q.seq, src |-> a] \in Packet
      BY <3>2, <3>3 DEF Packet, Kinds, Probe
    <3>5. QED
      BY <2>7, <3>1, <3>4
  <2>9. CASE ForeignPacket
    <3>1. PICK a \in ForeignSources :
            \/ \E k \in {"reply", "exceeded"}, i \in ForeignIds, n \in Seqs :
                 Arrive([kind |-> k, id |-> i, seq |-> n, src |-> a])
            \/ \E k \in {"cut", "other"} :
                 Arrive([kind |-> k, id |-> 0, seq |-> 0, src |-> a])
      BY <2>9 DEF ForeignPacket
    <3>2. \A k \in Kinds, i \in Nat, n \in Seqs :
            [kind |-> k, id |-> i, seq |-> n, src |-> a] \in Packet
      BY DEF Packet
    <3>3. \A k \in {"reply", "exceeded"}, i \in ForeignIds, n \in Seqs :
            [kind |-> k, id |-> i, seq |-> n, src |-> a] \in Packet
      BY <3>2 DEF Kinds
    <3>4. \A k \in {"cut", "other"} :
            [kind |-> k, id |-> 0, seq |-> 0, src |-> a] \in Packet
      BY <3>2 DEF Kinds
    <3>5. QED
      BY <2>7, <3>1, <3>3, <3>4
  <2>10. CASE UNCHANGED vars
    BY <2>10 DEF vars
  <2>11. QED
    BY <2>1, <2>2, <2>3, <2>4, <2>5, <2>6, <2>8, <2>9, <2>10 DEF Next
<1>3. QED
  BY <1>1, <1>2, PTL DEF Spec

(* tracert() stays within its types: at most MaxHop probes are sent in a   *)
(* call and no TTL exceeds it.                                             *)
THEOREM TypeCorrect == Spec => []TypeOK
<1>1. TypeInv => TypeOK
  BY DEF TypeInv
<1>2. QED
  BY <1>1, TypeInvariant, PTL

-----------------------------------------------------------------------------
(* The probes of a call are numbered in the order they go out, and carry   *)
(* TTL number + 1.                                                         *)
Numbering ==
  /\ NumberMeansTTL
  /\ pc \in {"loop", "recv"} => calls >= 1
  /\ \A q \in probes :
       /\ q.call \in 1..calls /\ q.ttl = q.seq + 1
       /\ q.call = calls => q.dst = dst /\ q.seq < seq_number

LEMMA Numbered == Spec => []Numbering
<1>1. Init => Numbering
  BY DEF Init, Numbering, NumberMeansTTL
<1>2. TypeInv /\ Numbering /\ [Next]_vars => Numbering'
  <2> SUFFICES ASSUME TypeInv, Numbering, [Next]_vars PROVE Numbering'
    OBVIOUS
  <2>0. calls \in Nat /\ seq_number \in Nat /\ \A q \in probes : q.seq \in Nat
    BY TraceAssumption DEF TypeInv, TypeOK, Probe, Seqs
  <2> USE DEF Numbering, NumberMeansTTL, loopVars
  <2>1. ASSUME UNCHANGED <<calls, dst, seq_number, probes>>,
               pc' \in {pc, "idle", "exited"} \/ pc \in {"loop", "recv"}
        PROVE  Numbering'
    BY <2>1
  <2>2. ASSUME NEW d \in Targets, Tracert(d) PROVE Numbering'
    <3>1. calls' = calls + 1 /\ probes' = probes
      BY <2>2 DEF Tracert
    <3>2. QED
      BY <2>0, <3>1
  <2>3. CASE SendProbe
    <3>1. /\ seq_number' = seq_number + 1 /\ calls >= 1 /\ UNCHANGED <<calls, dst>>
          /\ ttl = seq_number + 1
      BY <2>3 DEF SendProbe, TypeInv, Counters
    <3>2. CASE probes' = probes
      BY <2>0, <3>1, <3>2
    <3>3. CASE probes' = probes \cup
                {[call |-> calls, dst |-> dst, ttl |-> ttl, seq |-> seq_number]}
      <4> DEFINE new == [call |-> calls, dst |-> dst, ttl |-> ttl, seq |-> seq_number]
      <4>1. \A q \in probes' : q \in probes \/ q = new
        BY <3>3
      <4>2. \A q \in probes : ~(q.call = new.call /\ q.seq = new.seq)
        BY <2>0
      <4>3. NumberMeansTTL'
        BY <4>1, <4>2
      <4>4. \A q \in probes' :
              /\ q.call \in 1..calls /\ q.ttl = q.seq + 1
              /\ q.call = calls => q.dst = dst /\ q.seq < seq_number + 1
        BY <2>0, <3>1, <4>1
      <4>5. QED
        BY <3>1, <4>3, <4>4
    <3>4. QED
      BY <2>3, <3>2, <3>3 DEF SendProbe
  <2>4. CASE Complete \/ ReceiveFails \/ ForeignPacket \/ UNCHANGED vars
             \/ (\E q \in probes : Answer(q))
    <3>1. UNCHANGED <<calls, dst, seq_number, probes>> /\ pc' \in {pc, "idle", "exited"}
      BY <2>4 DEF Complete, ReceiveFails, ForeignPacket, Answer, Arrive, vars
    <3>2. QED
      BY <2>1, <3>1
  <2>5. CASE Receive \/ TimeOut
    <3>1. UNCHANGED <<calls, dst, seq_number, probes>> /\ pc = "recv"
      BY <2>5 DEF Receive, TimeOut
    <3>2. QED
      BY <2>1, <3>1
  <2>6. QED
    BY <2>2, <2>3, <2>4, <2>5 DEF Next
<1>3. QED
  BY <1>1, <1>2, TypeInvariant, PTL DEF Spec

(* Within a call a sequence number stands for one probe and one TTL.       *)
THEOREM NumbersMeanTTLs == Spec => []NumberMeansTTL
<1>1. Numbering => NumberMeansTTL
  BY DEF Numbering
<1>2. QED
  BY <1>1, Numbered, PTL

-----------------------------------------------------------------------------
(* What the entries of the current call have in common.                    *)
RouteShape ==
  /\ RouteEndsAtDestination
  /\ pc = "recv" => ~reach
  /\ \A i \in 1..Len(route) :
       /\ route[i].call <= calls
       /\ route[i].call = calls =>
            /\ route[i].ttl < ttl /\ route[i].dst = dst
            /\ ~reach => route[i].addr # dst

LEMMA RouteShaped == Spec => []RouteShape
<1>1. Init => RouteShape
  BY DEF Init, RouteShape, RouteEndsAtDestination
<1>2. TypeInv /\ RouteShape /\ [Next]_vars => RouteShape'
  <2> SUFFICES ASSUME TypeInv, RouteShape, [Next]_vars PROVE RouteShape'
    OBVIOUS
  <2>0. /\ calls \in Nat /\ ttl \in Nat /\ route \in Seq(Hop)
        /\ \A i \in 1..Len(route) : route[i].ttl \in Nat /\ route[i].call \in Nat
    <3>1. calls \in Nat /\ ttl \in Nat /\ route \in Seq(Hop)
      BY TraceAssumption DEF TypeInv, TypeOK
    <3>2. \A i \in 1..Len(route) : route[i] \in Hop
      BY <3>1
    <3>3. QED
      BY <3>1, <3>2, TraceAssumption DEF Hop, TTLs
  <2> USE DEF RouteShape, RouteEndsAtDestination, loopVars
  <2>1. ASSUME UNCHANGED <<calls, dst, route>>, ttl' \in {ttl, ttl + 1},
               reach' = reach, pc' = "recv" => ~reach
        PROVE  RouteShape'
    BY <2>0, <2>1
  <2>2. ASSUME NEW d \in Targets, Tracert(d) PROVE RouteShape'
    <3>1. calls' = calls + 1 /\ route' = route /\ pc' # "recv"
      BY <2>2 DEF Tracert
    <3>2. \A i \in 1..Len(route) : route[i].call < calls'
      BY <2>0, <3>1
    <3>3. QED
      BY <2>0, <3>1, <3>2
  <2>3. CASE Receive
    <3>1. pc = "recv" /\ ~reach /\ UNCHANGED <<calls, dst>>
      BY <2>3 DEF Receive
    <3>2. CASE Decodes(Head(queue))
      <4> DEFINE new == [addr |-> Head(queue).src, ttl |-> ttl, dst |-> dst,
                         call |-> calls]
      <4>1. /\ route' = Append(route, new) /\ ttl' = ttl + 1 /\ pc' = "loop"
            /\ reach' = (reach \/ Head(queue).src = dst)
        BY <2>3, <3>2 DEF Receive
      <4> HIDE DEF new
      <4>2. /\ Len(route') = Len(route) + 1 /\ route'[Len(route) + 1] = new
            /\ \A i \in 1..Len(route) : route'[i] = route[i]
            /\ \A i \in 1..Len(route') : i \in 1..Len(route) \/ i = Len(route) + 1
        BY <2>0, <4>1
      <4>3. new.ttl = ttl /\ new.dst = dst /\ new.call = calls /\ (~reach' => new.addr # dst)
        BY <3>1, <4>1 DEF new
      <4>4. RouteEndsAtDestination'
        <5> SUFFICES ASSUME NEW i \in 1..Len(route'), NEW j \in 1..Len(route'),
                            i < j, route'[i].call = route'[j].call
                     PROVE  /\ route'[i].ttl < route'[j].ttl
                            /\ route'[i].addr # route'[i].dst
          OBVIOUS
        <5>1. i \in 1..Len(route)
          BY <2>0, <4>2
        <5>2. CASE j \in 1..Len(route)
          BY <4>2, <5>1, <5>2
        <5>3. CASE j = Len(route) + 1
          BY <3>1, <4>2, <4>3, <5>1, <5>3
        <5>4. QED
          BY <4>2, <5>2, <5>3
      <4>5. ASSUME NEW i \in 1..Len(route')
            PROVE  /\ route'[i].call <= calls'
                   /\ route'[i].call = calls' =>
                        /\ route'[i].ttl < ttl' /\ route'[i].dst = dst'
                        /\ ~reach' => route'[i].addr # dst'
        <5>1. CASE i \in 1..Len(route)
          BY <2>0, <3>1, <4>1, <4>2, <5>1
        <5>2. CASE i = Len(route) + 1
          BY <2>0, <3>1, <4>1, <4>2, <4>3, <5>2
        <5>3. QED
          BY <4>2, <5>1, <5>2
      <4>6. QED
        BY <4>1, <4>4, <4>5
    <3>3. CASE ~Decodes(Head(queue))
      <4>1. UNCHANGED <<route, reach, ttl, pc>>
        BY <2>3, <3>3 DEF Receive
      <4>2. QED
        BY <2>1, <3>1, <4>1
    <3>4. QED
      BY <3>2, <3>3
  <2>4. CASE SendProbe \/ Complete \/ TimeOut \/ ReceiveFails \/ ForeignPacket
             \/ UNCHANGED vars \/ (\E q \in probes : Answer(q))
    <3>1. /\ UNCHANGED <<calls, dst, route, reach>> /\ ttl' \in {ttl, ttl + 1}
          /\ pc' = "recv" => ~reach
      BY <2>4 DEF SendProbe, Complete, TimeOut, ReceiveFails, ForeignPacket,
           Answer, Arrive, vars
    <3>2. QED
      BY <2>1, <3>1
  <2>5. QED
    BY <2>2, <2>3, <2>4 DEF Next
<1>3. QED
  BY <1>1, <1>2, TypeInvariant, PTL DEF Spec

(* Hops are listed by increasing TTL, the destination last.                *)
THEOREM RoutesEndAtDestination == Spec => []RouteEndsAtDestination
<1>1. RouteShape => RouteEndsAtDestination
  BY DEF RouteShape
<1>2. QED
  BY <1>1, RouteShaped, PTL

-----------------------------------------------------------------------------
(* A packet that carries our identifier answers a probe that went out.     *)
Ours(p) ==
  p.kind \in {"reply", "exceeded"} /\ p.id = ProcId =>
    \E q \in probes : q.seq = p.seq /\ p.src \in Answerers(q.dst, q.ttl)

(* During the first call, what the buffer still holds of an earlier packet *)
(* is not the number of the probe tracert() is waiting for.                *)
FirstCall ==
  /\ calls <= 1 =>
       /\ \A i \in 1..Len(queue) : Ours(queue[i])
       /\ leftover.id = ProcId =>
            leftover.seq < IF pc = "recv" THEN seq ELSE seq_number
  /\ \A i \in 1..Len(route) :
       route[i].call = 1 => route[i].addr \in Answerers(route[i].dst, route[i].ttl)

LEMMA FirstCallTrue == ASSUME DistinctId PROVE Spec => []FirstCall
<1>1. Init => FirstCall
  BY DEF DistinctId, Init, FirstCall, Zeros
<1>2. TypeInv /\ Numbering /\ FirstCall /\ [Next]_vars => FirstCall'
  <2> SUFFICES ASSUME TypeInv, Numbering, FirstCall, [Next]_vars
               PROVE  FirstCall'
    OBVIOUS
  <2>0. /\ calls \in Nat /\ seq_number \in Nat /\ seq \in Nat
        /\ queue \in Seq(Packet) /\ route \in Seq(Hop) /\ leftover \in Bytes
        /\ pc = "recv" => seq_number = seq + 1 /\ ttl = seq + 1
    BY TraceAssumption DEF TypeInv, TypeOK, Counters, Seqs
  <2>00. leftover.seq \in Nat
    BY <2>0 DEF Bytes, Seqs
  <2> USE DEF FirstCall, loopVars
  <2>1. ASSUME UNCHANGED <<calls, seq, seq_number, leftover, queue, probes, route>>,
               pc' = pc \/ pc' # "recv"
        PROVE  FirstCall'
    BY <2>0, <2>00, <2>1 DEF Ours
  <2>2. ASSUME NEW d \in Targets, Tracert(d) PROVE FirstCall'
    <3>1. UNCHANGED <<route, probes>> /\ calls' = calls + 1 /\ pc' # "recv"
      BY <2>2 DEF Tracert
    <3>2. CASE pc' = "loop"
      <4>1. queue' = << >> /\ leftover' = Zeros
        BY <2>2, <3>2 DEF Tracert
      <4>2. QED
        BY <3>1, <4>1 DEF DistinctId, Zeros
    <3>3. CASE pc' = "exited"
      <4>1. UNCHANGED <<queue, leftover, seq_number>> /\ pc = "idle"
        BY <2>2, <3>3 DEF Tracert
      <4>2. QED
        BY <2>0, <3>1, <3>3, <4>1 DEF Ours
    <3>4. QED
      BY <2>2, <3>2, <3>3 DEF Tracert
  <2>3. CASE SendProbe
    <3>1. /\ pc = "loop" /\ UNCHANGED <<calls, leftover, queue, route>>
          /\ seq' = seq_number /\ seq_number' = seq_number + 1
          /\ probes \subseteq probes'
      BY <2>3 DEF SendProbe
    <3>2. \A p : Ours(p) => Ours(p)'
      BY <3>1 DEF Ours
    <3>3. QED
      BY <2>0, <2>00, <3>1, <3>2
  <2>4. CASE Receive
    <3> DEFINE p == Head(queue)
    <3>1. /\ pc = "recv" /\ queue' = Tail(queue) /\ leftover' \in Leaves(p)
          /\ UNCHANGED <<calls, dst, seq, seq_number, probes>>
          /\ queue # << >>
      BY <2>4 DEF Receive
    <3>2. /\ p \in Packet
          /\ calls <= 1 => Ours(p) /\ \A i \in 1..Len(queue') : Ours(queue'[i])
      BY <2>0, <3>1
    <3>3. p.seq \in Nat /\ p.id \in Nat
      BY <3>2 DEF Packet, Seqs
    <3> HIDE DEF p
    <3>4. ASSUME calls <= 1, p.kind \in {"reply", "exceeded"}, p.id = ProcId
          PROVE  /\ p.seq <= seq
                 /\ p.seq = seq => p.src \in Answerers(dst, ttl)
      <4>1. PICK q \in probes : q.seq = p.seq /\ p.src \in Answerers(q.dst, q.ttl)
        BY <3>2, <3>4 DEF Ours
      <4>2. q.call = calls /\ q.ttl = q.seq + 1
        BY <2>0, <3>4 DEF Numbering
      <4>3. q.dst = dst /\ q.seq < seq_number
        BY <4>2 DEF Numbering
      <4>4. QED
        BY <2>0, <3>1, <3>3, <4>1, <4>2, <4>3
    <3>5. CASE Decodes(p)
      <4> DEFINE new == [addr |-> p.src, ttl |-> ttl, dst |-> dst, call |-> calls]
      <4>1. route' = Append(route, new) /\ pc' = "loop"
        BY <2>4, <3>5 DEF Receive, p
      <4>2. calls = 1 => p.src \in Answerers(dst, ttl)
        <5>1. CASE p.kind \in {"reply", "exceeded"}
          BY <3>4, <3>5, <5>1 DEF Decodes, Carried
        <5>2. CASE p.kind = "cut"
          BY <2>0, <2>00, <3>1, <3>5, <5>2 DEF Decodes, Carried
        <5>3. QED
          BY <3>2, <3>5, <5>1, <5>2 DEF Decodes, Packet, Kinds
      <4>3. new.call = calls /\ new.addr = p.src /\ new.dst = dst /\ new.ttl = ttl
        OBVIOUS
      <4> HIDE DEF new
      <4>4. ASSUME NEW i \in 1..Len(route'), route'[i].call = 1
            PROVE  route'[i].addr \in Answerers(route'[i].dst, route'[i].ttl)
        <5>1. CASE i \in 1..Len(route)
          BY <2>0, <4>1, <4>4, <5>1
        <5>2. CASE i = Len(route) + 1
          BY <2>0, <4>1, <4>2, <4>3, <4>4, <5>2
        <5>3. QED
          BY <2>0, <4>1, <5>1, <5>2
      <4>5. calls <= 1 /\ leftover'.id = ProcId => leftover'.seq < seq_number
        BY <2>0, <2>00, <3>1, <3>3, <3>4, TraceAssumption DEF Leaves, Payload, NoId
      <4>6. QED
        BY <3>1, <3>2, <4>1, <4>4, <4>5 DEF Ours
    <3>6. CASE ~Decodes(p)
      <4>1. UNCHANGED <<route, pc>>
        BY <2>4, <3>6 DEF Receive, p
      <4>2. ASSUME calls <= 1, leftover'.id = ProcId PROVE leftover'.seq < seq
        <5>1. CASE p.kind = "exceeded"
          <6>1. leftover'.seq = p.seq /\ leftover'.id = p.id
            BY <3>1, <5>1 DEF Leaves
          <6>2. p.seq # seq
            BY <3>6, <4>2, <5>1, <6>1 DEF Decodes, Carried
          <6>3. QED
            BY <2>0, <3>3, <3>4, <4>2, <5>1, <6>1, <6>2
        <5>2. CASE p.kind # "exceeded"
          <6>1. leftover' = leftover
            BY <3>1, <4>2, <5>2, TraceAssumption DEF Leaves, Payload, NoId
          <6>2. QED
            BY <3>1, <4>2, <6>1
        <5>3. QED
          BY <5>1, <5>2
      <4>3. QED
        BY <3>1, <3>2, <4>1, <4>2 DEF Ours
    <3>7. QED
      BY <3>5, <3>6
  <2>5. CASE Complete \/ TimeOut \/ ReceiveFails \/ UNCHANGED vars
    <3>1. /\ UNCHANGED <<calls, seq, seq_number, leftover, queue, probes, route>>
          /\ pc' = pc \/ pc' # "recv"
      BY <2>5 DEF Complete, TimeOut, ReceiveFails, vars
    <3>2. QED
      BY <2>1, <3>1
  <2>6. CASE ForeignPacket \/ \E q \in probes : Answer(q)
    <3>1. PICK p : Arrive(p) /\ Ours(p)
      <4>1. ASSUME NEW q \in probes, Answer(q) PROVE \E p : Arrive(p) /\ Ours(p)
        <5>1. PICK a \in Answerers(q.dst, q.ttl) :
                Arrive([kind |-> IF q.ttl < Distance[q.dst] THEN "exceeded" ELSE "reply",
                        id |-> ProcId, seq |-> q.seq, src |-> a])
          BY <4>1 DEF Answer
        <5>2. Ours([kind |-> IF q.ttl < Distance[q.dst] THEN "exceeded" ELSE "reply",
                    id |-> ProcId, seq |-> q.seq, src |-> a])
          BY DEF Ours
        <5>3. QED
          BY <5>1, <5>2
      <4>2. CASE ForeignPacket
        <5>1. PICK a \in ForeignSources :
                \/ \E k \in {"reply", "exceeded"}, i \in ForeignIds, n \in Seqs :
                     Arrive([kind |-> k, id |-> i, seq |-> n, src |-> a])
                \/ \E k \in {"cut", "other"} :
                     Arrive([kind |-> k, id |-> 0, seq |-> 0, src |-> a])
          BY <4>2 DEF ForeignPacket
        <5>2. \A k \in {"reply", "exceeded"}, i \in ForeignIds, n \in Seqs :
                Ours([kind |-> k, id |-> i, seq |-> n, src |-> a])
          BY DEF Ours, DistinctId
        <5>3. \A k \in {"cut", "other"} :
                Ours([kind |-> k, id |-> 0, seq |-> 0, src |-> a])
          BY DEF Ours
        <5>4. QED
          BY <5>1, <5>2, <5>3
      <4>3. QED
        BY <2>6, <4>1, <4>2
    <3>2. /\ queue' = Append(queue, p)
          /\ UNCHANGED <<pc, calls, seq, seq_number, leftover, probes, route>>
      BY <3>1 DEF Arrive
    <3>3. ASSUME calls <= 1, NEW i \in 1..Len(queue') PROVE Ours(queue'[i])
      <4>1. CASE i \in 1..Len(queue)
        BY <2>0, <3>2, <3>3, <4>1
      <4>2. CASE i = Len(queue) + 1
        BY <2>0, <3>1, <3>2, <4>2
      <4>3. QED
        BY <2>0, <3>2, <4>1, <4>2
    <3>4. QED
      BY <3>2, <3>3 DEF Ours
  <2>7. QED
    BY <2>2, <2>3, <2>4, <2>5, <2>6 DEF Next
<1>3. QED
  BY <1>1, <1>2, TypeInvariant, Numbered, PTL DEF Spec

(* In the first call every listed hop answers at the TTL it is listed for. *)
THEOREM FirstRouteIsTrue == Spec => []FirstRouteTrue
<1>1. CASE DistinctId
  <2>1. FirstCall => FirstRouteTrue
    BY DEF FirstCall, FirstRouteTrue
  <2>2. QED
    BY <1>1, <2>1, FirstCallTrue, PTL
<1>2. CASE ~DistinctId
  <2>1. FirstRouteTrue
    BY <1>2 DEF FirstRouteTrue
  <2>2. QED
    BY <2>1, PTL
<1>3. QED
  BY <1>1, <1>2
=============================================================================
