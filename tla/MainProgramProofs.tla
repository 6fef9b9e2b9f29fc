-------------------------- MODULE MainProgramProofs --------------------------
(***************************************************************************)
(* Theorems about main(), for every network, every way addresses are       *)
(* written without a dash, and every route.                                *)
(***************************************************************************)
EXTENDS MainProgram, TraceRouteProofs

(* main() runs the tracer: a trace is never disturbed by what main() does. *)
THEOREM MainRunsTracer == MainSpec => Spec
<1>1. MainInit => Init
  BY DEF MainInit
<1>2. [MainNext]_mainVars => [Next]_vars
  <2> SUFFICES ASSUME [MainNext]_mainVars PROVE [Next]_vars
    OBVIOUS
  <2>1. CASE CallTracert
    BY <2>1 DEF CallTracert, Next
  <2>2. CASE TracertStep
    BY <2>2 DEF TracertStep, Traced, Next
  <2>3. CASE Network
    BY <2>3 DEF Network, Traced, Next
  <2>4. CASE Join \/ SplitStep \/ PrintHosts \/ UNCHANGED mainVars
    BY <2>4 DEF Join, SplitStep, PrintHosts, mainVars
  <2> QED
    BY <2>1, <2>2, <2>3, <2>4 DEF MainNext
<1> QED
  BY <1>1, <1>2, PTL DEF MainSpec, Spec

(* So what holds of every trace holds of the one main() makes.             *)
THEOREM MainTracesTruly ==
  MainSpec => [](TypeOK /\ NumberMeansTTL /\ FirstRouteTrue /\ RouteEndsAtDestination)
  BY MainRunsTracer, TypeCorrect, NumbersMeanTTLs, FirstRouteIsTrue,
     RoutesEndAtDestination, PTL
-----------------------------------------------------------------------------
(* The text t is made of the words w, each with a dash behind it: word n   *)
(* begins behind index off[n].                                             *)
LaidOut(t, w, off) ==
  /\ off \in [1..Len(w) + 1 -> 0..Len(t)]
  /\ off[1] = 0 /\ off[Len(w) + 1] = Len(t)
  /\ \A n \in 1..Len(w) :
       /\ off[n + 1] = off[n] + Len(w[n]) + 1
       /\ t[off[n + 1]] = Dash
       /\ \A c \in 1..Len(w[n]) : t[off[n] + c] = w[n][c]

Texts == Seq(Char)

(* What a word and its dash take up lies within the text.                  *)
LEMMA WithinText ==
  ASSUME NEW b \in Nat, NEW len \in Nat, NEW top \in Nat, NEW e \in 0..top,
         e = b + len + 1
  PROVE  e \in 1..top /\ \A c \in 1..len : b + c \in 1..top
OBVIOUS

(* A word and its dash go to the end of a text.                            *)
LEMMA WordAppended ==
  ASSUME NEW t \in Texts, NEW w \in Seq(Texts), NEW off, LaidOut(t, w, off),
         NEW x \in Texts
  PROVE  \E o : LaidOut(t \o x \o <<Dash>>, Append(w, x), o)
<1> DEFINE tt == t \o x \o <<Dash>>
           ww == Append(w, x)
<1>1. Len(t) \in Nat /\ Len(x) \in Nat /\ Len(w) \in Nat
  BY DEF Texts
<1>2. /\ Len(tt) = Len(t) + Len(x) + 1
      /\ tt[Len(t) + Len(x) + 1] = Dash
      /\ \A c \in 1..Len(t) : tt[c] = t[c]
      /\ \A c \in 1..Len(x) : tt[Len(t) + c] = x[c]
  <2>1. <<Dash>> \in Texts /\ Len(<<Dash>>) = 1 /\ <<Dash>>[1] = Dash
    BY DEF Texts, Char
  <2>2. /\ t \o x \in Texts /\ Len(t \o x) = Len(t) + Len(x)
        /\ \A c \in 1..Len(t) : (t \o x)[c] = t[c]
        /\ \A c \in 1..Len(x) : (t \o x)[Len(t) + c] = x[c]
    BY <1>1 DEF Texts
  <2> QED
    BY <1>1, <2>1, <2>2 DEF Texts
<1>3. /\ Len(ww) = Len(w) + 1 /\ ww[Len(w) + 1] = x
      /\ \A n \in 1..Len(w) : ww[n] = w[n]
  BY <1>1
<1>4. PICK o : o = [n \in 1..Len(w) + 2 |-> IF n <= Len(w) + 1 THEN off[n] ELSE Len(tt)]
  OBVIOUS
<1>5. /\ DOMAIN o = 1..Len(w) + 2 /\ o = [n \in DOMAIN o |-> o[n]]
      /\ \A n \in 1..Len(w) + 1 : o[n] = off[n]
      /\ o[Len(w) + 2] = Len(tt)
  BY <1>1, <1>4
<1> HIDE DEF tt, ww
<1>6. /\ \A n \in 1..Len(w) + 1 : off[n] \in 0..Len(t)
      /\ off[1] = 0 /\ off[Len(w) + 1] = Len(t)
      /\ \A n \in 1..Len(w) :
           /\ off[n + 1] = off[n] + Len(w[n]) + 1
           /\ t[off[n + 1]] = Dash
           /\ \A c \in 1..Len(w[n]) : t[off[n] + c] = w[n][c]
  BY DEF LaidOut
<1>7. \A n \in 1..Len(w) : Len(w[n]) \in Nat
  BY DEF Texts
<1>8. o \in [1..Len(ww) + 1 -> 0..Len(tt)] /\ o[1] = 0 /\ o[Len(ww) + 1] = Len(tt)
  <2>1. \A n \in 1..Len(w) + 2 : o[n] \in 0..Len(tt)
    BY <1>1, <1>2, <1>5, <1>6
  <2>2. 1 \in 1..Len(w) + 1 /\ Len(ww) + 1 = Len(w) + 2
    BY <1>1, <1>3
  <2>3. o \in [1..Len(ww) + 1 -> 0..Len(tt)]
    BY <1>5, <2>1, <2>2
  <2> QED
    BY <1>5, <1>6, <2>2, <2>3
<1>9. ASSUME NEW n \in 1..Len(ww)
      PROVE  /\ o[n + 1] = o[n] + Len(ww[n]) + 1
             /\ tt[o[n + 1]] = Dash
             /\ \A c \in 1..Len(ww[n]) : tt[o[n] + c] = ww[n][c]
  <2>1. CASE n \in 1..Len(w)
    <3>1. o[n] = off[n] /\ o[n + 1] = off[n + 1] /\ ww[n] = w[n]
      BY <1>1, <1>3, <1>5, <2>1
    <3>2. off[n + 1] = off[n] + Len(w[n]) + 1 /\ Len(w[n]) \in Nat
      BY <1>6, <1>7, <2>1
    <3>3. off[n] \in Nat /\ off[n + 1] \in 0..Len(t)
      BY <1>1, <1>6, <2>1
    <3>4. off[n + 1] \in 1..Len(t) /\ \A c \in 1..Len(w[n]) : off[n] + c \in 1..Len(t)
      BY <1>1, <3>2, <3>3, WithinText
    <3>5. tt[o[n + 1]] = Dash
      BY <1>2, <1>6, <2>1, <3>1, <3>4
    <3>6. ASSUME NEW c \in 1..Len(w[n]) PROVE tt[o[n] + c] = w[n][c]
      <4>1. off[n] + c \in 1..Len(t)
        BY <3>4
      <4>2. tt[off[n] + c] = t[off[n] + c]
        BY <1>2, <4>1
      <4>3. t[off[n] + c] = w[n][c]
        BY <1>6, <2>1
      <4> QED
        BY <3>1, <4>2, <4>3
    <3> QED
      BY <3>1, <3>2, <3>5, <3>6
  <2>2. CASE n = Len(w) + 1
    <3>1. Len(w) + 1 \in 1..Len(w) + 1 /\ n + 1 = Len(w) + 2
      BY <1>1, <2>2
    <3>2. o[n] = Len(t) /\ o[n + 1] = Len(tt) /\ ww[n] = x
      BY <1>3, <1>5, <1>6, <2>2, <3>1
    <3> QED
      BY <1>1, <1>2, <3>2
  <2> QED
    BY <1>1, <1>3, <2>1, <2>2
<1> QED
  <2>1. LaidOut(tt, ww, o)
    BY <1>8, <1>9 DEF LaidOut
  <2> QED
    BY <2>1 DEF tt, ww

(* A word and its dash go in front of a text.                              *)
LEMMA WordPrepended ==
  ASSUME NEW t \in Texts, NEW w \in Seq(Texts), NEW off, LaidOut(t, w, off),
         NEW x \in Texts
  PROVE  \E o : LaidOut(x \o <<Dash>> \o t, <<x>> \o w, o)
<1> DEFINE tt == x \o <<Dash>> \o t
           ww == <<x>> \o w
<1>1. Len(t) \in Nat /\ Len(x) \in Nat /\ Len(w) \in Nat
  BY DEF Texts
<1>2. /\ Len(tt) = Len(x) + 1 + Len(t)
      /\ tt[Len(x) + 1] = Dash
      /\ \A c \in 1..Len(x) : tt[c] = x[c]
      /\ \A c \in 1..Len(t) : tt[Len(x) + 1 + c] = t[c]
  <2>1. <<Dash>> \in Texts /\ Len(<<Dash>>) = 1 /\ <<Dash>>[1] = Dash
    BY DEF Texts, Char
  <2>2. /\ x \o <<Dash>> \in Texts /\ Len(x \o <<Dash>>) = Len(x) + 1
        /\ \A c \in 1..Len(x) : (x \o <<Dash>>)[c] = x[c]
        /\ (x \o <<Dash>>)[Len(x) + 1] = Dash
    BY <1>1, <2>1 DEF Texts
  <2> QED
    BY <1>1, <2>2 DEF Texts
<1>3. /\ Len(ww) = Len(w) + 1 /\ ww[1] = x
      /\ \A n \in 1..Len(w) : ww[n + 1] = w[n]
  BY <1>1
<1>4. PICK o : o = [n \in 1..Len(w) + 2 |-> IF n = 1 THEN 0 ELSE Len(x) + 1 + off[n - 1]]
  OBVIOUS
<1>5. /\ DOMAIN o = 1..Len(w) + 2 /\ o = [n \in DOMAIN o |-> o[n]] /\ o[1] = 0
      /\ \A n \in 1..Len(w) + 1 : o[n + 1] = Len(x) + 1 + off[n]
  <2>1. ASSUME NEW n \in 1..Len(w) + 1 PROVE o[n + 1] = Len(x) + 1 + off[n]
    <3>1. n + 1 \in 1..Len(w) + 2 /\ n + 1 # 1 /\ (n + 1) - 1 = n
      BY <1>1
    <3> QED
      BY <1>4, <3>1
  <2> QED
    BY <1>1, <1>4, <2>1
<1> HIDE DEF tt, ww
<1>6. /\ \A n \in 1..Len(w) + 1 : off[n] \in 0..Len(t)
      /\ off[1] = 0 /\ off[Len(w) + 1] = Len(t)
      /\ \A n \in 1..Len(w) :
           /\ off[n + 1] = off[n] + Len(w[n]) + 1
           /\ t[off[n + 1]] = Dash
           /\ \A c \in 1..Len(w[n]) : t[off[n] + c] = w[n][c]
  BY DEF LaidOut
<1>7. \A n \in 1..Len(w) : Len(w[n]) \in Nat
  BY DEF Texts
<1>8. o \in [1..Len(ww) + 1 -> 0..Len(tt)] /\ o[1] = 0 /\ o[Len(ww) + 1] = Len(tt)
  <2>1. ASSUME NEW n \in 1..Len(w) + 2 PROVE o[n] \in 0..Len(tt)
    <3>1. CASE n = 1
      BY <1>1, <1>2, <1>5, <3>1
    <3>2. CASE n # 1
      <4>1. n - 1 \in 1..Len(w) + 1 /\ (n - 1) + 1 = n
        BY <1>1, <3>2
      <4>2. o[n] = Len(x) + 1 + off[n - 1] /\ off[n - 1] \in 0..Len(t)
        BY <1>5, <1>6, <4>1
      <4> QED
        BY <1>1, <1>2, <4>2
    <3> QED
      BY <3>1, <3>2
  <2>2. o[Len(w) + 2] = Len(tt)
    <3>1. Len(w) + 1 \in 1..Len(w) + 1 /\ (Len(w) + 1) + 1 = Len(w) + 2
      BY <1>1
    <3> QED
      BY <1>1, <1>2, <1>5, <1>6, <3>1
  <2> QED
    BY <1>1, <1>3, <1>5, <2>1, <2>2
<1>9. ASSUME NEW n \in 1..Len(ww)
      PROVE  /\ o[n + 1] = o[n] + Len(ww[n]) + 1
             /\ tt[o[n + 1]] = Dash
             /\ \A c \in 1..Len(ww[n]) : tt[o[n] + c] = ww[n][c]
  <2>1. CASE n = 1
    <3>1. o[2] = Len(x) + 1 + off[1]
      <4>1. 1 \in 1..Len(w) + 1 /\ 1 + 1 = 2
        BY <1>1
      <4> QED
        BY <1>5, <4>1
    <3>2. o[n] = 0 /\ o[n + 1] = Len(x) + 1 /\ ww[n] = x
      BY <1>1, <1>3, <1>5, <1>6, <2>1, <3>1
    <3> QED
      BY <1>1, <1>2, <3>2
  <2>2. CASE n # 1
    <3>1. PICK m \in 1..Len(w) : n = m + 1
      <4>1. n - 1 \in 1..Len(w) /\ n = (n - 1) + 1
        BY <1>1, <1>3, <2>2
      <4> QED
        BY <4>1
    <3>2. o[n] = Len(x) + 1 + off[m] /\ o[n + 1] = Len(x) + 1 + off[m + 1] /\ ww[n] = w[m]
      <4>1. m \in 1..Len(w) + 1 /\ n \in 1..Len(w) + 1
        BY <1>1, <3>1
      <4> QED
        BY <1>3, <1>5, <3>1, <4>1
    <3>3. off[m + 1] = off[m] + Len(w[m]) + 1 /\ Len(w[m]) \in Nat
      BY <1>6, <1>7
    <3>4. off[m] \in Nat /\ off[m + 1] \in 0..Len(t)
      BY <1>1, <1>6
    <3>5. /\ off[m + 1] \in 1..Len(t)
          /\ \A c \in 1..Len(w[m]) : off[m] + c \in 1..Len(t)
      BY <1>1, <3>3, <3>4, WithinText
    <3>6. o[n + 1] = o[n] + Len(ww[n]) + 1
      <4>1. \A b, len \in Nat : Len(x) + 1 + (b + len + 1) = Len(x) + 1 + b + len + 1
        BY <1>1
      <4> QED
        BY <3>2, <3>3, <3>4, <4>1
    <3>7. tt[o[n + 1]] = Dash
      BY <1>2, <1>6, <3>2, <3>5
    <3>8. ASSUME NEW c \in 1..Len(ww[n]) PROVE tt[o[n] + c] = ww[n][c]
      <4>1. c \in 1..Len(w[m]) /\ o[n] + c = Len(x) + 1 + (off[m] + c)
        BY <1>1, <3>2, <3>3, <3>4
      <4>2. tt[Len(x) + 1 + (off[m] + c)] = t[off[m] + c]
        BY <1>2, <3>5, <4>1
      <4>3. t[off[m] + c] = w[m][c]
        BY <1>6, <4>1
      <4> QED
        BY <3>2, <4>1, <4>2, <4>3
    <3> QED
      BY <3>6, <3>7, <3>8
  <2> QED
    BY <2>1, <2>2
<1> QED
  <2>1. LaidOut(tt, ww, o)
    BY <1>8, <1>9 DEF LaidOut
  <2> QED
    BY <2>1 DEF tt, ww
(* The word that a text holds behind index b is what cutting there yields. *)
LEMMA WordCut ==
  ASSUME NEW t \in Seq(Char), NEW w \in Seq(Char), NEW b \in Nat,
         b + Len(w) <= Len(t), \A c \in 1..Len(w) : t[b + c] = w[c]
  PROVE  SubSeq(t, b + 1, b + Len(w)) = w
<1>1. PICK len \in Nat : len = Len(w)
  OBVIOUS
<1>2. PICK u : u = SubSeq(t, b + 1, b + len)
  OBVIOUS
<1>3. u \in Seq(Char) /\ Len(u) = len
  BY <1>1, <1>2
<1>4. \A c \in 1..len : u[c] = t[b + c]
  BY <1>1, <1>2
<1>5. u = w
  BY <1>1, <1>3, <1>4
<1> QED
  BY <1>1, <1>2, <1>5

-----------------------------------------------------------------------------
HopTexts == [n \in 1..Len(route) |-> Text[route[n].addr]]
Printed  == <<Text[myIP]>> \o HopTexts

(* split() has cut the words up to Len(v) and is behind the last of them,  *)
(* or at the beginning of the next one, or within it.                      *)
CutAlong(off) ==
  /\ v \in Seq([from : Nat, to : Nat]) /\ Len(v) <= Len(Printed)
  /\ \A n \in 1..Len(v) : v[n].from = off[n] /\ v[n].to = off[n + 1] - 1
  /\ i \in Nat /\ j \in Nat
  /\ spc = "skip" => i = off[Len(v) + 1] \/ (Len(v) > 0 /\ i = off[Len(v) + 1] - 1)
  /\ spc = "scan" => /\ Len(v) < Len(Printed)
                     /\ i = off[Len(v) + 1] /\ j \in i..off[Len(v) + 2] - 1
  /\ spc = "done" => Len(v) = Len(Printed)

SplitAlong == a \in Texts /\ \E off : LaidOut(a, Printed, off) /\ CutAlong(off)

MainInv ==
  /\ myIP \in MyHosts
  /\ routeText \in Texts /\ \E off : LaidOut(routeText, HopTexts, off)
  /\ at \in {"start", "trace"} => spc = "skip" /\ i = 0 /\ j = 0 /\ v = << >>
  /\ at \in {"split", "done"} => SplitAlong
  /\ at = "done" => spc = "done"

LEMMA PrintedType ==
  ASSUME TypeOK, myIP \in MyHosts
  PROVE  /\ HopTexts \in Seq(Texts) /\ Len(HopTexts) = Len(route) /\ Len(route) \in Nat
         /\ Printed \in Seq(Texts) /\ Len(Printed) = Len(route) + 1
         /\ Text[myIP] \in Texts
         /\ \A n \in 1..Len(Printed) :
              /\ Printed[n] = Text[IF n = 1 THEN myIP ELSE route[n - 1].addr]
              /\ Len(Printed[n]) \in Nat \ {0}
              /\ \A c \in 1..Len(Printed[n]) : Printed[n][c] # Dash
<1>1. route \in Seq(Hop) /\ Len(route) \in Nat
  BY DEF TypeOK
<1>2. \A n \in 1..Len(route) : route[n].addr \in Hosts
  <2>1. \A n \in 1..Len(route) : route[n] \in Hop
    BY <1>1
  <2> QED
    BY <2>1 DEF Hop
<1>3. ASSUME NEW h \in Hosts
      PROVE  /\ Text[h] \in Texts /\ Len(Text[h]) \in Nat \ {0}
             /\ \A c \in 1..Len(Text[h]) : Text[h][c] # Dash
  BY MainAssumption DEF Texts
<1>4. myIP \in Hosts
  BY MainAssumption
<1>5. HopTexts \in Seq(Texts) /\ Len(HopTexts) = Len(route)
  BY <1>1, <1>2, <1>3 DEF HopTexts
<1>6. \A n \in 1..Len(route) : HopTexts[n] = Text[route[n].addr]
  BY DEF HopTexts
<1> HIDE DEF HopTexts
<1>7. Printed \in Seq(Texts) /\ Len(Printed) = Len(route) + 1
  BY <1>1, <1>3, <1>4, <1>5 DEF Printed
<1>8. ASSUME NEW n \in 1..Len(Printed)
      PROVE  \E h \in Hosts : /\ h = IF n = 1 THEN myIP ELSE route[n - 1].addr
                              /\ Printed[n] = Text[h]
  <2>1. CASE n = 1
    BY <1>1, <1>3, <1>4, <1>5, <2>1 DEF Printed
  <2>2. CASE n # 1
    <3>1. n - 1 \in 1..Len(route) /\ Printed[n] = HopTexts[n - 1]
      BY <1>1, <1>3, <1>4, <1>5, <1>7, <2>2 DEF Printed
    <3> QED
      BY <1>2, <1>6, <2>2, <3>1
  <2> QED
    BY <2>1, <2>2
<1> QED
  BY <1>1, <1>3, <1>4, <1>5, <1>7, <1>8

(* A step of the tracer adds at most one hop to the route.                 *)
LEMMA RouteGrows ==
  ASSUME TypeInv, [Next]_vars
  PROVE  route' = route \/ \E h \in Hop : route' = Append(route, h)
<1>1. CASE Receive
  <2>1. pc = "recv" /\ queue \in Seq(Packet) /\ queue # << >> /\ calls \in Nat /\ dst \in Targets
    BY <1>1 DEF Receive, TypeInv, TypeOK
  <2>2. Head(queue).src \in Hosts
    <3>1. Head(queue) \in Packet
      BY <2>1
    <3> QED
      BY <3>1 DEF Packet
  <2>3. ttl \in TTLs
    BY <2>1, TraceAssumption DEF TypeInv, TypeOK, Counters, TTLs, Seqs
  <2>4. [addr |-> Head(queue).src, ttl |-> ttl, dst |-> dst, call |-> calls] \in Hop
    BY <2>1, <2>2, <2>3 DEF Hop
  <2> QED
    BY <1>1, <2>4 DEF Receive
<1>2. CASE ~Receive
  BY <1>2 DEF Next, Tracert, SendProbe, Complete, TimeOut, ReceiveFails, Answer,
       ForeignPacket, Arrive, vars
<1> QED
  BY <1>1, <1>2

LEMMA TracedKeepsText ==
  ASSUME TypeInv, TypeOK', MainInv, at = "trace", [Next]_vars,
         routeText' = IF route' = route THEN routeText
                      ELSE routeText \o Text[route'[Len(route')].addr] \o <<Dash>>,
         UNCHANGED <<at, myIP, splitVars>>
  PROVE  MainInv'
<1>1. routeText' \in Texts /\ \E off : LaidOut(routeText', HopTexts', off)
  <2>1. CASE route' = route
    BY <2>1 DEF MainInv, HopTexts
  <2>2. CASE route' # route
    <3>1. PICK h \in Hop : route' = Append(route, h)
      BY <2>2, RouteGrows
    <3>2. route \in Seq(Hop) /\ Len(route) \in Nat
      BY DEF TypeInv, TypeOK
    <3>3. Text[h.addr] \in Texts
      BY MainAssumption DEF Hop, Texts
    <3>4. /\ Len(route') = Len(route) + 1 /\ route'[Len(route')] = h
          /\ \A n \in 1..Len(route) : route'[n] = route[n]
      BY <3>1, <3>2
    <3>5. HopTexts \in Seq(Texts) /\ Len(HopTexts) = Len(route)
      BY PrintedType DEF TypeInv, MainInv
    <3>6. HopTexts' = Append(HopTexts, Text[h.addr])
      <4>1. /\ HopTexts' = [n \in 1..Len(route) + 1 |-> Text[route'[n].addr]]
            /\ \A n \in 1..Len(route) : HopTexts[n] = Text[route[n].addr]
        BY <3>4 DEF HopTexts
      <4>2. \A n \in 1..Len(route) + 1 :
              HopTexts'[n] = IF n = Len(route) + 1 THEN Text[h.addr] ELSE HopTexts[n]
        BY <3>2, <3>4, <4>1
      <4> QED
        BY <3>2, <3>5, <4>1, <4>2
    <3>7. routeText' = routeText \o Text[h.addr] \o <<Dash>>
      BY <2>2, <3>4
    <3>8. routeText \in Texts
      BY DEF MainInv
    <3>9. PICK off : LaidOut(routeText, HopTexts, off)
      BY DEF MainInv
    <3>10. \E o : LaidOut(routeText', HopTexts', o)
      BY <3>3, <3>5, <3>6, <3>7, <3>8, <3>9, WordAppended
    <3>11. routeText' \in Texts
      <4>1. <<Dash>> \in Texts
        BY DEF Texts, Char
      <4>2. \A x, y \in Texts : x \o y \in Texts
        BY DEF Texts
      <4>3. routeText \o Text[h.addr] \in Texts
        BY <3>3, <3>8, <4>2
      <4> QED
        BY <3>7, <4>1, <4>2, <4>3
    <3> QED
      BY <3>10, <3>11
  <2> QED
    BY <2>1, <2>2
<1> QED
  BY <1>1 DEF MainInv, splitVars
LEMMA JoinInv ==
  ASSUME TypeInv, MainInv, Join
  PROVE  MainInv'
<1>1. /\ UNCHANGED <<myIP, routeText, route, spc, i, j, v>> /\ at = "trace"
      /\ HopTexts' = HopTexts /\ Printed' = Printed
  BY DEF Join, vars, HopTexts, Printed
<1>2. CASE at' = "crashed"
  BY <1>1, <1>2 DEF MainInv
<1>3. CASE at' = "split"
  <2>1. a' = Text[myIP] \o <<Dash>> \o routeText
    BY <1>3 DEF Join
  <2>2. /\ Text[myIP] \in Texts /\ HopTexts \in Seq(Texts) /\ routeText \in Texts
        /\ Len(Printed) \in Nat /\ Len(Printed) >= 1
    BY PrintedType DEF TypeInv, MainInv
  <2>3. PICK off : LaidOut(routeText, HopTexts, off)
    BY DEF MainInv
  <2>4. PICK o : LaidOut(a', Printed, o)
    BY <2>1, <2>2, <2>3, WordPrepended DEF Printed
  <2>5. a' \in Texts
    <3>1. <<Dash>> \in Texts
      BY DEF Texts, Char
    <3>2. \A x, y \in Texts : x \o y \in Texts
      BY DEF Texts
    <3>3. Text[myIP] \o <<Dash>> \in Texts
      BY <2>2, <3>1, <3>2
    <3> QED
      BY <2>1, <2>2, <3>2, <3>3
  <2>6. spc' = "skip" /\ i' = 0 /\ j' = 0 /\ v' = << >>
    BY <1>1 DEF MainInv
  <2>7. o[1] = 0
    BY <2>4 DEF LaidOut
  <2>8. CutAlong(o)'
    <3>1. << >> \in Seq([from : Nat, to : Nat]) /\ Len(<< >>) = 0
      OBVIOUS
    <3> QED
      BY <1>1, <2>2, <2>6, <2>7, <3>1 DEF CutAlong
  <2>9. SplitAlong'
    BY <1>1, <2>4, <2>5, <2>8 DEF SplitAlong
  <2> QED
    BY <1>1, <1>3, <2>9 DEF MainInv
<1> QED
  BY <1>2, <1>3 DEF Join

(* split() cuts exactly the words, whichever step it takes.                *)
LEMMA SplitStepInv ==
  ASSUME TypeInv, MainInv, SplitStep
  PROVE  MainInv'
<1>1. /\ UNCHANGED <<at, myIP, routeText, route, a>> /\ at = "split"
      /\ HopTexts' = HopTexts /\ Printed' = Printed
  BY DEF SplitStep, vars, HopTexts, Printed, Splitter!SplitNext, Splitter!Skip,
     Splitter!Start, Splitter!Scan, Splitter!Cut, Splitter!Finish
<1>2. PICK off : a \in Texts /\ LaidOut(a, Printed, off) /\ CutAlong(off)
  BY <1>1 DEF MainInv, SplitAlong
<1> DEFINE m == Len(Printed)
<1>4. /\ m \in Nat /\ Len(a) \in Nat
      /\ \A n \in 1..m : /\ Len(Printed[n]) \in Nat \ {0}
                         /\ \A c \in 1..Len(Printed[n]) : Printed[n][c] # Dash
  <2>1. TypeOK /\ myIP \in MyHosts
    BY DEF TypeInv, MainInv
  <2>2. m \in Nat
    <3>1. Printed \in Seq(Texts)
      BY <2>1, PrintedType
    <3> QED
      BY <3>1
  <2>3. Len(a) \in Nat
    BY <1>2 DEF Texts
  <2> QED
    BY <2>1, <2>2, <2>3, PrintedType
<1>5. /\ \A n \in 1..m + 1 : off[n] \in 0..Len(a)
      /\ off[m + 1] = Len(a)
      /\ \A n \in 1..m :
           /\ off[n + 1] = off[n] + Len(Printed[n]) + 1
           /\ a[off[n + 1]] = Dash
           /\ \A c \in 1..Len(Printed[n]) : a[off[n] + c] = Printed[n][c]
  BY <1>2 DEF LaidOut
<1>6. PICK n \in 0..m :
        /\ n = Len(v) /\ i \in Nat /\ j \in Nat
        /\ \A l \in 1..n : v[l].from = off[l] /\ v[l].to = off[l + 1] - 1
        /\ v \in Seq([from : Nat, to : Nat])
        /\ spc = "skip" => i = off[n + 1] \/ (n > 0 /\ i = off[n + 1] - 1)
        /\ spc = "scan" => n < m /\ i = off[n + 1] /\ j \in i..off[n + 2] - 1
  <2>1. Len(v) \in Nat /\ Len(v) <= m
    BY <1>2 DEF CutAlong
  <2> QED
    BY <1>2, <1>4, <2>1 DEF CutAlong
(* The characters around the next word.                                    *)
<1>7. n > 0 => /\ off[n + 1] \in 1..Len(a) /\ a[off[n + 1]] = Dash
  <2>1. ASSUME n > 0 PROVE off[n + 1] \in 1..Len(a) /\ a[off[n + 1]] = Dash
    <3>1. n \in 1..m /\ n + 1 \in 1..m + 1 /\ n \in 1..m + 1
      BY <1>4, <2>1
    <3> QED
      BY <1>4, <1>5, <3>1
  <2> QED
    BY <2>1
<1>8. off[n + 1] \in 0..Len(a)
  BY <1>4, <1>5
<1>9. ASSUME n < m
      PROVE  /\ off[n + 2] \in 1..Len(a) /\ off[n + 1] + 1 < off[n + 2]
             /\ a[off[n + 2]] = Dash
             /\ \A c \in off[n + 1] + 1..off[n + 2] - 1 : a[c] # Dash
  <2>1. n + 1 \in 1..m /\ n + 2 \in 1..m + 1 /\ (n + 1) + 1 = n + 2
    BY <1>4, <1>9
  <2>2. /\ off[n + 2] = off[n + 1] + Len(Printed[n + 1]) + 1 /\ a[off[n + 2]] = Dash
        /\ off[n + 2] \in 0..Len(a)
    BY <1>5, <2>1
  <2>3. Len(Printed[n + 1]) \in Nat \ {0}
    BY <1>4, <2>1
  <2>4. ASSUME NEW c \in off[n + 1] + 1..off[n + 2] - 1 PROVE a[c] # Dash
    <3>1. PICK d \in 1..Len(Printed[n + 1]) : off[n + 1] + d = c
      <4>1. \A b, len \in Nat : c \in b + 1..b + len + 1 - 1 =>
              c - b \in 1..len /\ b + (c - b) = c
        OBVIOUS
      <4>2. off[n + 1] \in Nat /\ Len(Printed[n + 1]) \in Nat
        BY <1>8, <2>3
      <4>3. c \in off[n + 1] + 1..off[n + 1] + Len(Printed[n + 1]) + 1 - 1
        BY <2>2, <4>2
      <4>4. /\ c - off[n + 1] \in 1..Len(Printed[n + 1])
            /\ off[n + 1] + (c - off[n + 1]) = c
        BY <4>1, <4>2, <4>3
      <4> QED
        BY <4>4
    <3>2. a[off[n + 1] + d] = Printed[n + 1][d]
      BY <1>5, <2>1
    <3>3. Printed[n + 1][d] # Dash
      BY <1>4, <2>1
    <3> QED
      BY <3>1, <3>2, <3>3
  <2> QED
    BY <1>4, <1>8, <2>2, <2>3, <2>4
<1> HIDE DEF m
<1>10. SUFFICES CutAlong(off)'
  <2>1. spc' = "done" => at' # "start" /\ at' # "trace"
    BY <1>1
  <2> QED
    BY <1>1, <1>2 DEF MainInv, SplitAlong
<1> USE DEF Splitter!SeparatorAt, Splitter!TextAt, Splitter!size
<1>11. CASE Splitter!Skip
  <2>1. /\ spc = "skip" /\ i < Len(a) /\ a[i + 1] = Dash
        /\ i' = i + 1 /\ UNCHANGED <<spc, j, v>>
    BY <1>11 DEF Splitter!Skip
  <2>2. n < m => a[off[n + 1] + 1] # Dash
    BY <1>8, <1>9
  <2>3. n = m => off[n + 1] = Len(a)
    BY <1>5
  <2>4. i # off[n + 1]
    BY <1>4, <2>1, <2>2, <2>3
  <2>5. i' = off[n + 1]
    BY <1>6, <1>8, <2>1, <2>4
  <2> QED
    BY <1>1, <1>2, <1>6, <2>1, <2>5 DEF CutAlong
<1>12. CASE Splitter!Start
  <2>1. /\ spc = "skip" /\ i < Len(a) /\ a[i + 1] # Dash
        /\ j' = i /\ spc' = "scan" /\ UNCHANGED <<i, v>>
    BY <1>12 DEF Splitter!Start
  <2>2. i = off[n + 1]
    <3>1. ASSUME n > 0, i = off[n + 1] - 1 PROVE FALSE
      <4>1. i + 1 = off[n + 1]
        BY <1>8, <3>1
      <4> QED
        BY <1>7, <2>1, <3>1, <4>1
    <3> QED
      BY <1>6, <2>1, <3>1
  <2>3. n < m
    BY <1>4, <1>5, <2>1, <2>2
  <2>4. j' \in i..off[n + 2] - 1
    BY <1>6, <1>8, <1>9, <2>1, <2>2, <2>3
  <2> QED
    BY <1>1, <1>2, <1>6, <2>1, <2>2, <2>3, <2>4 DEF CutAlong, m
<1>13. CASE Splitter!Scan
  <2>1. spc = "scan" /\ j < Len(a) /\ a[j + 1] # Dash /\ j' = j + 1 /\ UNCHANGED <<spc, i, v>>
    BY <1>13 DEF Splitter!Scan
  <2>2. n < m /\ i = off[n + 1] /\ j \in i..off[n + 2] - 1
    BY <1>6, <2>1
  <2>3. j + 1 # off[n + 2]
    BY <1>9, <2>1, <2>2
  <2>4. j' \in i..off[n + 2] - 1 /\ j' \in Nat
    <3>1. off[n + 2] \in Nat /\ i \in Nat
      BY <1>6, <1>9, <2>2
    <3> QED
      BY <2>1, <2>2, <2>3, <3>1
  <2> QED
    BY <1>1, <1>2, <1>6, <2>1, <2>2, <2>4 DEF CutAlong, m
<1>14. CASE Splitter!Cut
  <2>1. /\ spc = "scan" /\ (j < Len(a) => a[j + 1] = Dash)
        /\ v' = Append(v, [from |-> i, to |-> j]) /\ i' = j /\ spc' = "skip" /\ j' = j
    BY <1>14 DEF Splitter!Cut
  <2>2. n < m /\ i = off[n + 1] /\ j \in i..off[n + 2] - 1
    BY <1>6, <2>1
  <2>3. j = off[n + 2] - 1
    <3>1. off[n + 2] \in 1..Len(a)
      BY <1>9, <2>2
    <3>2. j < Len(a) /\ j \in Nat
      BY <1>4, <1>6, <1>8, <2>2, <3>1
    <3>3. j + 1 \notin off[n + 1] + 1..off[n + 2] - 1
      BY <1>9, <2>1, <2>2, <3>2
    <3> QED
      BY <1>8, <2>2, <3>1, <3>2, <3>3
  <2>4. /\ Len(v') = n + 1 /\ v'[n + 1].from = i /\ v'[n + 1].to = j
        /\ \A l \in 1..n : v'[l] = v[l]
    BY <1>6, <2>1
  <2>5. v' \in Seq([from : Nat, to : Nat])
    BY <1>6, <2>1
  <2>6. \A l \in 1..n + 1 : v'[l].from = off[l] /\ v'[l].to = off[l + 1] - 1
    <3> SUFFICES ASSUME NEW l \in 1..n + 1
                 PROVE  v'[l].from = off[l] /\ v'[l].to = off[l + 1] - 1
      OBVIOUS
    <3>1. CASE l \in 1..n
      BY <1>6, <2>4, <3>1
    <3>2. CASE l = n + 1
      <4>1. l + 1 = n + 2
        BY <3>2
      <4> QED
        BY <2>2, <2>3, <2>4, <3>2, <4>1
    <3> QED
      BY <3>1, <3>2
  <2>7. (n + 1) + 1 = n + 2 /\ n + 1 <= m /\ n + 1 > 0
    BY <1>4, <2>2
  <2>8. i' = off[n + 2] - 1 /\ i' \in Nat /\ j' \in Nat
    BY <1>6, <2>1, <2>3
  <2> QED
    BY <1>1, <2>1, <2>4, <2>5, <2>6, <2>7, <2>8 DEF CutAlong, m
<1>15. CASE Splitter!Finish
  <2>1. spc = "skip" /\ spc' = "done" /\ i = Len(a) /\ UNCHANGED <<i, j, v>>
    BY <1>15 DEF Splitter!Finish
  <2>2. i = off[n + 1]
    BY <1>6, <1>7, <1>8, <2>1
  <2>3. n = m
    BY <1>4, <1>8, <1>9, <2>1, <2>2
  <2> QED
    BY <1>1, <1>2, <1>6, <2>1, <2>3 DEF CutAlong, m
<1> QED
  BY <1>11, <1>12, <1>13, <1>14, <1>15 DEF SplitStep, Splitter!SplitNext
-----------------------------------------------------------------------------
LEMMA MainInvariant == MainSpec => []MainInv
<1>1. MainInit => MainInv
  <2> SUFFICES ASSUME MainInit PROVE MainInv
    OBVIOUS
  <2>1. routeText = << >> /\ HopTexts = << >>
    BY DEF MainInit, Init, HopTexts
  <2>2. << >> \in Texts /\ Len(<< >>) = 0
    BY DEF Texts
  <2>3. PICK off : off = [n \in 1..1 |-> 0]
    OBVIOUS
  <2>4. LaidOut(<< >>, << >>, off)
    BY <2>2, <2>3 DEF LaidOut
  <2> QED
    BY <2>1, <2>2, <2>4 DEF MainInit, MainInv
<1>2. TypeInv /\ TypeInv' /\ [Next]_vars /\ MainInv /\ [MainNext]_mainVars => MainInv'
  <2> SUFFICES ASSUME TypeInv, TypeInv', [Next]_vars, MainInv, [MainNext]_mainVars
               PROVE  MainInv'
    OBVIOUS
  <2>1. CASE CallTracert
    <3>1. /\ route' = route /\ at = "start" /\ at' = "trace"
          /\ UNCHANGED <<myIP, routeText, splitVars>>
      BY <2>1 DEF CallTracert, Tracert
    <3> QED
      BY <3>1 DEF MainInv, HopTexts, splitVars
  <2>2. CASE TracertStep \/ Network
    <3>1. /\ at = "trace" /\ UNCHANGED <<at, myIP, splitVars>>
          /\ routeText' = IF route' = route THEN routeText
                          ELSE routeText \o Text[route'[Len(route')].addr] \o <<Dash>>
      BY <2>2 DEF TracertStep, Network, Traced
    <3> QED
      BY <3>1, TracedKeepsText DEF TypeInv
  <2>3. CASE PrintHosts \/ UNCHANGED mainVars
    <3>1. UNCHANGED <<route, myIP, routeText, splitVars>>
      BY <2>3 DEF PrintHosts, mainVars, vars
    <3>2. UNCHANGED <<HopTexts, Printed>> /\ (SplitAlong' <=> SplitAlong)
      BY <3>1 DEF HopTexts, Printed, SplitAlong, CutAlong, splitVars
    <3>3. at' = at \/ (at = "split" /\ spc = "done" /\ at' = "done")
      BY <2>3 DEF PrintHosts, mainVars
    <3> QED
      BY <3>1, <3>2, <3>3 DEF MainInv, splitVars
  <2> QED
    BY <2>1, <2>2, <2>3, JoinInv, SplitStepInv DEF MainNext
<1>3. MainSpec => [][Next]_vars /\ []TypeInv
  BY MainRunsTracer, TypeInvariant, PTL DEF Spec
<1> QED
  BY <1>1, <1>2, <1>3, PTL DEF MainSpec

(* What main() prints is its own address and the hops of the route, whole  *)
(* and in order, for every route and every way addresses are written       *)
(* without a dash.                                                         *)
THEOREM RouteIsPrinted == MainSpec => []PrintsRoute
<1>1. TypeInv /\ MainInv => PrintsRoute
  <2> SUFFICES ASSUME TypeInv, MainInv, at = "done" PROVE PrintsRoute
    BY DEF PrintsRoute
  <2>1. PICK off : a \in Texts /\ LaidOut(a, Printed, off) /\ CutAlong(off)
    BY DEF MainInv, SplitAlong
  <2>2. /\ Len(v) = Len(Printed)
        /\ \A n \in 1..Len(v) : v[n].from = off[n] /\ v[n].to = off[n + 1] - 1
    BY <2>1 DEF CutAlong, MainInv
  <2>3. /\ Printed \in Seq(Texts) /\ Len(Printed) = Len(route) + 1
        /\ \A n \in 1..Len(Printed) :
             /\ Printed[n] = Text[IF n = 1 THEN myIP ELSE route[n - 1].addr]
             /\ Printed[n] \in Texts
    BY PrintedType DEF TypeInv, MainInv
  <2>4. ASSUME NEW n \in 1..Len(v) PROVE Splitter!Piece(v[n]) = Printed[n]
    <3>1. /\ off[n] \in 0..Len(a) /\ off[n + 1] \in 0..Len(a)
          /\ off[n + 1] = off[n] + Len(Printed[n]) + 1
          /\ \A c \in 1..Len(Printed[n]) : a[off[n] + c] = Printed[n][c]
      <4>1. n \in 1..Len(Printed) + 1 /\ n + 1 \in 1..Len(Printed) + 1
        BY <2>2, <2>3
      <4> QED
        BY <2>1, <2>2, <4>1 DEF LaidOut
    <3>2. Splitter!Piece(v[n]) = SubSeq(a, off[n] + 1, off[n + 1] - 1)
      BY <2>2 DEF Splitter!Piece
    <3>3. Printed[n] \in Seq(Char) /\ a \in Seq(Char) /\ Len(Printed[n]) \in Nat
      BY <2>1, <2>2, <2>3 DEF Texts
    <3>4. off[n + 1] - 1 = off[n] + Len(Printed[n]) /\ off[n] + Len(Printed[n]) <= Len(a)
      BY <3>1, <3>3
    <3>5. off[n] \in Nat
      BY <3>1
    <3>6. SubSeq(a, off[n] + 1, off[n] + Len(Printed[n])) = Printed[n]
      BY <3>1, <3>3, <3>4, <3>5, WordCut
    <3> QED
      BY <3>2, <3>4, <3>6
  <2> QED
    BY <2>2, <2>3, <2>4 DEF PrintsRoute
<1>2. MainSpec => []TypeInv
  BY MainRunsTracer, TypeInvariant, PTL
<1> QED
  BY <1>1, <1>2, MainInvariant, PTL
=============================================================================
