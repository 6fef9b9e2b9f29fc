---------------------------- MODULE MainProgram ----------------------------
(***************************************************************************)
(* main() of scanhost/scanhost/main.cpp: traces the route to one host,     *)
(* puts the local address of getMyIP() in front of it and splits the       *)
(* result into addresses.  It composes the tracer with split().            *)
(***************************************************************************)
EXTENDS TraceRoute

CONSTANTS
  Dash,     \* the character "-"
  Text,     \* Text[h]: the characters inet_ntoa writes for h
  MyHosts   \* what getMyIP() may return

Char == {Dash} \cup UNION {{Text[h][n] : n \in DOMAIN Text[h]} : h \in Hosts}

ASSUME MainAssumption ==
  /\ MyHosts \subseteq Hosts
  /\ \A h \in Hosts : /\ Text[h] \in Seq(Char) \ {<< >>}
                      /\ \A n \in DOMAIN Text[h] : Text[h][n] # Dash

VARIABLES
  at,              \* "start", "trace", "split", "done"; "crashed": getMyIP()
                   \* used a null pointer
  myIP,            \* what getMyIP() returned
  routeText,       \* TraceRT::route, the string
  spc, a, i, j, v  \* split(): its variables; v is its result

splitVars == <<spc, a, i, j, v>>
mainVars  == <<vars, at, myIP, routeText, splitVars>>

Splitter == INSTANCE Split WITH Separators <- {Dash}, Strings <- Seq(Char),
                                pc <- spc, s <- a, pieces <- v

MainInit ==
  /\ Init
  /\ at = "start" /\ myIP \in MyHosts /\ routeText = << >>
  /\ spc = "skip" /\ a = << >> /\ i = 0 /\ j = 0 /\ v = << >>

(* tr.tracert("www.baidu.com")                                             *)
CallTracert ==
  /\ at = "start" /\ at' = "trace"
  /\ \E d \in Targets : Tracert(d)
  /\ UNCHANGED <<myIP, routeText, splitVars>>

(* A hop is written to the route with a dash behind it.                    *)
Traced(step) ==
  /\ at = "trace" /\ step
  /\ routeText' = IF route' = route THEN routeText
                  ELSE routeText \o Text[route'[Len(route')].addr] \o <<Dash>>
  /\ UNCHANGED <<at, myIP, splitVars>>

TracertStep ==
  Traced(SendProbe \/ Complete \/ Receive \/ TimeOut \/ ReceiveFails)

(* The socket is open as long as tracert() runs.                           *)
Network == Traced((\E q \in probes : Answer(q)) \/ ForeignPacket)

(* getMyIP() and the route are put together without a dash.                *)
JoinUnseparated ==
  /\ at = "trace" /\ pc = "idle"
  /\ at' = "split" /\ a' = Text[myIP] \o routeText
  /\ UNCHANGED <<vars, myIP, routeText, spc, i, j, v>>

(* getMyIP() + "-" + tr.route is handed to split().                        *)
Join ==
  /\ at = "trace" /\ pc = "idle"
  /\ \/ at' = "split" /\ a' = Text[myIP] \o <<Dash>> \o routeText
     \/ at' = "crashed" /\ UNCHANGED a
  /\ UNCHANGED <<vars, myIP, routeText, spc, i, j, v>>

SplitStep ==
  /\ at = "split" /\ Splitter!SplitNext
  /\ UNCHANGED <<vars, at, myIP, routeText>>

PrintHosts ==
  /\ at = "split" /\ spc = "done" /\ at' = "done"
  /\ UNCHANGED <<vars, myIP, routeText, splitVars>>

MainNext == CallTracert \/ TracertStep \/ Network \/ Join \/ SplitStep \/ PrintHosts

MainSpec ==
  /\ MainInit /\ [][MainNext]_mainVars
  /\ WF_mainVars(Traced(SendProbe)) /\ WF_mainVars(Traced(Complete))
  /\ WF_mainVars(Traced(Receive)) /\ WF_mainVars(Traced(TimeOut))
-----------------------------------------------------------------------------
(* What main() prints is the local address and then the hops of the route, *)
(* one piece each and in the order of the route: no address is cut, glued  *)
(* to its neighbour or dropped on the way through the strings, also when   *)
(* the route is empty.                                                     *)
PrintsRoute ==
  at = "done" =>
    /\ Len(v) = Len(route) + 1
    /\ \A n \in 1..Len(v) :
         Splitter!Piece(v[n]) = Text[IF n = 1 THEN myIP ELSE route[n - 1].addr]
=============================================================================
