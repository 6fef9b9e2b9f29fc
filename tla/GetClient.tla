----------------------------- MODULE GetClient -----------------------------
(***************************************************************************)
(* main() of TestCip4/TestCip4/test.cpp: one SNMP GET, with the classes    *)
(* Vb, Pdu and CTarget of the library, and what main() relies on of        *)
(* Snmp::get(), the network and the agent.                                 *)
(***************************************************************************)
EXTENDS Integers, Sequences

CONSTANTS
  AgentValues,   \* the values of the asked object at the agent
  RequestIds,    \* the request id of this get and those of earlier ones
  ThisId,
  NoValue        \* the value of a Vb without one

ASSUME GetAssumption == ThisId \in RequestIds /\ NoValue \notin AgentValues

RetriesSet == 1    \* set_retry(1)

Answers == [id : RequestIds, value : AgentValues \cup {NoValue}, error : BOOLEAN]

VARIABLES
  gpc,        \* "startup", "build", "target", "get", "wait", "check", "print", "end"
  session,    \* the state of the Snmp object: "none", "open", "failed"
  status,     \* "unset", "success", "error"
  vb, vbs,    \* the Vb of main() and those of the Pdu
  target,     \* the fields of the CTarget that get() reads
  sends,      \* how often the request was sent
  agentValue, \* the value at the agent
  asked,      \* is a request on its way?
  answers,    \* the answers on their way, some of them to earlier requests
  given,      \* history: the values with which the agent answered this request
  printed     \* what was printed, or << >>

getVars == <<gpc, session, status, vb, vbs, target, sends, agentValue, asked, answers,
             given, printed>>
network == <<agentValue, asked, answers, given>>
objects == <<session, vb, vbs, target>>

NoTarget == [valid |-> FALSE, retries |-> 0]

GetInit ==
  /\ gpc = "startup" /\ session = "none" /\ status = "unset"
  /\ vb = NoValue /\ vbs = << >> /\ target = NoTarget /\ sends = 0
  /\ agentValue \in AgentValues /\ asked = FALSE /\ given = {} /\ printed = << >>
  /\ answers \in {{}, {a \in Answers : a.id # ThisId}}

(* Snmp(status, 0, false): main() reads `status' only after get().         *)
OpenSession ==
  /\ gpc = "startup" /\ gpc' = "build"
  /\ \/ session' = "open" /\ status' = "success"
     \/ session' = "failed" /\ status' = "error"
  /\ UNCHANGED <<vb, vbs, target, sends, network, printed>>

(* vb.set_oid(...) and pdu += vb: the Pdu has a copy of the Vb, without a  *)
(* value yet.                                                              *)
BuildPdu ==
  /\ gpc = "build" /\ gpc' = "target"
  /\ vb' = NoValue /\ vbs' = <<NoValue>>
  /\ UNCHANGED <<session, status, target, sends, network, printed>>

(* CTarget(address) and its setters: the address is valid.                 *)
MakeTarget ==
  /\ gpc = "target" /\ gpc' = "get"
  /\ target' = [valid |-> TRUE, retries |-> RetriesSet]
  /\ UNCHANGED <<session, status, vb, vbs, sends, network, printed>>

(* Snmp::get() on a session without a socket fails; otherwise it sends.    *)
StartGet ==
  /\ gpc = "get"
  /\ \/ /\ session = "failed" \/ ~target.valid
        /\ status' = "error" /\ gpc' = "check" /\ UNCHANGED <<sends, asked>>
     \/ /\ session = "open" /\ target.valid
        /\ gpc' = "wait" /\ sends' = 1 /\ asked' = TRUE /\ UNCHANGED status
  /\ UNCHANGED <<objects, agentValue, answers, given, printed>>

(* After a timeout the request is sent again, `retries' times.             *)
Resend ==
  /\ gpc = "wait" /\ sends <= target.retries
  /\ asked' = TRUE /\ sends' = sends + 1
  /\ UNCHANGED <<gpc, status, objects, agentValue, answers, given, printed>>

GiveUp ==
  /\ gpc = "wait" /\ sends > target.retries
  /\ gpc' = "check" /\ status' = "error"
  /\ UNCHANGED <<sends, objects, network, printed>>

(* An answer is accepted whatever it answers.                              *)
ReceiveAny ==
  /\ gpc = "wait" /\ gpc' = "check"
  /\ \E a \in answers :
       /\ status' = (IF a.error THEN "error" ELSE "success")
       /\ vbs' = <<a.value>>
  /\ UNCHANGED <<session, vb, target, sends, network, printed>>

(* An answer is accepted if it has the id of this request.                 *)
Receive ==
  /\ gpc = "wait" /\ gpc' = "check"
  /\ \E a \in answers :
       /\ a.id = ThisId
       /\ status' = (IF a.error THEN "error" ELSE "success")
       /\ vbs' = <<a.value>>
  /\ UNCHANGED <<session, vb, target, sends, network, printed>>

(* The result is used unread.                                              *)
CheckNothing ==
  /\ gpc = "check" /\ gpc' = "print"
  /\ UNCHANGED <<status, sends, objects, network, printed>>

(* main() asks again until it succeeds.                                    *)
CheckAndRepeat ==
  /\ gpc = "check"
  /\ gpc' = IF status = "success" THEN "print" ELSE "get"
  /\ UNCHANGED <<status, sends, objects, network, printed>>

CheckStatus ==
  /\ gpc = "check"
  /\ gpc' = IF status = "success" THEN "print" ELSE "end"
  /\ UNCHANGED <<status, sends, objects, network, printed>>

(* pdu.get_vb(vb, 0), and the value of the Vb is printed.                  *)
PrintVb ==
  /\ gpc = "print" /\ gpc' = "end"
  /\ vb' = vbs[1] /\ printed' = <<vb'>>
  /\ UNCHANGED <<session, status, vbs, target, sends, network>>

MainStep ==
  \/ OpenSession \/ BuildPdu \/ MakeTarget \/ StartGet
  \/ Resend \/ GiveUp \/ Receive \/ CheckStatus \/ PrintVb

(* The agent answers a request, once, again or never; it has no value to   *)
(* give if it refuses the request.                                         *)
AgentAnswers ==
  /\ asked
  /\ \/ /\ answers' = answers \cup {[id |-> ThisId, value |-> agentValue, error |-> FALSE]}
        /\ given' = given \cup {agentValue}
     \/ /\ answers' = answers \cup {[id |-> ThisId, value |-> NoValue, error |-> TRUE]}
        /\ UNCHANGED given
  /\ UNCHANGED <<gpc, status, sends, objects, agentValue, asked, printed>>

AgentChanges ==
  /\ agentValue' \in AgentValues
  /\ UNCHANGED <<gpc, status, sends, objects, asked, answers, given, printed>>

GetNext == MainStep \/ AgentAnswers \/ AgentChanges

GetSafety == GetInit /\ [][GetNext]_getVars
GetSpec   == GetSafety /\ WF_getVars(MainStep)
-----------------------------------------------------------------------------
GetTypeOK ==
  /\ gpc \in {"startup", "build", "target", "get", "wait", "check", "print", "end"}
  /\ session \in {"none", "open", "failed"} /\ status \in {"unset", "success", "error"}
  /\ vb \in AgentValues \cup {NoValue} /\ vbs \in Seq(AgentValues \cup {NoValue})
  /\ target \in [valid : BOOLEAN, retries : Nat] /\ sends \in Nat
  /\ agentValue \in AgentValues /\ asked \in BOOLEAN /\ answers \subseteq Answers
  /\ given \subseteq AgentValues /\ printed \in Seq(AgentValues \cup {NoValue})

(* What is printed is a value that the agent gave in answer to this        *)
(* request: not the empty value of the request, nor that of an error, nor  *)
(* an answer to an earlier request; nothing is printed if the constructor  *)
(* of the session failed, although its status is overwritten unread.       *)
PrintsAnswer == printed # << >> => session = "open" /\ printed[1] \in given

(* Whatever the network loses, the request ends.                           *)
GetEnds == (gpc = "get") ~> (gpc = "end")
=============================================================================
