----------------------------- MODULE MCLibrary -----------------------------
(* The parts that share no state, side by side: a behaviour is one of one  *)
(* of them, with the variables of the others at a fixed initial state.     *)
EXTENDS Checksum, SnmpCollection, OidValue, DefaultLog, PrintedValue, GetClient,
        VariableBindings

CONSTANTS
  Parts,      \* the parts whose behaviours are explored
  MaxWords,   \* bound on the words of a checksum
  MaxOperand, \* bound on the length of another Oid
  c1, c2, i1, i2, t1, t2

MCBuffers ==
  [words : UNION {[1..m -> Word] : m \in 0..MaxWords},
   odd   : {<< >>} \cup {<<b>> : b \in 0..1}]

MCOperands == UNION {[1..m -> Sub] : m \in 0..MaxOperand}

(* One class for each way in which the classes differ.                     *)
MCClasses == {SnmpUInt32, Counter32, Counter64, OctetStr, Oid, IpAddress, UdpAddress}

VARIABLE part

libraryVars ==
  <<part, vars, collVars, oidVars, logVars, printVars, getVars, bindVars>>

LibraryInit ==
  /\ part \in Parts
  /\ Init /\ (part # "checksum" => buffer = [words |-> << >>, odd |-> << >>])
  /\ CollInit /\ OidInit /\ LogInit /\ BindInit
  /\ PrintInit /\ (part # "value" => class = SnmpUInt32)
  /\ GetInit /\ (part # "get" => agentValue = 0 /\ answers = {})

Only(p, others) == part = p /\ UNCHANGED <<part, others>>

LibraryNext ==
  \/ /\ Only("checksum", <<collVars, oidVars, logVars, printVars, getVars, bindVars>>)
     /\ Next
  \/ /\ Only("collection", <<vars, oidVars, logVars, printVars, getVars, bindVars>>)
     /\ CollNext
  \/ /\ Only("oid", <<vars, collVars, logVars, printVars, getVars, bindVars>>)
     /\ OidNext
  \/ /\ Only("log", <<vars, collVars, oidVars, printVars, getVars, bindVars>>)
     /\ LogNext
  \/ /\ Only("value", <<vars, collVars, oidVars, logVars, getVars, bindVars>>)
     /\ PrintNext
  \/ /\ Only("get", <<vars, collVars, oidVars, logVars, printVars, bindVars>>)
     /\ GetNext
  \/ /\ Only("bindings", <<vars, collVars, oidVars, logVars, printVars, getVars>>)
     /\ BindNext

LibrarySpec ==
  LibraryInit /\ [][LibraryNext]_libraryVars /\ WF_getVars(part = "get" /\ MainStep)

(* Every variable of the library's parts has its type.                     *)
LibraryTypesOK ==
  OidTypeOK /\ LogTypeOK /\ PrintTypeOK /\ GetTypeOK /\ BindTypeOK
=============================================================================
