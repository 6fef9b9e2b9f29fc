--------------------------- MODULE LibraryProofs ---------------------------
(***************************************************************************)
(* Theorems about the parts of the SNMP++ library that are not lists or    *)
(* numbers, and about the get: for any threads, values, classes and sizes. *)
(* The last section puts the parts side by side, as MCLibrary does.        *)
(***************************************************************************)
EXTENDS MCLibrary, OidProofs, FiniteSetTheorems, TLAPS

-----------------------------------------------------------------------------
(* The default logger.                                                     *)

Inside == {"create", "items", "publish", "delete", "unlock"}
Filling == {"items", "publish", "delete"}

(* The mutex belongs to the one thread that is inside, and the entry is    *)
(* that thread's as long as it fills it.                                   *)
OneInside ==
  /\ \A t \in Threads : lpc[t] \in Inside <=> holder = t
  /\ \A t \in Threads : lpc[t] \in Filling => entry.by = t /\ entry.items = logged[t]
  /\ (\A t \in Threads : lpc[t] \notin Filling) => entry = NoEntry

LogInv == LogTypeOK /\ OneInside /\ EntriesOwn /\ EntryHasLogger

LEMMA LogInitInv == LogInit => LogInv
BY LogAssumption
   DEF LogInit, LogInv, LogTypeOK, OneInside, EntriesOwn, EntryHasLogger,
       NoEntry, NoLogger, Inside, Filling

(* The loggers that init_ts() and log() leave.                             *)
LEMMA LoggersTyped ==
  ASSUME LogTypeOK,
         \/ UNCHANGED loggers
         \/ UNCHANGED dead /\ instance' = created + 1 /\ created' = created + 1
  PROVE  instance' \in 0..created' /\ dead' \subseteq 1..created'
<1>1. created \in Nat /\ instance \in 0..created /\ dead \subseteq 1..created
  BY LogAssumption DEF LogTypeOK
<1>2. CASE UNCHANGED loggers
  BY <1>1, <1>2 DEF loggers
<1>3. CASE UNCHANGED dead /\ instance' = created + 1 /\ created' = created + 1
  <2>1. 1..created \subseteq 1..created + 1 /\ created + 1 \in 0..created + 1
    BY <1>1
  <2> QED
    BY <1>1, <1>3, <2>1
<1> QED
  BY <1>2, <1>3

LEMMA InitLoggerInv ==
  ASSUME LogInv, InitLogger
  PROVE  LogInv'
<1>1. LogTypeOK'
  BY LogAssumption DEF InitLogger, LogInv, LogTypeOK, NoLogger, At, Free
<1>2. OneInside'
  BY LogAssumption
     DEF InitLogger, LogInv, LogTypeOK, OneInside, NoEntry, At, Free, Inside, Filling
<1>3. EntriesOwn'
  BY DEF InitLogger, LogInv, LogTypeOK, OneInside, EntriesOwn, At, Free,
         Inside, Filling
<1>4. EntryHasLogger'
  <2>1. created \in Nat /\ instance \in 0..created /\ dead \subseteq 1..created
    BY LogAssumption DEF LogInv, LogTypeOK
  <2>2. instance' = created + 1 /\ dead' \subseteq 1..created
    BY <2>1 DEF InitLogger, NoLogger
  <2>3. entry' = NoEntry
    BY DEF InitLogger, LogInv, OneInside, At, Filling
  <2> QED
    BY <2>1, <2>2, <2>3 DEF EntryHasLogger
<1> QED
  BY <1>1, <1>2, <1>3, <1>4 DEF LogInv

LEMMA CleanupLoggerInv ==
  ASSUME LogInv, CleanupLogger
  PROVE  LogInv'
<1>1. LogTypeOK'
  BY LogAssumption DEF CleanupLogger, LogInv, LogTypeOK, NoLogger
<1>2. OneInside' /\ EntriesOwn'
  BY DEF CleanupLogger, LogInv, OneInside, EntriesOwn, NoEntry
<1>3. EntryHasLogger'
  <2>1. entry = NoEntry
    BY LogAssumption DEF CleanupLogger, LogInv, OneInside, Free, Inside, Filling
  <2>2. 0 \notin dead \cup {instance} /\ entry' = entry
    BY DEF CleanupLogger, LogInv, LogTypeOK, NoLogger
  <2> QED
    BY <2>1, <2>2 DEF CleanupLogger, EntryHasLogger, NoLogger, NoEntry
<1> QED
  BY <1>1, <1>2, <1>3 DEF LogInv

(* The entry that create_log_entry() leaves to the thread that is inside.  *)
LEMMA EntryUsed ==
  ASSUME LogInv, NEW t \in Threads, NEW items \in Seq(Threads), UseEntry(t, items),
         entry = NoEntry \/ (entry.by = t /\ entry.items = logged[t])
  PROVE  /\ entry' \in [by : Threads \cup {NoThread}, from : Nat, items : Seq(Threads)]
         /\ entry'.by = t
         /\ entry'.items = IF entry = NoEntry THEN items ELSE logged[t] \o items
         /\ created' \in 0..LoggerBound /\ instance' \in 0..created'
         /\ dead' \subseteq 1..created' /\ EntryHasLogger'
<1>1. /\ created \in Nat /\ created \in 0..LoggerBound /\ instance \in 0..created
      /\ dead \subseteq 1..created
      /\ entry \in [by : Threads \cup {NoThread}, from : Nat, items : Seq(Threads)]
      /\ logged[t] \in Seq(Threads) /\ EntryHasLogger
  BY LogAssumption DEF LogInv, LogTypeOK
<1>2. CASE entry # NoEntry
  <2>1. UNCHANGED loggers /\ entry' = [entry EXCEPT !.items = @ \o items]
    BY <1>2 DEF UseEntry
  <2>2. entry.items \in Seq(Threads) /\ entry.items \o items \in Seq(Threads)
    BY <1>1
  <2>3. /\ entry' \in [by : Threads \cup {NoThread}, from : Nat, items : Seq(Threads)]
        /\ entry'.by = entry.by /\ entry'.from = entry.from
        /\ entry'.items = entry.items \o items
    BY <1>1, <2>1, <2>2
  <2> QED
    BY <1>1, <1>2, <2>1, <2>3 DEF EntryHasLogger, loggers
<1>3. CASE entry = NoEntry
  <2>1. LogLocked /\ entry' = [by |-> t, from |-> instance', items |-> items]
    BY <1>3 DEF UseEntry
  <2>2. instance' \in 0..created' /\ dead' \subseteq 1..created'
    BY <2>1, LoggersTyped DEF LogLocked, LogInv, loggers
  <2>3. created' \in 0..LoggerBound /\ instance' \in Nat
    BY <1>1, <2>1, LogAssumption DEF LogLocked, loggers
  <2>4. instance' # NoLogger /\ instance' \notin dead'
    BY <1>1, <2>1 DEF LogLocked, loggers, EntryHasLogger, NoLogger
  <2>5. /\ entry' \in [by : Threads \cup {NoThread}, from : Nat, items : Seq(Threads)]
        /\ entry'.by = t /\ entry'.from = instance' /\ entry'.items = items
    BY <2>1, <2>3
  <2> QED
    BY <1>3, <2>2, <2>3, <2>4, <2>5 DEF EntryHasLogger
<1> QED
  BY <1>2, <1>3

LEMMA FetchLoggerInv ==
  ASSUME LogInv, NEW t \in Threads, FetchLogger(t)
  PROVE  LogInv'
<1>1. LogTypeOK'
  BY LogAssumption DEF FetchLogger, LogInv, LogTypeOK, NoLogger, At, Goto, loggers
<1>2. OneInside'
  BY LogAssumption
     DEF FetchLogger, LogInv, LogTypeOK, OneInside, NoEntry, At, Goto, loggers, Inside, Filling
<1>3. EntriesOwn'
  BY DEF FetchLogger, LogInv, LogTypeOK, OneInside, EntriesOwn, At, Goto, loggers,
         Inside, Filling
<1>4. EntryHasLogger'
  BY DEF FetchLogger, LogInv, LogTypeOK, EntryHasLogger, NoLogger, At, Goto, loggers
<1> QED
  BY <1>1, <1>2, <1>3, <1>4 DEF LogInv

LEMMA InitTsInv ==
  ASSUME LogInv, NEW t \in Threads, InitTs(t)
  PROVE  LogInv'
<1>1. LogTypeOK'
  <2>1. created' \in 0..LoggerBound
    BY LogAssumption DEF InitTs, LogInv, LogTypeOK, Free, loggers
  <2>2. instance' \in 0..created' /\ dead' \subseteq 1..created'
    BY LoggersTyped DEF InitTs, LogInv
  <2>3. fetched' \in [Threads -> Nat]
    <3>1. instance' \in Nat
      BY <2>1, <2>2, LogAssumption
    <3> QED
      BY <3>1 DEF InitTs, LogInv, LogTypeOK
  <2>4. lpc' \in [Threads -> {"out", "none", "ask", "lock", "create", "items",
                          "publish", "delete", "unlock"}]
    BY DEF InitTs, LogInv, LogTypeOK, Goto
  <2> QED
    BY <2>1, <2>2, <2>3, <2>4 DEF InitTs, LogInv, LogTypeOK
<1>2. OneInside'
  BY LogAssumption
     DEF InitTs, LogInv, LogTypeOK, OneInside, NoEntry, At, Goto, Free, loggers, Inside, Filling
<1>3. EntriesOwn'
  BY DEF InitTs, LogInv, LogTypeOK, OneInside, EntriesOwn, At, Goto, Free, loggers,
         Inside, Filling
<1>4. EntryHasLogger'
  BY DEF InitTs, LogInv, LogTypeOK, EntryHasLogger, NoLogger, At, Goto, Free, loggers
<1> QED
  BY <1>1, <1>2, <1>3, <1>4 DEF LogInv

LEMMA LogNeededInv ==
  ASSUME LogInv, NEW t \in Threads, LogNeeded(t)
  PROVE  LogInv'
<1>1. LogTypeOK'
  <2>1. LogTypeOK
    BY DEF LogInv
  <2> QED
    BY <2>1, LogAssumption DEF LogNeeded, LogTypeOK, NoLogger, At, Goto, loggers
<1>2. OneInside'
  <2>1. UNCHANGED <<holder, entry, logged>>
    BY DEF LogNeeded
  <2>2. \A u \in Threads :
          lpc'[u] = lpc[u] \/ (lpc[u] = "ask" /\ lpc'[u] \in {"lock", "out"})
    BY DEF LogNeeded, LogInv, LogTypeOK, At, Goto
  <2>3. OneInside
    BY DEF LogInv
  <2> QED
    BY <2>1, <2>2, <2>3 DEF OneInside, NoEntry, Inside, Filling
<1>3. EntriesOwn'
  BY DEF LogNeeded, LogInv, LogTypeOK, OneInside, EntriesOwn, At, Goto, loggers,
         Inside, Filling
<1>4. EntryHasLogger'
  BY DEF LogNeeded, LogInv, LogTypeOK, EntryHasLogger, NoLogger, At, Goto, loggers
<1> QED
  BY <1>1, <1>2, <1>3, <1>4 DEF LogInv

LEMMA LockLogInv ==
  ASSUME LogInv, NEW t \in Threads, LockLog(t)
  PROVE  LogInv'
BY LogAssumption
   DEF LockLog, LogInv, LogTypeOK, OneInside, EntriesOwn, EntryHasLogger,
       NoLogger, At, Goto, Free, loggers, Inside, Filling

LEMMA CreateEntryInv ==
  ASSUME LogInv, NEW t \in Threads, CreateEntry(t)
  PROVE  LogInv'
<1>0. /\ entry = NoEntry /\ lpc[t] = "create" /\ << >> \in Seq(Threads)
      /\ lpc \in [Threads -> {"out", "none", "ask", "lock", "create", "items",
                              "publish", "delete", "unlock"}]
      /\ holder = t /\ logged \in [Threads -> Seq(Threads)]
  BY DEF CreateEntry, LogInv, LogTypeOK, OneInside, At, Inside, Filling
<1>1. /\ lpc' = [lpc EXCEPT ![t] = "items"] /\ logged' = [logged EXCEPT ![t] = << >>]
      /\ UNCHANGED <<holder, fetched, added>> /\ UseEntry(t, << >>)
  BY DEF CreateEntry, Goto
<1>2. /\ entry' \in [by : Threads \cup {NoThread}, from : Nat, items : Seq(Threads)]
      /\ entry'.by = t /\ entry'.items = << >>
      /\ created' \in 0..LoggerBound /\ instance' \in 0..created'
      /\ dead' \subseteq 1..created' /\ EntryHasLogger'
  BY <1>0, <1>1, EntryUsed
<1>3. LogTypeOK'
  BY <1>0, <1>1, <1>2 DEF LogInv, LogTypeOK
<1>4. OneInside'
  BY <1>0, <1>1, <1>2 DEF LogInv, OneInside, Inside, Filling
<1> QED
  BY <1>1, <1>2, <1>3, <1>4 DEF LogInv, EntriesOwn

LEMMA LogItemInv ==
  ASSUME LogInv, NEW t \in Threads, LogItem(t)
  PROVE  LogInv'
<1>0. /\ lpc[t] = "items" /\ logged \in [Threads -> Seq(Threads)]
      /\ entry.by = t /\ entry.items = logged[t] /\ holder = t
      /\ lpc \in [Threads -> {"out", "none", "ask", "lock", "create", "items",
                              "publish", "delete", "unlock"}]
  BY DEF LogItem, LogInv, LogTypeOK, OneInside, At, Inside, Filling
<1>1. entry # NoEntry
  BY <1>0, LogAssumption DEF NoEntry
<1>2. UNCHANGED <<holder, fetched, added>>
  BY DEF LogItem
<1>3. CASE Goto(t, "publish") /\ UNCHANGED <<loggers, entry, logged>>
  <2>1. lpc' = [lpc EXCEPT ![t] = "publish"]
    BY <1>3 DEF Goto
  <2>2. LogTypeOK'
    BY <1>0, <1>2, <1>3, <2>1 DEF LogInv, LogTypeOK, loggers
  <2>3. OneInside'
    BY <1>0, <1>2, <1>3, <2>1 DEF LogInv, OneInside, Inside, Filling
  <2> QED
    BY <1>2, <1>3, <2>2, <2>3 DEF LogInv, EntriesOwn, EntryHasLogger, loggers
<1>4. CASE /\ UNCHANGED lpc /\ UseEntry(t, <<t>>)
           /\ logged' = [logged EXCEPT ![t] = Append(@, t)]
  <2>1. <<t>> \in Seq(Threads) /\ Append(logged[t], t) = logged[t] \o <<t>>
        /\ Append(logged[t], t) \in Seq(Threads)
    BY <1>0
  <2>2. /\ entry' \in [by : Threads \cup {NoThread}, from : Nat, items : Seq(Threads)]
        /\ entry'.by = t /\ entry'.items = logged[t] \o <<t>>
        /\ created' \in 0..LoggerBound /\ instance' \in 0..created'
        /\ dead' \subseteq 1..created' /\ EntryHasLogger'
    BY <1>0, <1>1, <1>4, <2>1, EntryUsed
  <2>3. logged' \in [Threads -> Seq(Threads)] /\ logged'[t] = logged[t] \o <<t>>
    BY <1>0, <1>4, <2>1
  <2>4. LogTypeOK'
    BY <1>2, <1>4, <2>2, <2>3 DEF LogInv, LogTypeOK
  <2>5. \A u \in Threads : lpc[u] \in Filling => u = t
    BY <1>0 DEF LogInv, OneInside, Inside, Filling
  <2>6. OneInside'
    BY <1>0, <1>2, <1>4, <2>2, <2>3, <2>5 DEF LogInv, OneInside, Inside, Filling
  <2> QED
    BY <1>2, <2>2, <2>4, <2>6 DEF LogInv, EntriesOwn
<1> QED
  BY <1>3, <1>4 DEF LogItem

LEMMA PublishInv ==
  ASSUME LogInv, NEW t \in Threads, Publish(t)
  PROVE  LogInv'
<1>1. LogTypeOK'
  <2>1. created' \in 0..LoggerBound
    BY LogAssumption DEF Publish, LogInv, LogTypeOK, LogLocked, loggers
  <2>2. instance' \in 0..created' /\ dead' \subseteq 1..created'
    BY LoggersTyped DEF Publish, LogInv, LogLocked, loggers
  <2>3. lpc' \in [Threads -> {"out", "none", "ask", "lock", "create", "items",
                          "publish", "delete", "unlock"}]
    BY LogAssumption DEF Publish, LogInv, LogTypeOK, NoLogger, At, Goto, LogLocked
  <2> QED
    BY <2>1, <2>2, <2>3 DEF Publish, LogInv, LogTypeOK
<1>2. OneInside'
  BY LogAssumption
     DEF Publish, LogInv, LogTypeOK, OneInside, NoEntry, At, Goto, loggers, LogLocked, Inside, Filling
<1>3. EntriesOwn'
  BY DEF Publish, LogInv, LogTypeOK, OneInside, EntriesOwn, At, Goto, loggers, LogLocked,
         Inside, Filling
<1>4. EntryHasLogger'
  BY DEF Publish, LogInv, LogTypeOK, EntryHasLogger, NoLogger, At, Goto, loggers, LogLocked
<1> QED
  BY <1>1, <1>2, <1>3, <1>4 DEF LogInv

LEMMA DeleteEntryInv ==
  ASSUME LogInv, NEW t \in Threads, DeleteEntry(t)
  PROVE  LogInv'
BY LogAssumption
   DEF DeleteEntry, LogInv, LogTypeOK, OneInside, EntriesOwn,
       EntryHasLogger, NoLogger, NoEntry, At, Goto, loggers, Inside, Filling

LEMMA UnlockLogInv ==
  ASSUME LogInv, NEW t \in Threads, UnlockLog(t)
  PROVE  LogInv'
BY LogAssumption
   DEF UnlockLog, LogInv, LogTypeOK, OneInside, EntriesOwn,
       EntryHasLogger, NoLogger, NoEntry, At, Goto, loggers, Inside, Filling

LEMMA LogNextInv == LogInv /\ [LogNext]_logVars => LogInv'
<1> SUFFICES ASSUME LogInv, [LogNext]_logVars PROVE LogInv'
  OBVIOUS
<1>1. CASE InitLogger \/ CleanupLogger
  BY <1>1, InitLoggerInv, CleanupLoggerInv
<1>2. ASSUME NEW t \in Threads, LogBegin(t)
      PROVE  LogInv'
  BY <1>2, FetchLoggerInv, InitTsInv, LogNeededInv, LockLogInv, CreateEntryInv
     DEF LogBegin
<1>3. ASSUME NEW t \in Threads, LogItem(t)
      PROVE  LogInv'
  BY <1>3, LogItemInv
<1>4. ASSUME NEW t \in Threads, LogEnd(t)
      PROVE  LogInv'
  BY <1>4, PublishInv, DeleteEntryInv, UnlockLogInv DEF LogEnd
<1>5. CASE UNCHANGED logVars
  BY <1>5 DEF logVars, LogInv, LogTypeOK, OneInside, EntriesOwn, EntryHasLogger
<1> QED
  BY <1>1, <1>2, <1>3, <1>4, <1>5 DEF LogNext

THEOREM LogInvariant == LogSpec => []LogInv
<1>1. LogInit => LogInv
  BY LogInitInv
<1>2. LogInv /\ [LogNext]_logVars => LogInv'
  BY LogNextInv
<1> QED
  BY <1>1, <1>2, PTL DEF LogSpec

(* However many threads log at once, an entry holds what one of them       *)
(* logged between its LOG_BEGIN and its LOG_END.                           *)
THEOREM LogEntriesOwn == LogSpec => []EntriesOwn
<1>1. LogInv => EntriesOwn
  BY DEF LogInv
<1> QED
  BY <1>1, LogInvariant, PTL

(* Also with cleanup(), an entry has its logger until it is deleted.       *)
THEOREM LogEntryHasLogger == LogSpec => []EntryHasLogger
<1>1. LogInv => EntryHasLogger
  BY DEF LogInv
<1> QED
  BY <1>1, LogInvariant, PTL
-----------------------------------------------------------------------------
(* The get.                                                                *)

(* An answer to this request, if it is no error, carries a value the agent *)
(* gave; so does the Pdu once get() has succeeded, and get() succeeds only *)
(* on an open session.                                                     *)
GetInv ==
  /\ GetTypeOK
  /\ \A a \in answers : a.id = ThisId /\ a.error = FALSE => a.value \in given
  /\ gpc = "wait" => session = "open"
  /\ gpc = "print" \/ (gpc = "check" /\ status = "success") =>
       session = "open" /\ vbs[1] \in given
  /\ printed # << >> => gpc = "end"
  /\ PrintsAnswer

LEMMA GetInitInv == GetInit => GetInv
<1> SUFFICES ASSUME GetInit PROVE GetInv
  OBVIOUS
<1>1. << >> \in Seq(AgentValues \cup {NoValue})
  OBVIOUS
<1> QED
  BY <1>1 DEF GetInit, GetInv, GetTypeOK, Answers, PrintsAnswer, NoTarget

LEMMA ReceiveInv == GetInv /\ Receive => GetInv'
<1> SUFFICES ASSUME GetInv, Receive PROVE GetInv'
  OBVIOUS
<1>1. PICK a \in answers :
        /\ a.id = ThisId
        /\ status' = (IF a.error THEN "error" ELSE "success")
        /\ vbs' = <<a.value>>
  BY DEF Receive
<1>2. a.error \in BOOLEAN /\ a.value \in AgentValues \cup {NoValue}
  BY <1>1 DEF GetInv, GetTypeOK, Answers
<1>3. status' = "success" => a.error = FALSE /\ vbs'[1] \in given
  BY <1>1, <1>2 DEF GetInv
<1>4. GetTypeOK'
  BY <1>1, <1>2 DEF Receive, GetInv, GetTypeOK, network
<1> QED
  BY <1>3, <1>4 DEF Receive, GetInv, network, PrintsAnswer

LEMMA PrintVbInv == GetInv /\ PrintVb => GetInv'
<1> SUFFICES ASSUME GetInv, PrintVb PROVE GetInv'
  OBVIOUS
<1>1. /\ printed' = <<vbs[1]>> /\ vb' = vbs[1] /\ gpc' = "end"
      /\ vbs[1] \in given /\ session = "open"
      /\ UNCHANGED <<session, status, vbs, target, sends, network>>
  BY DEF PrintVb, GetInv
<1>2. printed'[1] = vbs[1]
  BY <1>1
<1>3. vbs[1] \in AgentValues
  BY <1>1 DEF GetInv, GetTypeOK
<1>4. GetTypeOK'
  BY <1>1, <1>3 DEF GetInv, GetTypeOK, network
<1> QED
  BY <1>1, <1>2, <1>4 DEF GetInv, network, PrintsAnswer

LEMMA AgentAnswersInv == GetInv /\ AgentAnswers => GetInv'
<1> SUFFICES ASSUME GetInv, AgentAnswers PROVE GetInv'
  OBVIOUS
<1>1. [id |-> ThisId, value |-> agentValue, error |-> FALSE] \in Answers
      /\ [id |-> ThisId, value |-> NoValue, error |-> TRUE] \in Answers
  BY GetAssumption DEF GetInv, GetTypeOK, Answers
<1>2. given \subseteq given' /\ answers' \subseteq Answers /\ given' \subseteq AgentValues
  BY <1>1 DEF AgentAnswers, GetInv, GetTypeOK
<1>3. UNCHANGED <<gpc, status, sends, objects, agentValue, asked, printed>>
  BY DEF AgentAnswers
<1>4. \A a \in answers' : a.id = ThisId /\ a.error = FALSE => a.value \in given'
  BY <1>2 DEF AgentAnswers, GetInv
<1>5. GetTypeOK'
  BY <1>2, <1>3 DEF GetInv, GetTypeOK, objects
<1> QED
  BY <1>2, <1>3, <1>4, <1>5 DEF GetInv, PrintsAnswer, objects

LEMMA OtherStepsInv ==
  ASSUME GetInv,
         OpenSession \/ BuildPdu \/ MakeTarget \/ StartGet \/ Resend \/ GiveUp
           \/ CheckStatus \/ AgentChanges
  PROVE  GetInv'
<1>1. GetTypeOK'
  <2>1. CASE BuildPdu
    <3>1. <<NoValue>> \in Seq(AgentValues \cup {NoValue})
      OBVIOUS
    <3> QED
      BY <2>1, <3>1 DEF BuildPdu, GetInv, GetTypeOK, network
  <2>2. CASE MakeTarget
    <3>1. /\ target' = [valid |-> TRUE, retries |-> 1] /\ gpc' = "get"
          /\ UNCHANGED <<session, status, vb, vbs, sends, network, printed>>
      BY <2>2 DEF MakeTarget, RetriesSet
    <3>2. target' \in [valid : BOOLEAN, retries : Nat]
      BY <3>1
    <3> QED
      BY <3>1, <3>2 DEF GetInv, GetTypeOK, network
  <2>3. CASE OpenSession
    BY <2>3 DEF OpenSession, GetInv, GetTypeOK, network
  <2>4. CASE StartGet \/ Resend
    <3>1. asked' \in BOOLEAN /\ status' \in {"unset", "success", "error"}
      BY <2>4 DEF StartGet, Resend, GetInv, GetTypeOK
    <3>2. sends' \in Nat
      BY <2>4 DEF StartGet, Resend, GetInv, GetTypeOK
    <3>3. gpc' \in {"wait", "check"}
      BY <2>4 DEF StartGet, Resend
    <3>4. UNCHANGED <<objects, agentValue, answers, given, printed>>
      BY <2>4 DEF StartGet, Resend
    <3> QED
      BY <3>1, <3>2, <3>3, <3>4 DEF GetInv, GetTypeOK, objects
  <2>5. CASE GiveUp \/ CheckStatus \/ AgentChanges
    BY <2>5 DEF GiveUp, CheckStatus, AgentChanges, GetInv, GetTypeOK, network, objects
  <2> QED
    BY <2>1, <2>2, <2>3, <2>4, <2>5
<1> QED
  BY <1>1 DEF OpenSession, BuildPdu, MakeTarget, StartGet, Resend, GiveUp, CheckStatus,
              AgentChanges, GetInv, network, objects, PrintsAnswer

LEMMA GetNextInv == GetInv /\ [GetNext]_getVars => GetInv'
<1> SUFFICES ASSUME GetInv, [GetNext]_getVars PROVE GetInv'
  OBVIOUS
<1>1. CASE UNCHANGED getVars
  BY <1>1 DEF getVars, GetInv, GetTypeOK, PrintsAnswer
<1> QED
  BY <1>1, ReceiveInv, PrintVbInv, AgentAnswersInv, OtherStepsInv DEF GetNext, MainStep

LEMMA GetInvariant == GetSafety => []GetInv
BY GetInitInv, GetNextInv, PTL DEF GetSafety

(* What is printed is the agent's answer to this request, whatever is      *)
(* lost, repeated or late, and also if the session could not be opened.    *)
THEOREM GetPrintsAnswer == GetSpec => []PrintsAnswer
<1>1. GetInv => PrintsAnswer
  BY DEF GetInv
<1> QED
  BY <1>1, GetInvariant, PTL DEF GetSpec
-----------------------------------------------------------------------------
(* The value classes.                                                      *)

(* The fields of a class are true or false, and nothing is written past    *)
(* the object into one that keeps halves.                                  *)
ClassOK(c) ==
  /\ c.checked \in BOOLEAN /\ c.halves \in BOOLEAN /\ c.parsed \in BOOLEAN
  /\ c.inside \in BOOLEAN /\ c.indexed \in BOOLEAN /\ c.pointer \in BOOLEAN
  /\ c.styled \in BOOLEAN /\ c.wiped \in BOOLEAN
  /\ c.halves => ~c.indexed /\ ~c.pointer /\ ~c.parsed /\ ~c.inside
  /\ c.inside => c.parsed

LEMMA ClassesOK == \A c \in Classes : ClassOK(c)
<1>1. ClassOK(Plain)
  BY DEF ClassOK, Plain
<1>2. ClassOK(SnmpUInt32) /\ ClassOK(SnmpInt32)
  BY DEF ClassOK, Plain, SnmpUInt32, SnmpInt32
<1>3. ClassOK(Counter64)
  BY DEF ClassOK, Plain, Counter64
<1>4. ClassOK(OctetStr) /\ ClassOK(Oid)
  BY DEF ClassOK, Plain, OctetStr, Oid
<1>5. ClassOK(Address) /\ ClassOK([Address EXCEPT !.wiped = TRUE])
  BY DEF ClassOK, Plain, Address
<1> QED
  BY <1>1, <1>2, <1>3, <1>4, <1>5
  DEF Classes, Counter32, Gauge32, TimeTicks, OpaqueStr, IpAddress, UdpAddress

(* The halves of a number, and the number of two halves.                   *)
Half == 0..HalfRadix - 1

LEMMA HalvesOfNumber ==
  ASSUME NEW v \in Numbers
  PROVE  High(v) \in Half /\ Low(v) \in Half /\ High(v) * HalfRadix + Low(v) = v
<1> USE PrintedAssumption DEF Numbers, Half, High, Low
<1>1. /\ v \div HalfRadix \in Nat /\ v % HalfRadix \in Half
      /\ v = (v \div HalfRadix) * HalfRadix + (v % HalfRadix)
  BY Z3
<1>2. v \div HalfRadix < HalfRadix
  <2> DEFINE q == v \div HalfRadix
  <2>1. SUFFICES ASSUME q >= HalfRadix PROVE FALSE
    BY <1>1
  <2>2. q * HalfRadix >= HalfRadix * HalfRadix
    <3> HIDE DEF q
    <3>1. q \in Nat
      BY <1>1 DEF q
    <3> QED
      BY <2>1, <3>1, Z3
  <2> QED
    BY <1>1, <2>2
<1> QED
  BY <1>1, <1>2

LEMMA NumberOfHalves ==
  ASSUME NEW h \in Half, NEW x \in Half
  PROVE  /\ h * HalfRadix + x \in Numbers
         /\ High(h * HalfRadix + x) = h /\ Low(h * HalfRadix + x) = x
<1> USE PrintedAssumption DEF Half
<1>1. h * HalfRadix + x \in Numbers
  <2>1. h * HalfRadix <= (HalfRadix - 1) * HalfRadix
    BY Z3
  <2>2. (HalfRadix - 1) * HalfRadix + HalfRadix = HalfRadix * HalfRadix
    BY Z3
  <2> QED
    BY <2>1, <2>2 DEF Numbers
<1>2. High(h * HalfRadix + x) = h
  BY Z3 DEF High
<1>3. Low(h * HalfRadix + x) = x
  BY Z3 DEF Low
<1> QED
  BY <1>1, <1>2, <1>3

(* The number that a Counter64 converts to, whatever its halves hold.      *)
LEMMA NumberOfLongs ==
  ASSUME NEW h \in Longs, NEW x \in Longs
  PROVE  (h * HalfRadix + x) % (HalfRadix * HalfRadix) \in Numbers
<1>1. HalfRadix * HalfRadix \in Nat \ {0}
  BY PrintedAssumption, Z3
<1>2. h * HalfRadix + x \in Nat
  BY PrintedAssumption, Z3 DEF Longs
<1> DEFINE r == HalfRadix * HalfRadix
           num == h * HalfRadix + x
<1> HIDE DEF r, num
<1>3. r \in Nat \ {0} /\ num \in Nat
  BY <1>1, <1>2 DEF r, num
<1>4. num % r \in 0..r - 1
  BY <1>3, Z3
<1> QED
  BY <1>4 DEF r, num, Numbers

LEMMA WholeNumber == ASSUME NEW num \in Numbers PROVE num % (HalfRadix * HalfRadix) = num
<1> DEFINE r == HalfRadix * HalfRadix
<1>1. r \in Nat \ {0} /\ num \in 0..r - 1
  BY PrintedAssumption, Z3 DEF Numbers
<1> HIDE DEF r
<1>2. num % r = num
  BY <1>1, Z3
<1> QED
  BY <1>2 DEF r

ValueOK(c, x) == IF c.halves THEN x \in [hi : Longs, lo : Longs] ELSE x \in Numbers

(* The halves that hold the 32-bit number put in, and the number itself.   *)
HalvesHeld(c, x, num, w) ==
  IF c.halves THEN ("hi" \notin w => x.hi = High(num)) /\ ("lo" \notin w => x.lo = Low(num))
              ELSE x = num

LEMMA StoredNumber ==
  ASSUME NEW c, NEW v \in Numbers
  PROVE  ValueOK(c, Stored(c, v)) /\ HalvesHeld(c, Stored(c, v), v, {})
<1>1. High(v) \in Longs /\ Low(v) \in Longs
  BY HalvesOfNumber, PrintedAssumption DEF Half, Longs
<1> QED
  BY <1>1 DEF ValueOK, HalvesHeld, Stored

LEMMA NumberRead ==
  ASSUME NEW c, NEW x, ValueOK(c, x)
  PROVE  ToNumber(c, x) \in Numbers
BY NumberOfLongs DEF ValueOK, ToNumber

LEMMA HalvesRead ==
  ASSUME NEW c, NEW x, NEW num \in Numbers, HalvesHeld(c, x, num, {})
  PROVE  ToNumber(c, x) = num
<1>1. CASE c.halves
  <2>1. x.hi = High(num) /\ x.lo = Low(num)
    BY <1>1 DEF HalvesHeld
  <2>2. High(num) * HalfRadix + Low(num) = num
    BY HalvesOfNumber
  <2> QED
    BY <1>1, <2>1, <2>2, WholeNumber DEF ToNumber
<1>2. CASE ~c.halves
  BY <1>2 DEF HalvesHeld, ToNumber
<1> QED
  BY <1>1, <1>2

(* What replacing one half leaves of the other.                            *)
LEMMA PutHalves ==
  ASSUME NEW num \in Numbers, NEW half \in Parts64, NEW x \in Longs
  PROVE  /\ PutHalf(num, half, x) \in Numbers
         /\ half = "hi" => Low(PutHalf(num, half, x)) = Low(num)
         /\ half = "lo" => High(PutHalf(num, half, x)) = High(num)
         /\ half = "hi" /\ x < HalfRadix => High(PutHalf(num, half, x)) = x
         /\ half = "lo" /\ x < HalfRadix => Low(PutHalf(num, half, x)) = x
<1>1. CASE x >= HalfRadix
  BY <1>1, PrintedAssumption DEF PutHalf, Longs
<1>2. CASE ~(x >= HalfRadix)
  <2>1. x \in Half /\ High(num) \in Half /\ Low(num) \in Half
    BY <1>2, HalvesOfNumber, PrintedAssumption DEF Half, Longs
  <2>2. PutHalf(num, half, x) = IF half = "hi" THEN x * HalfRadix + Low(num)
                                             ELSE High(num) * HalfRadix + x
    BY <1>2 DEF PutHalf, Low, High
  <2>3. CASE half = "hi"
    BY <2>1, <2>2, <2>3, NumberOfHalves
  <2>4. CASE half = "lo"
    BY <2>1, <2>2, <2>4, NumberOfHalves
  <2> QED
    BY <2>3, <2>4 DEF Parts64
<1> QED
  BY <1>1, <1>2

LEMMA ZeroIsNumber == 0 \in Numbers
<1>1. HalfRadix * HalfRadix >= 1
  BY PrintedAssumption, Z3
<1> QED
  BY <1>1, PrintedAssumption DEF Numbers

(* A text that will be shown again, because the object takes itself for    *)
(* unchanged and is valid and has not been written behind its back, shows  *)
(* the number the object has; and that number is the one that was put in.  *)
TextKept ==
  validFlag /\ ~changed /\ ~late =>
    /\ text \in Texts /\ text.number = ToNumber(class, value)
    /\ ~class.styled => text.style = "hex"

PrintInv ==
  /\ class \in ClassesUsed /\ ValueOK(class, value)
  /\ validFlag \in BOOLEAN /\ changed \in BOOLEAN /\ reference \in BOOLEAN
  /\ late \in BOOLEAN /\ style \in Styles /\ text \in {NoText} \cup Texts
  /\ put \in Numbers /\ wide \subseteq Parts64
  /\ HalvesHeld(class, value, put, wide)
  /\ reference => class.indexed
  /\ TextKept

LEMMA ClassUsedOK == ASSUME PrintInv PROVE ClassOK(class)
BY ClassesOK, PrintedAssumption DEF PrintInv

LEMMA PrintInitInv == PrintInit => PrintInv
<1> SUFFICES ASSUME PrintInit PROVE PrintInv
  OBVIOUS
<1>1. ClassOK(class)
  BY ClassesOK, PrintedAssumption DEF PrintInit
<1>2. ValueOK(class, value) /\ HalvesHeld(class, value, put, wide)
  BY StoredNumber, ZeroIsNumber DEF PrintInit
<1> QED
  BY <1>1, <1>2, ZeroIsNumber DEF PrintInit, PrintInv, TextKept, Styles, ClassOK

(* A new value is put in whole: by an assignment or by clear().            *)
LEMMA BecameInv ==
  ASSUME PrintInv, NEW v \in Numbers, NEW valid \in BOOLEAN, Became(v, valid)
  PROVE  PrintInv'
<1>1. ValueOK(class, Stored(class, v)) /\ HalvesHeld(class, Stored(class, v), v, {})
  BY StoredNumber
<1>2. class.inside \in BOOLEAN
  BY ClassUsedOK DEF ClassOK
<1> QED
  BY <1>1, <1>2 DEF PrintInv, Became, TextKept

LEMMA ClearValueInv == PrintInv /\ ClearValue => PrintInv'
<1> SUFFICES ASSUME PrintInv, ClearValue PROVE PrintInv'
  OBVIOUS
<1>1. ValueOK(class, Stored(class, 0)) /\ HalvesHeld(class, Stored(class, 0), 0, {})
  BY StoredNumber, ZeroIsNumber
<1>2. ClassOK(class)
  BY ClassUsedOK
<1>3. changed' \in BOOLEAN /\ text' \in {NoText} \cup Texts
  BY DEF PrintInv, ClearValue
<1>4. validFlag' => changed'
  BY <1>2 DEF ClearValue, ClassOK
<1> QED
  BY <1>1, <1>2, <1>3, <1>4, ZeroIsNumber DEF PrintInv, ClearValue, TextKept, ClassOK

(* set_high() and set_low() replace one half of the number put in.         *)
LEMMA SetHalfInv ==
  ASSUME PrintInv, NEW half \in Parts64, NEW x \in Longs, SetHalf(half, x)
  PROVE  PrintInv'
<1>1. /\ class.halves /\ value \in [hi : Longs, lo : Longs]
      /\ put \in Numbers /\ wide \subseteq Parts64
      /\ "hi" \notin wide => value.hi = High(put)
      /\ "lo" \notin wide => value.lo = Low(put)
  BY DEF SetHalf, PrintInv, ValueOK, HalvesHeld
<1>2. /\ value' = [value EXCEPT ![half] = x] /\ put' = PutHalf(put, half, x)
      /\ wide' = (wide \ {half}) \cup TooWide(half, x) /\ class' = class
  BY DEF SetHalf
<1>3. value' \in [hi : Longs, lo : Longs] /\ wide' \subseteq Parts64
  BY <1>1, <1>2 DEF TooWide, Parts64
<1>4. put' \in Numbers
  BY <1>1, <1>2, PutHalves
<1>5. x < HalfRadix \/ half \in wide'
  BY <1>2, PrintedAssumption DEF TooWide, Longs
<1>6. HalvesHeld(class, value, put, wide)'
  <2>1. CASE half = "hi"
    <3>1. value'.hi = x /\ value'.lo = value.lo /\ ("lo" \in wide => "lo" \in wide')
      BY <1>1, <1>2, <2>1
    <3> QED
      BY <1>1, <1>2, <1>5, <2>1, <3>1, PutHalves DEF HalvesHeld
  <2>2. CASE half = "lo"
    <3>1. value'.lo = x /\ value'.hi = value.hi /\ ("hi" \in wide => "hi" \in wide')
      BY <1>1, <1>2, <2>2
    <3> QED
      BY <1>1, <1>2, <1>5, <2>2, <3>1, PutHalves DEF HalvesHeld
  <2> QED
    BY <2>1, <2>2 DEF Parts64
<1> QED
  BY <1>1, <1>2, <1>3, <1>4, <1>6 DEF SetHalf, PrintInv, TextKept, ValueOK

(* A Counter64 made of two halves has the number of the two.               *)
LEMMA AssignHalvesInv ==
  ASSUME PrintInv, NEW h \in Longs, NEW l \in Longs, AssignHalves(h, l)
  PROVE  PrintInv'
<1> DEFINE num == PutHalf(put, "hi", h)
<1>1. /\ class' = class /\ class.halves /\ value' = [hi |-> h, lo |-> l]
      /\ put' = PutHalf(num, "lo", l)
      /\ wide' = TooWide("hi", h) \cup TooWide("lo", l)
  BY DEF AssignHalves
<1>2. num \in Numbers /\ (h < HalfRadix => High(num) = h)
  BY PutHalves DEF PrintInv, Parts64
<1> HIDE DEF num
<1>3. /\ put' \in Numbers /\ High(put') = High(num)
      /\ l < HalfRadix => Low(put') = l
  BY <1>1, <1>2, PutHalves DEF Parts64
<1>4. (h < HalfRadix \/ "hi" \in wide') /\ (l < HalfRadix \/ "lo" \in wide')
  BY <1>1, PrintedAssumption DEF TooWide, Longs
<1>5. HalvesHeld(class, value, put, wide)'
  BY <1>1, <1>2, <1>3, <1>4 DEF HalvesHeld
<1>6. ValueOK(class, value)' /\ wide' \subseteq Parts64
  BY <1>1 DEF ValueOK, TooWide, Parts64
<1> QED
  BY <1>3, <1>5, <1>6 DEF AssignHalves, PrintInv, TextKept

(* Writing past the object is noted only while it is marked as changed.    *)
LEMMA WrittenPastInv ==
  ASSUME PrintInv, NEW v \in Numbers, WriteReference(v) \/ WritePointer(v)
  PROVE  PrintInv'
<1>1. ~class.halves
  BY ClassUsedOK DEF WriteReference, WritePointer, PrintInv, ClassOK
<1>2. /\ value' = v /\ put' = v /\ late' = (late \/ ~changed)
      /\ UNCHANGED <<class, validFlag, changed, text, style, reference, wide>>
  BY DEF WriteReference, WritePointer
<1> QED
  BY <1>1, <1>2 DEF PrintInv, ValueOK, HalvesHeld, TextKept

LEMMA PrintValueInv == PrintInv /\ PrintValue => PrintInv'
<1> SUFFICES ASSUME PrintInv, PrintValue PROVE PrintInv'
  OBVIOUS
<1>1. TextNow \in Texts /\ TextNow.number = ToNumber(class, value)
      /\ (~class.styled => TextNow.style = "hex")
  BY NumberRead DEF PrintInv, TextNow, Texts, Styles
<1>2. UNCHANGED <<class, value, validFlag, style, reference, put, wide>>
      /\ changed' = FALSE /\ late' \in BOOLEAN
  BY DEF PrintValue, PrintInv
<1>3. CASE Remake
  <2>1. text' = TextNow
    BY <1>3 DEF PrintValue, Printed
  <2>2. TextKept'
    BY <1>1, <1>2, <2>1 DEF TextKept
  <2> QED
    BY <1>1, <1>2, <2>1, <2>2 DEF PrintInv
<1>4. CASE ~Remake
  <2>1. text' = text /\ ~changed /\ late' = late
    BY <1>4 DEF PrintValue, PrintInv, Printed, Remake
  <2> QED
    BY <1>2, <2>1 DEF PrintInv, TextKept
<1> QED
  BY <1>3, <1>4

LEMMA MarksInv ==
  ASSUME PrintInv, AssignSelf \/ TakeReference \/ (\E s \in Styles : SetStyle(s))
  PROVE  PrintInv'
<1>1. UNCHANGED <<class, value, text, put, wide>>
  BY DEF AssignSelf, TakeReference, SetStyle
<1>2. validFlag' \in BOOLEAN /\ changed' \in BOOLEAN /\ late' \in BOOLEAN
  BY DEF AssignSelf, TakeReference, SetStyle, PrintInv
<1>3. style' \in Styles
  BY DEF AssignSelf, TakeReference, SetStyle, PrintInv
<1>4. reference' = reference \/ (reference' = TRUE /\ class.indexed)
  <2>1. CASE TakeReference
    BY <2>1 DEF TakeReference
  <2>2. CASE ~TakeReference
    BY <2>2 DEF AssignSelf, SetStyle
  <2> QED
    BY <2>1, <2>2
<1>5. reference' \in BOOLEAN /\ (reference' => class.indexed)
  <2>1. CASE reference' = reference
    BY <2>1 DEF PrintInv
  <2>2. CASE reference' = TRUE /\ class.indexed
    BY <2>2
  <2> QED
    BY <1>4, <2>1, <2>2
<1>6. changed' = TRUE \/ (changed' = changed /\ validFlag' = validFlag /\ late' = late)
  <2>1. CASE AssignSelf
    BY <2>1 DEF AssignSelf
  <2>2. CASE ~AssignSelf
    BY <2>2 DEF TakeReference, SetStyle
  <2> QED
    BY <2>1, <2>2
<1> QED
  BY <1>1, <1>2, <1>3, <1>5, <1>6 DEF PrintInv, TextKept

LEMMA PrintNextInv == PrintInv /\ [PrintNext]_printVars => PrintInv'
<1> SUFFICES ASSUME PrintInv, [PrintNext]_printVars PROVE PrintInv'
  OBVIOUS
<1>1. ASSUME NEW v \in Numbers, AssignValue(v) \/ AssignObject(v) PROVE PrintInv'
  <2>1. PICK valid \in BOOLEAN : Became(v, valid)
    BY <1>1, ClassUsedOK DEF AssignValue, AssignObject, ClassOK
  <2> QED
    BY <2>1, BecameInv
<1>2. ASSUME NEW v \in Numbers, WriteReference(v) \/ WritePointer(v) PROVE PrintInv'
  BY <1>2, WrittenPastInv
<1>3. ASSUME NEW half \in Parts64, NEW x \in Longs, SetHalf(half, x) PROVE PrintInv'
  BY <1>3, SetHalfInv
<1>4. ASSUME NEW h \in Longs, NEW l \in Longs, AssignHalves(h, l) PROVE PrintInv'
  BY <1>4, AssignHalvesInv
<1>5. CASE UNCHANGED printVars
  BY <1>5 DEF printVars, PrintInv, TextKept
<1> QED
  BY <1>1, <1>2, <1>3, <1>4, <1>5, ClearValueInv, PrintValueInv, MarksInv DEF PrintNext

THEOREM PrintInvariant == PrintSpec => []PrintInv
BY PrintInitInv, PrintNextInv, PTL DEF PrintSpec

(* The number read is the number put in, for halves of any width kept in   *)
(* integers that are as wide or wider.                                     *)
THEOREM NumberIsHeld == PrintSpec => []HoldsNumber
<1>1. PrintInv => HoldsNumber
  BY HalvesRead DEF PrintInv, HoldsNumber
<1> QED
  BY <1>1, PrintInvariant, PTL

(* A valid object of any value class prints the value it has in the style  *)
(* set now, whatever was printed before and however the style was switched *)
(* back and forth in between, unless it was last written through a pointer *)
(* or a reference after its text was made.                                 *)
THEOREM CurrentIsPrinted == PrintSpec => []PrintsCurrent
<1>1. PrintInv => PrintsCurrent
  <2> SUFFICES ASSUME PrintInv, validFlag, ~late, ~Remake PROVE text = TextNow
    BY DEF PrintsCurrent, Printed
  <2>1. /\ text \in Texts /\ text.number = ToNumber(class, value)
        /\ ~class.styled => text.style = "hex"
    BY DEF PrintInv, TextKept, Remake
  <2>2. text # NoText
    BY <2>1, PrintedAssumption
  <2>3. text.style = IF class.styled THEN style ELSE "hex"
    BY <2>1, <2>2 DEF Remake
  <2>4. text = [number |-> text.number, style |-> text.style]
    BY <2>1 DEF Texts
  <2> QED
    BY <2>1, <2>3, <2>4 DEF TextNow
<1> QED
  BY <1>1, PrintInvariant, PTL

(* The types of an object of a value class.                                *)
LEMMA PrintTypes == PrintInv => PrintTypeOK
<1> SUFFICES ASSUME PrintInv PROVE PrintTypeOK
  OBVIOUS
<1>1. ToNumber(class, value) \in Numbers /\ put \in Numbers
  BY NumberRead DEF PrintInv
<1> QED
  BY <1>1 DEF PrintInv, PrintTypeOK
-----------------------------------------------------------------------------
(* The variable bindings.                                                  *)

(* ValuesOwned, one direction at a time.                                   *)
Owned ==
  /\ \A p \in Places : place[p].obj # Null => heap[place[p].obj] # NoBinding
  /\ \A p, q \in Places : place[p].obj = place[q].obj /\ place[p].obj # Null => p = q
  /\ \A o \in Objects : heap[o] # NoBinding => \E p \in Places : place[p].obj = o

BindInv == BindTypeOK /\ Owned /\ BindingsKept

LEMMA ValuesAreOwned == BindTypeOK /\ Owned => ValuesOwned
<1> SUFFICES ASSUME BindTypeOK, Owned, NEW o \in Objects
             PROVE  IF heap[o] = NoBinding THEN \A p \in Places : place[p].obj # o
                    ELSE \E p \in Places : \A q \in Places : place[q].obj = o <=> q = p
  BY DEF ValuesOwned
<1>1. o # Null
  BY DEF Objects, Null
<1>2. CASE heap[o] = NoBinding
  BY <1>1, <1>2 DEF Owned
<1>3. CASE heap[o] # NoBinding
  <2>1. PICK p \in Places : place[p].obj = o
    BY <1>3 DEF Owned
  <2> QED
    BY <1>1, <1>3, <2>1 DEF Owned
<1> QED
  BY <1>2, <1>3

(* There is always room for one value more than there are places.          *)
LEMMA FreeObject == ASSUME BindTypeOK, Owned PROVE \E o \in Objects : heap[o] = NoBinding
<1> SUFFICES ASSUME \A o \in Objects : heap[o] # NoBinding PROVE FALSE
  OBVIOUS
<1> DEFINE owner == [o \in Objects |-> CHOOSE p \in Places : place[p].obj = o]
<1>1. \A o \in Objects : owner[o] \in Places /\ place[owner[o]].obj = o
  BY DEF Owned
<1>2. owner \in [Objects -> Places]
  BY <1>1
<1>3. /\ IsFiniteSet(Places) /\ Cardinality(Places) = PduMax + OwnVbs + 1
      /\ IsFiniteSet(Objects) /\ Cardinality(Objects) = PduMax + OwnVbs + 2
  <2>1. PduMax + OwnVbs \in Nat
    BY BindingAssumption
  <2>2. IsFiniteSet(Places) /\ Cardinality(Places) = PduMax + OwnVbs + 1
    BY <2>1, FS_Interval, SMT DEF Places
  <2>3. IsFiniteSet(Objects) /\ Cardinality(Objects) = PduMax + OwnVbs + 2
    BY <2>1, FS_Interval, SMT DEF Objects
  <2> QED
    BY <2>2, <2>3
<1>4. PICK o1 \in Objects, o2 \in Objects : o1 # o2 /\ owner[o1] = owner[o2]
  <2>1. Cardinality(Places) < Cardinality(Objects)
    BY <1>3, BindingAssumption
  <2> HIDE DEF owner
  <2> QED
    BY <1>2, <1>3, <2>1, FS_PigeonHole
<1> QED
  BY <1>1, <1>4

LEMMA FreedHeap ==
  ASSUME BindTypeOK, Owned, NEW p \in Places
  PROVE  /\ Freed(p) \in [Objects -> BoundValues \cup {NoBinding}]
         /\ \A q \in Places : q # p /\ place[q].obj # Null =>
              Freed(p)[place[q].obj] = heap[place[q].obj]
         /\ \A o \in Objects :
              Freed(p)[o] = IF o = place[p].obj THEN NoBinding ELSE heap[o]
         /\ NewObject(Freed(p)) \in Objects /\ Freed(p)[NewObject(Freed(p))] = NoBinding
<1>1. /\ Freed(p) \in [Objects -> BoundValues \cup {NoBinding}]
      /\ \A o \in Objects :
           Freed(p)[o] = IF o = place[p].obj THEN NoBinding ELSE heap[o]
  BY DEF BindTypeOK, Freed, Objects, Null
<1>2. \A q \in Places : place[q].obj # Null => place[q].obj \in Objects
  BY DEF BindTypeOK
<1>3. \A q \in Places : q # p /\ place[q].obj # Null => place[q].obj # place[p].obj
  BY DEF Owned
<1>4. \E o \in Objects : Freed(p)[o] = NoBinding
  BY <1>1, FreeObject
<1> QED
  BY <1>1, <1>2, <1>3, <1>4 DEF NewObject

(* The heap, the places and their history, without the count.              *)
Bindings ==
  /\ heap \in [Objects -> BoundValues \cup {NoBinding}]
  /\ place \in [Places -> [obj : Objects \cup {Null}, exception : BOOLEAN]]
  /\ means \in [Places -> BoundValues \cup {NoBinding}]
  /\ Owned /\ BindingsKept

LEMMA StoreKeeps ==
  ASSUME BindInv, NEW p \in Places, NEW v \in BoundValues \cup {NoBinding},
         NEW exception \in BOOLEAN, Store(p, v, exception)
  PROVE  Bindings'
<1> DEFINE h == Freed(p)
           o == IF v = NoBinding THEN Null ELSE NewObject(h)
<1>1. /\ heap' = IF o = Null THEN h ELSE [h EXCEPT ![o] = v]
      /\ place' = [place EXCEPT ![p] = [obj |-> o, exception |-> exception]]
      /\ means' = [means EXCEPT ![p] = v]
  BY DEF Store
<1>2. /\ h \in [Objects -> BoundValues \cup {NoBinding}]
      /\ \A q \in Places : q # p /\ place[q].obj # Null =>
           h[place[q].obj] = heap[place[q].obj]
      /\ \A x \in Objects : h[x] = IF x = place[p].obj THEN NoBinding ELSE heap[x]
      /\ v # NoBinding => o \in Objects /\ h[o] = NoBinding
      /\ v = NoBinding <=> o = Null
  BY FreedHeap DEF BindInv, Objects, Null
<1> HIDE DEF h, o
<1>3. /\ heap' \in [Objects -> BoundValues \cup {NoBinding}]
      /\ \A x \in Objects : heap'[x] = IF x = o THEN v ELSE h[x]
  BY <1>1, <1>2 DEF Objects, Null
<1>4. /\ place' \in [Places -> [obj : Objects \cup {Null}, exception : BOOLEAN]]
      /\ place'[p].obj = o /\ \A q \in Places : q # p => place'[q] = place[q]
  BY <1>1, <1>2 DEF BindInv, BindTypeOK
<1>5. /\ means' \in [Places -> BoundValues \cup {NoBinding}]
      /\ means'[p] = v /\ \A q \in Places : q # p => means'[q] = means[q]
  BY <1>1 DEF BindInv, BindTypeOK
<1>6. \A q \in Places : place[q].obj # Null => place[q].obj \in Objects
  BY DEF BindInv, BindTypeOK
<1>7. ASSUME NEW q \in Places, q # p, place[q].obj # Null
      PROVE  /\ heap'[place[q].obj] = heap[place[q].obj] /\ heap[place[q].obj] # NoBinding
             /\ place[q].obj # o
  BY <1>2, <1>3, <1>6, <1>7 DEF BindInv, Owned
<1>8. Owned'
  <2>1. ASSUME NEW q \in Places, place'[q].obj # Null
        PROVE  heap'[place'[q].obj] # NoBinding
    BY <1>2, <1>3, <1>4, <1>7, <2>1
  <2>2. ASSUME NEW q \in Places, NEW r \in Places,
               place'[q].obj = place'[r].obj, place'[q].obj # Null
        PROVE  q = r
    BY <1>4, <1>7, <2>2 DEF BindInv, Owned
  <2>3. ASSUME NEW x \in Objects, heap'[x] # NoBinding
        PROVE  \E q \in Places : place'[q].obj = x
    <3>1. CASE x = o
      BY <1>4, <3>1
    <3>2. CASE x # o
      <4>1. x # place[p].obj /\ heap[x] # NoBinding
        BY <1>2, <1>3, <2>3, <3>2
      <4>2. PICK q \in Places : place[q].obj = x
        BY <4>1 DEF BindInv, Owned
      <4> QED
        BY <1>4, <4>1, <4>2
    <3> QED
      BY <3>1, <3>2
  <2> QED
    BY <2>1, <2>2, <2>3 DEF Owned
<1>9. BindingsKept'
  <2>1. ASSUME NEW q \in Places PROVE ValueAt(q)' = means'[q]
    <3>1. CASE q = p
      BY <1>2, <1>3, <1>4, <1>5, <3>1 DEF ValueAt
    <3>2. CASE q # p
      <4>1. ValueAt(q) = means[q]
        BY DEF BindInv, BindingsKept
      <4> QED
        BY <1>4, <1>5, <1>7, <3>2, <4>1 DEF ValueAt
    <3> QED
      BY <3>1, <3>2
  <2> QED
    BY <2>1 DEF BindingsKept
<1> QED
  BY <1>3, <1>4, <1>5, <1>8, <1>9 DEF Bindings

LEMMA DeleteVbKeeps ==
  ASSUME BindInv, NEW k \in 1..vbCount, DeleteVb(k)
  PROVE  BindInv'
<1> DEFINE from(p) == IF p \in k..vbCount - 1 THEN p + 1 ELSE p
<1>1. /\ heap' = Freed(k) /\ vbCount' = vbCount - 1
      /\ place' = [p \in Places |-> IF p \in k..vbCount - 1 THEN place[p + 1]
                                    ELSE IF p = vbCount THEN Unbound ELSE place[p]]
      /\ means' = [p \in Places |-> IF p \in k..vbCount - 1 THEN means[p + 1]
                                    ELSE IF p = vbCount THEN NoBinding ELSE means[p]]
  BY DEF DeleteVb
<1>2. /\ PduMax \in Nat /\ OwnVbs \in Nat /\ vbCount \in 1..PduMax /\ k \in 1..vbCount
      /\ vbCount \in Places /\ k \in Places
  BY BindingAssumption DEF BindInv, BindTypeOK, Places
<1>3. \A p \in Places : p \in Int /\ from(p) \in Places /\ (p # vbCount => from(p) # k)
  BY <1>2 DEF Places
<1>4. \A p, q \in Places : p # vbCount /\ q # vbCount /\ from(p) = from(q) => p = q
  BY <1>2, <1>3 DEF Places
<1>5. \A q \in Places : q # k => \E p \in Places : p # vbCount /\ from(p) = q
  <2> SUFFICES ASSUME NEW q \in Places, q # k
               PROVE  \E p \in Places : p # vbCount /\ from(p) = q
    OBVIOUS
  <2>1. CASE q \in k + 1..vbCount
    <3>1. q - 1 \in Places /\ q - 1 # vbCount /\ from(q - 1) = q
      BY <1>2, <2>1 DEF Places
    <3> QED
      BY <3>1
  <2>2. CASE q \notin k + 1..vbCount
    <3>1. q # vbCount /\ from(q) = q
      BY <1>2, <2>2 DEF Places
    <3> QED
      BY <3>1
  <2> QED
    BY <2>1, <2>2
<1>6. \A p \in Places : /\ place'[p] = IF p = vbCount THEN Unbound ELSE place[from(p)]
                        /\ means'[p] = IF p = vbCount THEN NoBinding ELSE means[from(p)]
  BY <1>1, <1>2, <1>3
<1> HIDE DEF from
<1>7. /\ Freed(k) \in [Objects -> BoundValues \cup {NoBinding}]
      /\ \A q \in Places : q # k /\ place[q].obj # Null =>
           Freed(k)[place[q].obj] = heap[place[q].obj]
      /\ \A x \in Objects : Freed(k)[x] = IF x = place[k].obj THEN NoBinding ELSE heap[x]
  BY <1>2, FreedHeap DEF BindInv
<1>8. Unbound.obj = Null /\ Unbound \in [obj : Objects \cup {Null}, exception : BOOLEAN]
  BY DEF Unbound
<1>9. BindTypeOK'
  <2>1. place' \in [Places -> [obj : Objects \cup {Null}, exception : BOOLEAN]]
    <3>1. place' = [p \in Places |-> place'[p]]
      BY <1>1
    <3> QED
      BY <1>3, <1>6, <1>8, <3>1 DEF BindInv, BindTypeOK
  <2>2. means' \in [Places -> BoundValues \cup {NoBinding}]
    <3>1. means' = [p \in Places |-> means'[p]]
      BY <1>1
    <3> QED
      BY <1>3, <1>6, <3>1 DEF BindInv, BindTypeOK
  <2>3. heap' \in [Objects -> BoundValues \cup {NoBinding}] /\ vbCount' \in 0..PduMax
    BY <1>1, <1>2, <1>7
  <2> QED
    BY <2>1, <2>2, <2>3 DEF BindTypeOK
<1>10. Owned'
  <2>1. ASSUME NEW p \in Places, place'[p].obj # Null
        PROVE  heap'[place'[p].obj] # NoBinding /\ p # vbCount /\ place'[p] = place[from(p)]
    BY <1>1, <1>3, <1>6, <1>7, <1>8, <2>1 DEF BindInv, Owned
  <2>2. ASSUME NEW p \in Places, NEW q \in Places,
               place'[p].obj = place'[q].obj, place'[p].obj # Null
        PROVE  p = q
    <3>1. from(p) = from(q)
      BY <1>3, <2>1, <2>2 DEF BindInv, Owned
    <3> QED
      BY <1>4, <2>1, <2>2, <3>1
  <2>3. ASSUME NEW x \in Objects, heap'[x] # NoBinding
        PROVE  \E p \in Places : place'[p].obj = x
    <3>1. x # place[k].obj /\ heap[x] # NoBinding
      BY <1>1, <1>7, <2>3
    <3>2. PICK q \in Places : place[q].obj = x
      BY <3>1 DEF BindInv, Owned
    <3>3. PICK p \in Places : p # vbCount /\ from(p) = q
      BY <1>5, <3>1, <3>2
    <3> QED
      BY <1>6, <3>2, <3>3
  <2> QED
    BY <2>1, <2>2, <2>3 DEF Owned
<1>11. BindingsKept'
  <2>1. ASSUME NEW p \in Places PROVE ValueAt(p)' = means'[p]
    <3>1. CASE p = vbCount
      BY <1>6, <1>8, <3>1 DEF ValueAt
    <3>2. CASE p # vbCount
      <4>1. from(p) \in Places /\ from(p) # k /\ ValueAt(from(p)) = means[from(p)]
        BY <1>3, <3>2 DEF BindInv, BindingsKept
      <4> QED
        BY <1>1, <1>6, <1>7, <3>2, <4>1 DEF ValueAt
    <3> QED
      BY <3>1, <3>2
  <2> QED
    BY <2>1 DEF BindingsKept
<1> QED
  BY <1>9, <1>10, <1>11 DEF BindInv

LEMMA BindInitInv == BindInit => BindInv
<1> SUFFICES ASSUME BindInit PROVE BindInv
  OBVIOUS
<1>1. \A p \in Places : place[p].obj = Null /\ means[p] = NoBinding
  BY DEF BindInit, Unbound
<1>2. BindTypeOK
  BY BindingAssumption DEF BindInit, BindTypeOK, Unbound
<1> QED
  BY <1>1, <1>2 DEF BindInit, BindInv, Owned, BindingsKept, ValueAt

LEMMA BindNextInv == BindInv /\ [BindNext]_bindVars => BindInv'
<1> SUFFICES ASSUME BindInv, [BindNext]_bindVars PROVE BindInv'
  OBVIOUS
<1>1. /\ PduMax \in Nat /\ OwnVbs \in Nat /\ vbCount \in 0..PduMax
      /\ InUse \subseteq Places /\ 0 \in Places
  BY BindingAssumption DEF BindInv, BindTypeOK, InUse, Own, Places
<1>2. \A q \in Places : /\ ValueAt(q) \in BoundValues \cup {NoBinding}
                        /\ place[q].exception \in BOOLEAN
  BY DEF BindInv, BindTypeOK, ValueAt
<1>3. ASSUME NEW p \in Places, NEW w \in BoundValues \cup {NoBinding},
             NEW exception \in BOOLEAN, Store(p, w, exception), vbCount' \in 0..PduMax
      PROVE  BindInv'
  BY <1>3, StoreKeeps DEF Bindings, BindInv, BindTypeOK
<1>4. ASSUME NEW p \in InUse, NEW w \in BoundValues \cup {NoBinding}, SetValue(p, w)
      PROVE  BindInv'
  BY <1>1, <1>3, <1>4 DEF SetValue
<1>5. ASSUME NEW p \in InUse, SetException(p) \/ CloneValue(p) PROVE BindInv'
  BY <1>1, <1>2, <1>3, <1>5 DEF SetException, CloneValue
<1>6. ASSUME NEW p \in InUse, AppendVb(p) PROVE BindInv'
  <2>1. vbCount + 1 \in Places /\ vbCount' \in 0..PduMax
    BY <1>1, <1>6 DEF AppendVb, Places
  <2> QED
    BY <1>1, <1>2, <1>3, <1>6, <2>1 DEF AppendVb
<1>7. ASSUME NEW p \in InUse, NEW q \in InUse \cup {0}, CopyVb(p, q) PROVE BindInv'
  BY <1>1, <1>2, <1>3, <1>7 DEF CopyVb
<1>8. CASE DeleteClone
  BY <1>1, <1>3, <1>8 DEF DeleteClone
<1>9. ASSUME NEW k \in 1..vbCount, DeleteVb(k) PROVE BindInv'
  BY <1>9, DeleteVbKeeps
<1>10. CASE UNCHANGED bindVars
  BY <1>10 DEF bindVars, BindInv, BindTypeOK, Owned, BindingsKept, ValueAt
<1> QED
  BY <1>4, <1>5, <1>6, <1>7, <1>8, <1>9, <1>10 DEF BindNext

LEMMA BindInvariant == BindSpec => []BindInv
BY BindInitInv, BindNextInv, PTL DEF BindSpec

(* No value is lost or freed twice, for any number of Vbs: each has one    *)
(* owner, and the value that replaces it is a new object.                  *)
THEOREM ValuesHaveOneOwner == BindSpec => []ValuesOwned
<1>1. BindInv => ValuesOwned
  BY ValuesAreOwned DEF BindInv
<1> QED
  BY <1>1, BindInvariant, PTL

(* A Vb changes only by what is done to it, also when Vbs before it in the *)
(* Pdu are deleted.                                                        *)
THEOREM BindingsStay == BindSpec => []BindingsKept
<1>1. BindInv => BindingsKept
  BY DEF BindInv
<1> QED
  BY <1>1, BindInvariant, PTL
-----------------------------------------------------------------------------
(* The parts side by side.                                                 *)

(* A behaviour of the library is one of each of its seven parts; of the    *)
(* get it is one up to its fairness, which only a behaviour of that part   *)
(* has.                                                                    *)
THEOREM LibraryRunsParts ==
  LibrarySpec =>
    Spec /\ CollSpec /\ OidSpec /\ LogSpec /\ PrintSpec /\ GetSafety /\ BindSpec
<1>1. LibraryInit =>
        Init /\ CollInit /\ OidInit /\ LogInit /\ PrintInit /\ GetInit /\ BindInit
  BY DEF LibraryInit
<1>2. [LibraryNext]_libraryVars =>
        /\ [Next]_vars /\ [CollNext]_collVars /\ [OidNext]_oidVars /\ [LogNext]_logVars
        /\ [PrintNext]_printVars /\ [GetNext]_getVars /\ [BindNext]_bindVars
  BY DEF LibraryNext, libraryVars, Only
<1> QED
  BY <1>1, <1>2, PTL
  DEF LibrarySpec, Spec, CollSpec, OidSpec, LogSpec, PrintSpec, GetSafety, BindSpec

(* Every variable of the library's parts has its type, in the run of all   *)
(* of them.                                                                *)
THEOREM LibraryIsTyped == LibrarySpec => []LibraryTypesOK
<1>1. LibrarySpec => [](OidInv /\ LogInv /\ PrintInv /\ BindInv)
  BY LibraryRunsParts, OidInvariant, LogInvariant, PrintInvariant, BindInvariant, PTL
<1>2. LibrarySpec => []GetInv
  BY LibraryRunsParts, GetInvariant, PTL
<1>3. OidInv /\ LogInv /\ PrintInv /\ BindInv /\ GetInv => LibraryTypesOK
  BY PrintTypes DEF OidInv, LogInv, BindInv, GetInv, LibraryTypesOK
<1> QED
  BY <1>1, <1>2, <1>3, PTL
=============================================================================
