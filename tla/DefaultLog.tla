----------------------------- MODULE DefaultLog -----------------------------
(***************************************************************************)
(* The default logger of TestCip4/include/snmp_pp/log.h: threads that log  *)
(* with LOG_BEGIN, LOG and LOG_END share one logger, one entry and one     *)
(* mutex, and the logger is looked up without the mutex.                   *)
(***************************************************************************)
EXTENDS Integers, Sequences

CONSTANTS
  Threads, NoThread,
  LoggerBound,     \* bound on the loggers that are created
  LogItems,        \* bound on the items of an entry
  CleanupRuns      \* is cleanup() called while threads may be logging?

ASSUME LogAssumption ==
  /\ NoThread \notin Threads /\ LoggerBound \in Nat \ {0} /\ LogItems \in Nat
  /\ CleanupRuns \in BOOLEAN

NoLogger == 0    \* instance == 0; the loggers are numbered as they are created
NoEntry  == [by |-> NoThread, from |-> NoLogger, items |-> << >>]

VARIABLES
  instance, created, dead,  \* the logger, how many there were, the deleted ones
  entry,                    \* the entry, with the thread that began it and the
                            \* logger that made it
  holder,                   \* the owner of the mutex
  lpc,       \* lpc[t]: "out"; "none", "ask", "lock", "create" in LOG_BEGIN;
             \* "items"; "publish", "delete", "unlock" in LOG_END
  fetched,   \* fetched[t]: the logger that log() returned to t
  logged,    \* history: logged[t] is what t has logged since LOG_BEGIN
  added      \* history: the last entry added to a log, and what its thread logged

logVars == <<instance, created, dead, entry, holder, lpc, fetched, logged, added>>
loggers == <<instance, created, dead>>

LogInit ==
  /\ instance = NoLogger /\ created = 0 /\ dead = {}
  /\ entry = NoEntry /\ holder = NoThread
  /\ lpc = [t \in Threads |-> "out"] /\ fetched = [t \in Threads |-> NoLogger]
  /\ logged = [t \in Threads |-> << >>]
  /\ added = [entry |-> << >>, thread |-> << >>]

At(t, p)    == lpc[t] = p
Goto(t, p)  == lpc' = [lpc EXCEPT ![t] = p]
Free        == holder = NoThread

(* init(): before any thread logs, as its comment demands.                 *)
InitLogger ==
  /\ Free /\ created < LoggerBound /\ \A t \in Threads : At(t, "out")
  /\ added.entry = << >>
  /\ instance' = created + 1 /\ created' = created + 1
  /\ dead' = IF instance = NoLogger THEN dead ELSE dead \cup {instance}
  /\ UNCHANGED <<entry, holder, lpc, fetched, logged, added>>

(* cleanup() that forgets the mutex.                                       *)
CleanupUnlocked ==
  /\ CleanupRuns /\ instance # NoLogger
  /\ instance' = NoLogger /\ dead' = dead \cup {instance}
  /\ UNCHANGED <<created, entry, holder, lpc, fetched, logged, added>>

(* cleanup(), under the mutex.                                             *)
CleanupLogger ==
  /\ CleanupRuns /\ Free /\ instance # NoLogger
  /\ instance' = NoLogger /\ dead' = dead \cup {instance}
  /\ UNCHANGED <<created, entry, holder, lpc, fetched, logged, added>>

(* log() in LOG_BEGIN reads `instance' without the mutex.                  *)
FetchLogger(t) ==
  /\ At(t, "out") /\ fetched' = [fetched EXCEPT ![t] = instance]
  /\ Goto(t, IF instance = NoLogger THEN "none" ELSE "ask")
  /\ UNCHANGED <<loggers, entry, holder, logged, added>>

(* init_ts(): a logger is made only if there still is none.                *)
InitTs(t) ==
  /\ At(t, "none") /\ Free
  /\ \/ instance # NoLogger /\ UNCHANGED loggers
     \/ /\ instance = NoLogger /\ created < LoggerBound /\ UNCHANGED dead
        /\ instance' = created + 1 /\ created' = created + 1
  /\ fetched' = [fetched EXCEPT ![t] = instance'] /\ Goto(t, "ask")
  /\ UNCHANGED <<entry, holder, logged, added>>

(* log_needed(): the filter of the logger may refuse the entry.            *)
LogNeeded(t) ==
  /\ At(t, "ask") /\ (Goto(t, "lock") \/ Goto(t, "out"))
  /\ fetched' = [fetched EXCEPT ![t] = NoLogger]
  /\ UNCHANGED <<loggers, entry, holder, logged, added>>

(* lock() that does not wait.                                              *)
LockAnyway(t) ==
  /\ At(t, "lock") /\ holder' = t /\ Goto(t, "create")
  /\ UNCHANGED <<loggers, entry, fetched, logged, added>>

LockLog(t) ==
  /\ At(t, "lock") /\ Free /\ holder' = t /\ Goto(t, "create")
  /\ UNCHANGED <<loggers, entry, fetched, logged, added>>

(* log() under the mutex makes a logger if there is none.                  *)
LogLocked ==
  \/ instance # NoLogger /\ UNCHANGED loggers
  \/ /\ instance = NoLogger /\ created < LoggerBound /\ UNCHANGED dead
     /\ instance' = created + 1 /\ created' = created + 1

(* create_log_entry() and log_entry(): an entry that is already there is   *)
(* used as it is.                                                          *)
UseEntry(t, items) ==
  \/ /\ entry # NoEntry /\ UNCHANGED loggers
     /\ entry' = [entry EXCEPT !.items = @ \o items]
  \/ /\ entry = NoEntry /\ LogLocked
     /\ entry' = [by |-> t, from |-> instance', items |-> items]

CreateEntry(t) ==
  /\ At(t, "create") /\ Goto(t, "items")
  /\ UseEntry(t, << >>)
  /\ logged' = [logged EXCEPT ![t] = << >>]
  /\ UNCHANGED <<holder, fetched, added>>

LogItem(t) ==
  /\ At(t, "items")
  /\ \/ /\ Len(logged[t]) < LogItems /\ UNCHANGED lpc
        /\ UseEntry(t, <<t>>)
        /\ logged' = [logged EXCEPT ![t] = Append(@, t)]
     \/ Goto(t, "publish") /\ UNCHANGED <<loggers, entry, logged>>
  /\ UNCHANGED <<holder, fetched, added>>

(* LOG_END: the entry goes to the logger, ...                              *)
Publish(t) ==
  /\ At(t, "publish") /\ LogLocked /\ Goto(t, "delete")
  /\ added' = [entry |-> <<entry.by>> \o entry.items, thread |-> <<t>> \o logged[t]]
  /\ UNCHANGED <<entry, holder, fetched, logged>>

(* ... is deleted, ...                                                     *)
DeleteEntry(t) ==
  /\ At(t, "delete") /\ entry' = NoEntry /\ Goto(t, "unlock")
  /\ UNCHANGED <<loggers, holder, fetched, logged, added>>

(* ... and the mutex is released.                                          *)
UnlockLog(t) ==
  /\ At(t, "unlock") /\ holder' = NoThread /\ Goto(t, "out")
  /\ logged' = [logged EXCEPT ![t] = << >>]
  /\ UNCHANGED <<loggers, entry, fetched, added>>

LogBegin(t) == FetchLogger(t) \/ InitTs(t) \/ LogNeeded(t) \/ LockLog(t) \/ CreateEntry(t)
LogEnd(t)   == Publish(t) \/ DeleteEntry(t) \/ UnlockLog(t)

LogNext ==
  \/ InitLogger \/ CleanupLogger
  \/ \E t \in Threads : LogBegin(t) \/ LogItem(t) \/ LogEnd(t)

LogSpec == LogInit /\ [][LogNext]_logVars
-----------------------------------------------------------------------------
LogTypeOK ==
  /\ created \in 0..LoggerBound /\ instance \in 0..created /\ dead \subseteq 1..created
  /\ entry \in [by : Threads \cup {NoThread}, from : Nat, items : Seq(Threads)]
  /\ holder \in Threads \cup {NoThread} /\ fetched \in [Threads -> Nat]
  /\ lpc \in [Threads -> {"out", "none", "ask", "lock", "create", "items",
                          "publish", "delete", "unlock"}]
  /\ logged \in [Threads -> Seq(Threads)]

(* The loggers that are about to be used: the one a thread has fetched     *)
(* without the mutex, and the one in place, are not deleted ones.          *)
LoggerAlive == instance \notin dead /\ \A t \in Threads : fetched[t] \notin dead

(* While an entry is being filled, the logger that made it is in place and *)
(* not deleted, also when cleanup() and threads that find no logger run    *)
(* beside it: LOG_END never hands an entry to another logger.              *)
EntryHasLogger ==
  /\ instance \notin dead
  /\ entry # NoEntry => instance # NoLogger /\ entry.from = instance

(* The entry that LOG_END adds to the log is the one its thread began and  *)
(* holds what that thread logged, nothing of another thread.               *)
EntriesOwn == added.entry = added.thread
=============================================================================
