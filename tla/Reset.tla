------------------------------- MODULE Reset -------------------------------
(***************************************************************************)
(* The reset command of the CommandInterface: for each configured database *)
(* a new connection is made, with several attempts, and its collections    *)
(* are truncated one by one; then the command answers on its topic.  The   *)
(* services go on writing meanwhile: reset only warns about that.          *)
(***************************************************************************)
EXTENDS ArangoQuery, Sequences

CONSTANTS
  Configured,   \* the databases of the configuration, in order
  AutoCreate,   \* conf.autoCreate
  Attempts,     \* conf.retries || 3
  SleepYields   \* subset of BOOLEAN: whether msleep returns what co can yield

ASSUME ResetAssumption ==
  /\ Configured \in Seq(Db \cup {"nedb"})
  /\ "nedb" \notin Db
  /\ AutoCreate \in BOOLEAN /\ Attempts \in Nat \ {0} /\ SleepYields \subseteq BOOLEAN

VARIABLES
  rpc,        \* what the command does next
  sleepYields,
  at,         \* the index of the database it is at
  attempt,    \* currentAttempt
  left,       \* the collections still to be truncated
  errorMsg,   \* errorMsg, by the kind of the error it comes from
  response,   \* the resetResponse on the topic
  old         \* history: what was stored when the command was called

resetVars == <<rpc, sleepYields, at, attempt, left, errorMsg, response, old>>
vars == <<queryVars, resetVars>>

ResetTypeOK ==
  /\ QueryTypeOK
  /\ rpc \in {"idle", "connect", "createDatabase", "sleep", "list", "truncate",
              "emit", "done", "rejected"}
  /\ sleepYields \in BOOLEAN
  /\ at \in 0..Len(Configured) /\ attempt \in 0..Attempts
  /\ left \subseteq Coll
  /\ errorMsg \in {"null", "other", "empty"} /\ response \in {"none", "status", "error"}
  /\ old \subseteq Writer

Init ==
  /\ QueryInit
  /\ rpc = "idle" /\ sleepYields \in SleepYields
  /\ at = 0 /\ attempt = 0 /\ left = {}
  /\ errorMsg = "null" /\ response = "none" /\ old = {}

-----------------------------------------------------------------------------
To(step) == rpc' = step /\ UNCHANGED <<at, attempt, errorMsg>>

\* The next database of the loop, or its end.
NextDb ==
  \/ /\ at < Len(Configured)
     /\ rpc' = "connect" /\ at' = at + 1 /\ attempt' = 1 /\ UNCHANGED errorMsg
  \/ /\ at = Len(Configured)
     /\ rpc' = "emit" /\ UNCHANGED <<at, attempt, errorMsg>>

\* An exception in the loop.  Mutant: it goes on with the next database.
PassedOver(errs) == errs # {} /\ NextDb
FailsWith(errs) == rpc' = "emit" /\ errorMsg' \in errs /\ UNCHANGED <<at, attempt>>
Fails == FailsWith(Errors)

ResetCall ==
  /\ rpc = "idle"
  /\ old' = docs
  /\ NextDb
  /\ UNCHANGED <<queryVars, sleepYields, left, response>>

\* db.get().  A provider other than arango only logs an error.
Connect ==
  /\ rpc = "connect"
  /\ \/ Configured[at] = "nedb" /\ (NextDb \/ Fails)
     \/ Configured[at] \in dbs /\ To("list")
     \/ Configured[at] \in Db \ dbs /\ To(IF AutoCreate THEN "createDatabase" ELSE "sleep")
     \/ Configured[at] \in Db /\ Errors # {} /\ To("sleep")
  /\ UNCHANGED <<queryVars, sleepYields, left, response, old>>

\* db.createDatabase() fails when another service has created the database.
CreateDatabase ==
  /\ rpc = "createDatabase"
  /\ \/ /\ Configured[at] \notin dbs
        /\ dbs' = dbs \cup {Configured[at]}
        /\ To("list") \/ (Errors # {} /\ To("sleep"))
     \/ /\ Configured[at] \in dbs \/ Errors # {}
        /\ To("sleep") /\ UNCHANGED dbs
  /\ UNCHANGED <<colls, docs, pc, applied, faulted, created, sleepYields, left,
                 response, old>>

\* yield time.msleep(delay), after the last attempt, too.  It is outside of
\* the try: if its value cannot be yielded, that error ends the loop.
\* Mutants: there is one attempt too many; attempts are not counted.
OneMore == ~sleepYields \/ attempt > Attempts
LastAttempt == ~sleepYields \/ attempt >= Attempts
SameAttempt == attempt
NextAttempt == attempt + 1

Sleep ==
  /\ rpc = "sleep"
  /\ \/ LastAttempt /\ FailsWith(IF sleepYields THEN {"other"} \cup Errors ELSE {"other"})
     \/ /\ ~LastAttempt
        /\ rpc' = "connect" /\ attempt' = NextAttempt /\ UNCHANGED <<at, errorMsg>>
  /\ UNCHANGED <<queryVars, sleepYields, left, response, old>>

\* truncate(): db.collections()
List ==
  /\ rpc = "list"
  /\ \/ left' = {c \in Coll : <<Configured[at], c>> \in colls} /\ To("truncate")
     \/ Fails /\ UNCHANGED left
  /\ UNCHANGED <<queryVars, sleepYields, response, old>>

Emptied(c) == docs' = {w \in docs : Target[w] # <<Configured[at], c>>}

\* collections[i].truncate(); they come in any order.
Truncate ==
  /\ rpc = "truncate"
  /\ \/ left = {} /\ NextDb /\ UNCHANGED <<docs, left>>
     \/ \E c \in left :
          /\ left' = left \ {c}
          /\ \/ Emptied(c) /\ To("truncate")
             \/ (Emptied(c) \/ UNCHANGED docs) /\ Fails
  /\ UNCHANGED <<dbs, colls, pc, applied, faulted, created, sleepYields, response, old>>

\* emit('resetResponse')
Emit ==
  /\ rpc = "emit"
  /\ \/ response' = (IF errorMsg = "other" THEN "error" ELSE "status") /\ To("done")
     \/ Errors # {} /\ To("rejected") /\ UNCHANGED response
  /\ UNCHANGED <<queryVars, sleepYields, left, old>>

ResetStep == Connect \/ CreateDatabase \/ Sleep \/ List \/ Truncate \/ Emit

\* Another service creates a database.
DatabaseAppears(d) ==
  /\ dbs' = dbs \cup {d}
  /\ UNCHANGED <<colls, docs, pc, applied, faulted, created, resetVars>>

Next == \/ \E w \in Writer : Write(w) /\ UNCHANGED resetVars
        \/ ResetCall
        \/ Connect \/ CreateDatabase \/ Sleep \/ List \/ Truncate \/ Emit
        \/ \E d \in Db : DatabaseAppears(d)

\* The database and Kafka answer each request, if only with an error.
Fairness == WF_vars(ResetStep)

Spec == Init /\ [][Next]_vars /\ Fairness

-----------------------------------------------------------------------------
(***************************************************************************)
(* Properties                                                              *)
(***************************************************************************)
\* 'Reset concluded successfully' is told only if nothing is left of what the
\* configured ArangoDB databases held when the command was called, although
\* collections and documents are created meanwhile and requests fail (with a
\* message: an empty one counts as none).
OldGone == response = "status" /\ errorMsg # "empty" =>
  \A w \in old \cap docs : \A i \in DOMAIN Configured : Configured[i] # Target[w][1]

\* A reset ends, with a response unless Kafka refuses it.
ResetEnds == (rpc # "idle") ~> (rpc \in {"done", "rejected"})
=============================================================================
