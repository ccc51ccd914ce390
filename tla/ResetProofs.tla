---------------------------- MODULE ResetProofs ----------------------------
(***************************************************************************)
(* No operation of the ArangoDB provider stores its document twice, and    *)
(* one that fails without a failed request has lost a race, with any       *)
(* number of operations, databases and collections, and while the command  *)
(* reset empties them.                                                     *)
(***************************************************************************)
EXTENDS Reset, TLAPS

Raced(w) == \E v \in created \ {w} : Target[v] = Target[w]

\* A document that is stored has its collection; an operation that stores
\* its document once more has not stored it yet.
Once(w) ==
  /\ pc[w] = "query" => applied[w] = 0
  /\ pc[w] = "create" /\ applied[w] # 0 => Exists(w)
  /\ pc[w] \in {"load", "retry"} => applied[w] = 0
  /\ applied[w] \in {0, 1}

\* Where an operation is after its collection has been created, by it or by
\* another one.
Race(w) ==
  /\ w \in created => pc[w] \notin {"query", "create"}
  /\ pc[w] \in {"load", "retry"} => Exists(w)
  /\ pc[w] = "create" /\ w \notin faulted /\ Exists(w) => Raced(w)
  /\ pc[w] = "failed" /\ w \notin faulted => Raced(w)

QueryInv ==
  /\ pc \in [Writer -> {"query", "create", "load", "retry", "done", "failed"}]
  /\ applied \in [Writer -> Nat]
  /\ created \subseteq Writer
  /\ \A w \in Writer : Once(w) /\ Race(w)

-----------------------------------------------------------------------------
\* A step of an operation keeps the invariant.
LEMMA WriteKeeps ==
  ASSUME QueryInv, NEW u \in Writer, Write(u)
  PROVE  QueryInv'
<1> USE DEF QueryInv, Goes, StoresNothing, Faults, Catches, Exists
<1>1. CASE Query(u)
  BY <1>1 DEF Query, Stores, Thrown, Once, Race, Raced
<1>2. CASE Create(u)
  BY <1>2 DEF Create, Once, Race, Raced
<1>3. CASE Load(u)
  BY <1>3 DEF Load, Once, Race, Raced
<1>4. CASE Retry(u)
  BY <1>4 DEF Retry, Stores, Once, Race, Raced
<1>5. QED BY <1>1, <1>2, <1>3, <1>4 DEF Write

\* The invariant is kept by every step of the system: the reset only removes
\* documents, and only ever adds databases.
LEMMA QueryInvStep == QueryInv /\ [Next]_vars => QueryInv'
<1> SUFFICES ASSUME QueryInv, [Next]_vars PROVE QueryInv'
  OBVIOUS
<1>1. CASE \E w \in Writer : Write(w) /\ UNCHANGED resetVars
  BY <1>1, WriteKeeps
<1>2. CASE UNCHANGED <<colls, pc, applied, faulted, created>>
  BY <1>2 DEF QueryInv, Once, Race, Raced, Exists
<1>3. CASE ResetCall \/ Connect \/ CreateDatabase
  BY <1>3, <1>2 DEF ResetCall, Connect, CreateDatabase, queryVars
<1>4. CASE Sleep \/ List \/ Truncate \/ Emit
  BY <1>4, <1>2 DEF Sleep, List, Truncate, Emit, queryVars
<1>5. CASE \E d \in Db : DatabaseAppears(d)
  BY <1>5, <1>2 DEF DatabaseAppears
<1>6. CASE UNCHANGED vars
  BY <1>6, <1>2 DEF vars, queryVars
<1>7. QED BY <1>1, <1>3, <1>4, <1>5, <1>6 DEF Next

LEMMA QueryInvHolds == Spec => []QueryInv
<1>1. Init => QueryInv
  BY DEF Init, QueryInit, QueryInv, Once, Race
<1>2. QED BY <1>1, QueryInvStep, PTL DEF Spec

-----------------------------------------------------------------------------
\* query() never stores a document twice: the second query of an operation is
\* reached only when the first one had no effect.
THEOREM StoredOnce == Spec => []AppliedOnce
<1>1. QueryInv => AppliedOnce
  BY DEF QueryInv, Once, AppliedOnce
<1>2. QED BY <1>1, QueryInvHolds, PTL

\* An operation of which no request failed is refused only because another
\* operation created the same collection first.
THEOREM RefusedOnlyByRace == Spec => []FailsOnlyWhenRaced
<1>1. QueryInv => FailsOnlyWhenRaced
  BY DEF QueryInv, Race, Raced, FailsOnlyWhenRaced
<1>2. QED BY <1>1, QueryInvHolds, PTL

-----------------------------------------------------------------------------
(***************************************************************************)
(* Types.  An operation that has left its first query is one of a database *)
(* that exists, and so it is there that it creates its collection; while   *)
(* the command is at a database, at is an index of the configuration.      *)
(***************************************************************************)
AtDatabase == rpc \in {"connect", "createDatabase", "sleep", "list", "truncate"}

Connected == \A w \in Writer : pc[w] # "query" => Target[w][1] \in dbs
Indexed == /\ AtDatabase => at \in 1..Len(Configured)
           /\ rpc = "createDatabase" => Configured[at] # "nedb"
           /\ rpc = "idle" => at = 0

TypeInv == ResetTypeOK /\ Connected /\ Indexed

LEMMA Setup ==
  /\ Len(Configured) \in Nat /\ DOMAIN Configured = 1..Len(Configured)
  /\ \A i \in 1..Len(Configured) : Configured[i] \in Db \cup {"nedb"}
  /\ "nedb" \notin Db /\ Attempts \in Nat /\ Attempts > 0
  /\ \A w \in Writer : /\ Target[w] = <<Target[w][1], Target[w][2]>>
                       /\ Target[w][1] \in Db /\ Target[w][2] \in Coll
  /\ Errors \subseteq {"other", "empty"}
  BY ResetAssumption, QueryAssumption

LEMMA TypeInit == Init => TypeInv
<1> SUFFICES ASSUME Init PROVE TypeInv
  OBVIOUS
<1>1. QueryTypeOK
  BY DEF Init, QueryInit, QueryTypeOK
<1>2. sleepYields \in BOOLEAN
  BY ResetAssumption, Zenon DEF Init
<1>3. ResetTypeOK
  BY <1>1, <1>2, Setup DEF Init, ResetTypeOK
<1> QED BY <1>3 DEF Init, QueryInit, TypeInv, Connected, Indexed, AtDatabase

LEMMA WriteTypes ==
  ASSUME TypeInv, NEW u \in Writer, Write(u), UNCHANGED resetVars
  PROVE  TypeInv'
<1>1. QueryTypeOK /\ Connected /\ (Target[u][1] \in dbs => Target[u] \in dbs \X Coll)
  <2>1. Target[u] = <<Target[u][1], Target[u][2]>> /\ Target[u][2] \in Coll
    BY Setup
  <2>2. Target[u][1] \in dbs => Target[u] \in dbs \X Coll
    BY <2>1
  <2> QED BY <2>2 DEF TypeInv, ResetTypeOK
<1>2. QueryTypeOK' /\ Connected'
  <2> USE DEF QueryTypeOK, Connected, Goes, StoresNothing, Faults, Catches, Exists
  <2>1. CASE Query(u)
    BY <1>1, <2>1 DEF Query, Stores, Thrown
  <2>2. CASE Create(u)
    <3>1. /\ pc[u] = "create" /\ Target[u] \in dbs \X Coll
      BY <1>1, <2>2 DEF Create
    <3>2. /\ UNCHANGED <<dbs, docs, applied>>
          /\ colls' = colls \cup {Target[u]} \/ colls' = colls
          /\ created' = created \cup {u} \/ created' = created
          /\ faulted' = faulted \cup {u} \/ faulted' = faulted
          /\ Goes(u, "load") \/ Goes(u, "failed")
      BY <2>2 DEF Create
    <3> QED BY <1>1, <3>1, <3>2
  <2>3. CASE Load(u)
    BY <1>1, <2>3 DEF Load
  <2>4. CASE Retry(u)
    BY <1>1, <2>4 DEF Retry, Stores
  <2> QED BY <2>1, <2>2, <2>3, <2>4 DEF Write
<1> QED BY <1>2 DEF TypeInv, ResetTypeOK, Indexed, AtDatabase, resetVars

\* A step of the command: what is left to show is about its own variables.
LEMMA TypeOfStep ==
  ASSUME TypeInv, UNCHANGED <<pc, applied, faulted, created, colls, sleepYields>>,
         dbs \subseteq dbs', dbs' \subseteq Db, docs' \subseteq docs,
         rpc' \in {"idle", "connect", "createDatabase", "sleep", "list", "truncate",
                   "emit", "done", "rejected"},
         at' \in 0..Len(Configured), attempt' \in 0..Attempts, left' \subseteq Coll,
         errorMsg' \in {"null", "other", "empty"},
         response' \in {"none", "status", "error"}, old' \subseteq Writer, Indexed'
  PROVE  TypeInv'
<1>1. QueryTypeOK' /\ Connected'
  BY DEF TypeInv, ResetTypeOK, QueryTypeOK, Connected
<1> QED BY <1>1 DEF TypeInv, ResetTypeOK

LEMMA StepTypes ==
  ASSUME TypeInv, ResetCall \/ ResetStep
  PROVE  TypeInv'
<1> USE Setup
<1>1. /\ ResetTypeOK /\ QueryTypeOK /\ dbs \subseteq Db /\ docs \subseteq Writer
      /\ at \in 0..Len(Configured) /\ attempt \in 0..Attempts /\ left \subseteq Coll
      /\ errorMsg \in {"null", "other", "empty"}
      /\ response \in {"none", "status", "error"} /\ old \subseteq Writer
  BY DEF TypeInv, ResetTypeOK, QueryTypeOK
<1>2. ASSUME NextDb \/ Fails \/ FailsWith({"other"} \cup Errors)
             \/ FailsWith({"other"}) \/ (\E step \in {"done", "rejected"} : To(step))
             \/ (\E step \in {"createDatabase", "sleep", "list", "truncate"} :
                   /\ To(step) /\ at \in 1..Len(Configured)
                   /\ step = "createDatabase" => Configured[at] # "nedb")
      PROVE  /\ rpc' \in {"idle", "connect", "createDatabase", "sleep", "list",
                          "truncate", "emit", "done", "rejected"}
             /\ at' \in 0..Len(Configured) /\ attempt' \in 0..Attempts
             /\ errorMsg' \in {"null", "other", "empty"} /\ Indexed'
  <2>1. CASE NextDb
    <3>1. CASE at < Len(Configured) /\ rpc' = "connect" /\ at' = at + 1 /\ attempt' = 1
               /\ UNCHANGED errorMsg
      BY <1>1, <3>1 DEF Indexed, AtDatabase
    <3>2. CASE rpc' = "emit" /\ UNCHANGED <<at, attempt, errorMsg>>
      BY <1>1, <3>2 DEF Indexed, AtDatabase
    <3> QED BY <2>1, <3>1, <3>2 DEF NextDb
  <2>2. CASE Fails \/ FailsWith({"other"} \cup Errors) \/ FailsWith({"other"})
    BY <1>1, <2>2 DEF Fails, FailsWith, Indexed, AtDatabase
  <2>3. ASSUME NEW step \in {"done", "rejected"}, To(step)
        PROVE  /\ rpc' = step /\ UNCHANGED <<at, attempt, errorMsg>> /\ Indexed'
    BY <2>3 DEF To, Indexed, AtDatabase
  <2>4. ASSUME NEW step \in {"createDatabase", "sleep", "list", "truncate"}, To(step),
               at \in 1..Len(Configured), step = "createDatabase" => Configured[at] # "nedb"
        PROVE  /\ rpc' = step /\ UNCHANGED <<at, attempt, errorMsg>> /\ Indexed'
    BY <2>4 DEF To, Indexed, AtDatabase
  <2> QED BY <1>1, <1>2, <2>1, <2>2, <2>3, <2>4
<1>3. AtDatabase => at \in 1..Len(Configured)
  BY DEF TypeInv, Indexed
<1>4. CASE ResetCall
  BY <1>1, <1>2, <1>4, TypeOfStep DEF ResetCall, queryVars
<1>5. CASE Connect
  BY <1>1, <1>2, <1>3, <1>5, TypeOfStep DEF Connect, queryVars, AtDatabase
<1>6. CASE CreateDatabase
  <2>1. at \in 1..Len(Configured)
    BY <1>3, <1>6 DEF CreateDatabase, AtDatabase
  <2>2. dbs \subseteq dbs' /\ dbs' \subseteq Db
    <3>1. \/ dbs' = dbs
          \/ dbs' = dbs \cup {Configured[at]}
      BY <1>6 DEF CreateDatabase
    <3>2. Configured[at] # "nedb"
      BY <1>6 DEF CreateDatabase, TypeInv, Indexed
    <3> QED BY <1>1, <2>1, <3>1, <3>2
  <2>3. To("list") \/ To("sleep")
    BY <1>6 DEF CreateDatabase
  <2> QED BY <1>1, <1>2, <1>6, <2>1, <2>2, <2>3, TypeOfStep DEF CreateDatabase
<1>7. CASE Sleep
  <2>1. CASE rpc' = "connect"
    BY <1>1, <1>3, <1>7, <2>1, TypeOfStep
       DEF Sleep, FailsWith, LastAttempt, NextAttempt, Indexed, AtDatabase, queryVars
  <2>2. CASE rpc' # "connect"
    BY <1>1, <1>2, <1>7, <2>2, TypeOfStep DEF Sleep, queryVars
  <2> QED BY <2>1, <2>2
<1>8. CASE List
  BY <1>1, <1>2, <1>3, <1>8, TypeOfStep DEF List, queryVars, AtDatabase
<1>9. CASE Truncate
  <2>1. at \in 1..Len(Configured) /\ docs' \subseteq docs /\ left' \subseteq Coll
    BY <1>1, <1>3, <1>9 DEF Truncate, Emptied, AtDatabase
  <2>2. NextDb \/ To("truncate") \/ Fails
    BY <1>9 DEF Truncate
  <2> QED BY <1>1, <1>2, <1>9, <2>1, <2>2, TypeOfStep DEF Truncate
<1>10. CASE Emit
  BY <1>1, <1>2, <1>10, TypeOfStep DEF Emit, queryVars
<1> QED BY <1>4, <1>5, <1>6, <1>7, <1>8, <1>9, <1>10 DEF ResetStep

LEMMA TypeStep == TypeInv /\ [Next]_vars => TypeInv'
<1> SUFFICES ASSUME TypeInv, [Next]_vars PROVE TypeInv'
  OBVIOUS
<1>1. CASE \E w \in Writer : Write(w) /\ UNCHANGED resetVars
  BY <1>1, WriteTypes
<1>2. CASE ResetCall \/ ResetStep
  BY <1>2, StepTypes
<1>3. ASSUME NEW d \in Db, DatabaseAppears(d) PROVE TypeInv'
  <2>1. dbs \subseteq Db /\ at \in 0..Len(Configured)
    BY DEF TypeInv, ResetTypeOK, QueryTypeOK
  <2> QED BY <1>3, <2>1, TypeOfStep DEF DatabaseAppears, resetVars, TypeInv, ResetTypeOK,
             QueryTypeOK, Indexed, AtDatabase
<1>4. CASE UNCHANGED vars
  BY <1>4 DEF vars, queryVars, resetVars, TypeInv, ResetTypeOK, QueryTypeOK, Connected,
              Indexed, AtDatabase
<1> QED BY <1>1, <1>2, <1>3, <1>4 DEF Next, ResetStep

\* No operation and no step of the command takes a variable out of its type:
\* collections are created in databases that exist, the loops stay in range.
THEOREM TypeTrue == Spec => []ResetTypeOK
<1>1. TypeInv => ResetTypeOK
  BY DEF TypeInv
<1> QED BY TypeInit, TypeStep, <1>1, PTL DEF Spec

-----------------------------------------------------------------------------
(***************************************************************************)
(* OldGone.  A document stored once is not stored again (StoredOnceOnly),  *)
(* so what the command removes stays away.  While it has met no error, the *)
(* databases behind it hold no old document, and the one it empties holds  *)
(* them only in collections still to be truncated (EmptiedSoFar): these    *)
(* were all listed, since a document has its collection.                   *)
(***************************************************************************)
Behind == IF rpc \in {"emit", "done", "rejected"} THEN 1..Len(Configured) ELSE 1..(at - 1)

StoredOnceOnly == /\ \A w \in docs : Exists(w)
                  /\ \A w \in docs \cup old : applied[w] # 0
EmptiedSoFar == errorMsg = "null" => \A w \in old \cap docs :
  /\ \A i \in Behind : Configured[i] # Target[w][1]
  /\ rpc = "truncate" /\ Configured[at] = Target[w][1] => Target[w][2] \in left
Told == /\ response # "none" => rpc = "done"
        /\ response = "status" => errorMsg # "other"

GoneInv == QueryInv /\ TypeInv /\ StoredOnceOnly /\ EmptiedSoFar /\ Told

LEMMA GoneInit == Init => GoneInv
<1>1. Init => StoredOnceOnly /\ EmptiedSoFar /\ Told
  BY DEF Init, QueryInit, StoredOnceOnly, EmptiedSoFar, Told
<1>2. Init => QueryInv
  BY DEF Init, QueryInit, QueryInv, Once, Race
<1> QED BY <1>1, <1>2, TypeInit DEF GoneInv

\* An operation adds no old document: one that is old has been stored.
LEMMA WriteKeepsGone ==
  ASSUME GoneInv, NEW u \in Writer, Write(u), UNCHANGED resetVars
  PROVE  StoredOnceOnly' /\ EmptiedSoFar' /\ Told'
<1>1. /\ colls \subseteq colls' /\ docs \subseteq docs' /\ docs' \subseteq docs \cup {u}
      /\ applied' = applied \/ applied' = [applied EXCEPT ![u] = @ + 1]
      /\ docs' # docs => Exists(u) /\ applied' = [applied EXCEPT ![u] = @ + 1]
                         /\ pc[u] \in {"query", "retry"}
  BY DEF Write, Query, Create, Load, Retry, Stores, StoresNothing
<1>2. /\ applied \in [Writer -> Nat]
      /\ docs \subseteq Writer /\ old \subseteq Writer /\ Once(u)
  BY DEF GoneInv, QueryInv, TypeInv, ResetTypeOK, QueryTypeOK
<1>3. \A w \in Writer : applied[w] # 0 => applied'[w] # 0
  BY <1>1, <1>2
<1>4. docs' # docs => applied'[u] # 0 /\ u \notin old
  <2>1. docs' # docs => applied[u] = 0
    BY <1>1, <1>2 DEF Once
  <2>2. u \in old => applied[u] # 0
    BY DEF GoneInv, StoredOnceOnly
  <2> QED BY <1>1, <1>2, <2>1, <2>2
<1>5. StoredOnceOnly'
  BY <1>1, <1>2, <1>3, <1>4 DEF GoneInv, StoredOnceOnly, Exists, resetVars
<1>6. old' = old /\ old \cap docs' \subseteq old \cap docs
  BY <1>1, <1>4 DEF resetVars
<1> QED BY <1>5, <1>6 DEF GoneInv, EmptiedSoFar, Behind, Told, resetVars

\* The steps that remove nothing, and the end of a database.
LEMMA StepKeepsGone ==
  ASSUME GoneInv, ResetCall \/ ResetStep
  PROVE  StoredOnceOnly' /\ EmptiedSoFar' /\ Told'
<1>1. /\ Len(Configured) \in Nat /\ at \in 0..Len(Configured)
      /\ AtDatabase => at \in 1..Len(Configured)
      /\ docs \subseteq Writer /\ StoredOnceOnly /\ EmptiedSoFar /\ Told
      /\ errorMsg \in {"null", "other", "empty"}
  BY Setup DEF GoneInv, TypeInv, Indexed, ResetTypeOK, QueryTypeOK
<1>2. /\ applied' = applied /\ colls' = colls /\ docs' \subseteq docs
      /\ old' = IF rpc = "idle" THEN docs ELSE old
  BY DEF ResetCall, ResetStep, Connect, CreateDatabase, Sleep, List, Truncate, Emptied,
         Emit, queryVars
<1>3. StoredOnceOnly'
  BY <1>1, <1>2 DEF StoredOnceOnly, Exists
<1>4. Told'
  <2>1. ASSUME rpc \notin {"emit", "done", "rejected"}
        PROVE  response = "none" /\ response' = response
    BY <1>1, <2>1 DEF Told, ResetCall, ResetStep, Connect, CreateDatabase, Sleep, List,
                      Truncate, Emit
  <2>2. CASE Emit
    BY <1>1, <2>2 DEF Emit, To, Told
  <2>3. CASE ~Emit
    BY <2>1, <2>3 DEF Told, ResetCall, ResetStep, Connect, CreateDatabase, Sleep, List,
                      Truncate
  <2> QED BY <2>2, <2>3
<1> SUFFICES EmptiedSoFar'
  BY <1>3, <1>4
<1>5. ASSUME Fails \/ FailsWith({"other"} \cup Errors) \/ FailsWith({"other"})
      PROVE  EmptiedSoFar'
  <2>1. errorMsg' \in {"other"} \cup Errors
    BY <1>5 DEF Fails, FailsWith
  <2>2. errorMsg' # "null"
    BY <2>1, Setup
  <2> QED BY <2>2 DEF EmptiedSoFar
<1>6. ASSUME errorMsg' = errorMsg, rpc' # "truncate",
             errorMsg = "null" => \A w \in old' \cap docs' :
                                   \A i \in Behind' : Configured[i] # Target[w][1]
      PROVE  EmptiedSoFar'
  BY <1>6 DEF EmptiedSoFar
<1>7. ASSUME errorMsg = "null", NEW w \in old \cap docs
      PROVE  /\ \A i \in Behind : Configured[i] # Target[w][1]
             /\ rpc = "truncate" /\ Configured[at] = Target[w][1] => Target[w][2] \in left
  BY <1>1, <1>7 DEF EmptiedSoFar
<1>8. ASSUME AtDatabase PROVE Behind = 1..(at - 1) /\ old' = old
  BY <1>2, <1>8 DEF AtDatabase, Behind
<1>9. ASSUME AtDatabase, NextDb,
             \A w \in old \cap docs : errorMsg = "null" => Configured[at] # Target[w][1]
      PROVE  EmptiedSoFar'
  <2>1. errorMsg' = errorMsg /\ rpc' # "truncate" /\ Behind' = 1..at
    <3>1. CASE at < Len(Configured)
      <4>1. rpc' = "connect" /\ at' = at + 1 /\ errorMsg' = errorMsg
        BY <1>1, <1>9, <3>1 DEF NextDb
      <4> QED BY <1>1, <4>1 DEF Behind
    <3>2. CASE at = Len(Configured)
      BY <1>1, <1>9, <3>2 DEF NextDb, Behind
    <3> QED BY <1>9, <3>1, <3>2 DEF NextDb
  <2>2. ASSUME errorMsg = "null", NEW w \in old' \cap docs', NEW i \in Behind'
        PROVE  Configured[i] # Target[w][1]
    <3>1. w \in old \cap docs
      BY <1>2, <1>8, <1>9
    <3>2. CASE i = at
      BY <1>9, <2>2, <3>1, <3>2
    <3>3. CASE i # at
      <4>1. i \in Behind
        BY <1>1, <1>8, <1>9, <2>1, <2>2, <3>3
      <4> QED BY <1>7, <2>2, <3>1, <4>1
    <3> QED BY <3>2, <3>3
  <2> QED BY <1>6, <2>1, <2>2
<1>10. ASSUME AtDatabase, rpc' \in {"connect", "createDatabase", "sleep", "list"},
              UNCHANGED <<at, errorMsg>>
       PROVE  EmptiedSoFar'
  <2>1. Behind' = Behind
    BY <1>8, <1>10 DEF Behind
  <2> QED BY <1>2, <1>6, <1>7, <1>8, <1>10, <2>1
<1>11. CASE ResetCall
  <2>1. at = 0 /\ NextDb
    BY <1>11 DEF ResetCall, GoneInv, TypeInv, Indexed
  <2>2. errorMsg' = errorMsg /\ rpc' # "truncate" /\ Behind' = {}
    BY <1>1, <2>1 DEF NextDb, Behind
  <2> QED BY <1>6, <2>2
<1>12. CASE Connect
  <2>1. AtDatabase
    BY <1>12 DEF Connect, AtDatabase
  <2>2. CASE Configured[at] = "nedb" /\ NextDb
    <3>1. \A w \in old \cap docs : Configured[at] # Target[w][1]
      BY <1>1, <2>2, Setup
    <3> QED BY <1>9, <2>1, <2>2, <3>1
  <2>3. CASE ~(Configured[at] = "nedb" /\ NextDb) /\ ~Fails
    <3>1. To("list") \/ To("createDatabase") \/ To("sleep")
      BY <1>12, <2>3 DEF Connect
    <3> QED BY <1>10, <2>1, <3>1 DEF To
  <2> QED BY <1>5, <2>2, <2>3
<1>13. CASE CreateDatabase
  <2>1. AtDatabase /\ (To("list") \/ To("sleep"))
    BY <1>13 DEF CreateDatabase, AtDatabase
  <2> QED BY <1>10, <2>1 DEF To
<1>14. CASE Sleep
  <2>1. CASE rpc' = "connect" /\ UNCHANGED <<at, errorMsg>>
    BY <1>10, <1>14, <2>1 DEF Sleep, AtDatabase
  <2>2. CASE ~(rpc' = "connect" /\ UNCHANGED <<at, errorMsg>>)
    <3>1. FailsWith({"other"} \cup Errors) \/ FailsWith({"other"})
      BY <1>14, <2>2 DEF Sleep
    <3> QED BY <1>5, <3>1
  <2> QED BY <2>1, <2>2
<1>15. CASE List
  <2>1. AtDatabase /\ docs' = docs
    BY <1>15 DEF List, AtDatabase, queryVars
  <2>2. CASE left' = {c \in Coll : <<Configured[at], c>> \in colls} /\ To("truncate")
    <3>1. Behind' = Behind /\ at' = at /\ errorMsg' = errorMsg /\ old' = old
      BY <1>8, <2>1, <2>2 DEF Behind, To
    <3>2. ASSUME NEW w \in old \cap docs, Configured[at] = Target[w][1]
          PROVE  Target[w][2] \in left'
      <4>1. w \in Writer /\ Target[w] \in colls
        BY <1>1 DEF StoredOnceOnly, Exists
      <4>2. Target[w] = <<Configured[at], Target[w][2]>> /\ Target[w][2] \in Coll
        BY <3>2, <4>1, Setup
      <4>3. <<Configured[at], Target[w][2]>> \in colls
        BY <4>1, <4>2
      <4> QED BY <2>2, <4>2, <4>3
    <3> QED BY <1>7, <2>1, <3>1, <3>2 DEF EmptiedSoFar
  <2> QED BY <1>5, <1>15, <2>2 DEF List
<1>16. CASE Truncate
  <2>1. AtDatabase /\ rpc = "truncate"
    BY <1>16 DEF Truncate, AtDatabase
  <2>2. CASE left = {} /\ NextDb
    BY <1>7, <1>9, <2>1, <2>2
  <2>3. ASSUME NEW c \in left, left' = left \ {c}, Emptied(c), To("truncate")
        PROVE  EmptiedSoFar'
    <3>1. Behind' = Behind /\ at' = at /\ errorMsg' = errorMsg /\ old' = old
      BY <1>8, <2>1, <2>3 DEF Behind, To
    <3>2. ASSUME errorMsg = "null", NEW w \in old \cap docs',
                 Configured[at] = Target[w][1]
          PROVE  Target[w][2] \in left'
      <4>1. w \in old \cap docs /\ w \in Writer
        BY <1>1, <1>2
      <4>2. Target[w][2] \in left
        BY <1>7, <2>1, <3>2, <4>1
      <4>3. Target[w] # <<Configured[at], c>>
        BY <2>3, <3>2 DEF Emptied
      <4>4. Target[w] = <<Configured[at], Target[w][2]>>
        BY <3>2, <4>1, Setup
      <4> QED BY <2>3, <4>2, <4>3, <4>4
    <3>3. ASSUME errorMsg = "null", NEW w \in old \cap docs'
          PROVE  \A i \in Behind : Configured[i] # Target[w][1]
      BY <1>2, <1>7, <3>3
    <3> QED BY <3>1, <3>2, <3>3 DEF EmptiedSoFar
  <2> QED BY <1>5, <1>16, <2>2, <2>3 DEF Truncate
<1>17. CASE Emit
  <2>1. Behind' = Behind /\ rpc' # "truncate" /\ old' = old /\ errorMsg' = errorMsg
    BY <1>2, <1>17 DEF Emit, To, Behind
  <2> QED BY <1>2, <1>6, <1>7, <2>1
<1> QED BY <1>11, <1>12, <1>13, <1>14, <1>15, <1>16, <1>17 DEF ResetStep

LEMMA GoneStep == GoneInv /\ [Next]_vars => GoneInv'
<1> SUFFICES ASSUME GoneInv, [Next]_vars PROVE GoneInv'
  OBVIOUS
<1>1. QueryInv' /\ TypeInv'
  BY QueryInvStep, TypeStep DEF GoneInv
<1>2. CASE \E w \in Writer : Write(w) /\ UNCHANGED resetVars
  BY <1>1, <1>2, WriteKeepsGone DEF GoneInv
<1>3. CASE ResetCall \/ ResetStep
  BY <1>1, <1>3, StepKeepsGone DEF GoneInv
<1>4. CASE (\E d \in Db : DatabaseAppears(d)) \/ UNCHANGED vars
  BY <1>1, <1>4 DEF DatabaseAppears, vars, queryVars, resetVars, GoneInv, StoredOnceOnly,
                    EmptiedSoFar, Behind, Told, Exists
<1> QED BY <1>2, <1>3, <1>4 DEF Next, ResetStep

\* A reset that tells success, and met no error without a message, has
\* removed all that the configured databases held when it was called, with
\* any number of databases and operations that write meanwhile.
THEOREM OldGoneTrue == Spec => []OldGone
<1>1. GoneInv => OldGone
  <2> SUFFICES ASSUME GoneInv, response = "status", errorMsg # "empty",
                      NEW w \in old \cap docs, NEW i \in DOMAIN Configured
               PROVE  Configured[i] # Target[w][1]
    BY DEF OldGone
  <2>1. rpc = "done" /\ errorMsg = "null"
    BY DEF GoneInv, Told, TypeInv, ResetTypeOK
  <2> QED BY <2>1, Setup DEF GoneInv, EmptiedSoFar, Behind
<1> QED BY GoneInit, GoneStep, <1>1, PTL DEF Spec
=============================================================================
