---------------------------- MODULE ArangoQuery ----------------------------
(***************************************************************************)
(* Operations of the ArangoDB provider.  All run through query(): when the *)
(* collection does not exist it is created and loaded and the query is     *)
(* made again.  Each request is awaited, so that others come in between.   *)
(*                                                                         *)
(* The operation modelled is insert(), the one for which it matters that   *)
(* it is done twice.  ArangoDB is external: a request has its effect or    *)
(* not, and can fail in both cases.                                        *)
(***************************************************************************)
EXTENDS Naturals

CONSTANTS
  Db,         \* ArangoDB databases
  Coll,       \* names of collections
  Writer,     \* operations; each inserts one document
  Target,     \* Target[w]: the database and the collection of w
  Errors      \* what requests may fail with: "other" is an error that is not
              \* about the collection, "empty" one without a message

ASSUME QueryAssumption ==
  Target \in [Writer -> Db \X Coll] /\ Errors \subseteq {"other", "empty"}

VARIABLES
  dbs,       \* the databases that exist
  colls,     \* the collections that exist
  docs,      \* the writers whose document is stored
  pc,        \* pc[w]: the request w makes next, or how it has ended
  applied,   \* history: applied[w], the number of times w stored its document
  faulted,   \* history: the writers with a request that failed
  created    \* history: the writers that created their collection

queryVars == <<dbs, colls, docs, pc, applied, faulted, created>>

QueryTypeOK ==
  /\ dbs \subseteq Db /\ colls \subseteq dbs \X Coll /\ docs \subseteq Writer
  /\ pc \in [Writer -> {"query", "create", "load", "retry", "done", "failed"}]
  /\ applied \in [Writer -> Nat]
  /\ faulted \subseteq Writer /\ created \subseteq Writer

QueryInit ==
  /\ dbs \in SUBSET Db /\ colls \in SUBSET (dbs \X Coll) /\ docs = {}
  /\ pc = [w \in Writer |-> "query"]
  /\ applied = [w \in Writer |-> 0]
  /\ faulted = {} /\ created = {}

-----------------------------------------------------------------------------
Goes(w, to) == pc' = [pc EXCEPT ![w] = to]

Exists(w) == Target[w] \in colls

Stores(w) == /\ Exists(w)
             /\ docs' = docs \cup {w}
             /\ applied' = [applied EXCEPT ![w] = @ + 1]
StoresNothing == UNCHANGED <<docs, applied>>

Faults(w) == Errors # {} /\ faulted' = faulted \cup {w}

\* The errors that are thrown again: those that have a message, and another
\* one than 'collection not found'.  Mutant: the comparison the other way.
NotFoundThrown(err) == err = "notFound"
Thrown(err) == err = "other"
Catches(w, err) == Goes(w, IF Thrown(err) THEN "failed" ELSE "create")

\* The first db.query(), of an operation whose connection has a database.
Query(w) ==
  /\ pc[w] = "query" /\ Target[w][1] \in dbs
  /\ \/ Stores(w) /\ Goes(w, "done") /\ UNCHANGED faulted
     \/ ~Exists(w) /\ StoresNothing /\ Catches(w, "notFound") /\ UNCHANGED faulted
     \/ /\ \E err \in Errors : Catches(w, err)
        /\ Stores(w) \/ StoresNothing
        /\ Faults(w)
  /\ UNCHANGED <<dbs, colls, created>>

\* c.create() fails when the collection exists.
\* Mutant: it is taken for created then.
CreateAnyway(w) ==
  /\ pc[w] = "create"
  /\ colls' = colls \cup {Target[w]} /\ created' = created \cup {w}
  /\ Goes(w, "load")
  /\ UNCHANGED <<dbs, docs, applied, faulted>>
Create(w) ==
  /\ pc[w] = "create"
  /\ \/ /\ ~Exists(w)
        /\ colls' = colls \cup {Target[w]} /\ created' = created \cup {w}
        /\ \/ Goes(w, "load") /\ UNCHANGED faulted
           \/ Goes(w, "failed") /\ Faults(w)
     \/ /\ Goes(w, "failed") /\ UNCHANGED <<colls, created>>
        /\ (Exists(w) /\ UNCHANGED faulted) \/ Faults(w)
  /\ UNCHANGED <<dbs, docs, applied>>

\* c.load(false)
Load(w) ==
  /\ pc[w] = "load"
  /\ \/ Goes(w, "retry") /\ UNCHANGED faulted
     \/ Goes(w, "failed") /\ Faults(w)
  /\ UNCHANGED <<dbs, colls, docs, applied, created>>

\* The second db.query()
Retry(w) ==
  /\ pc[w] = "retry"
  /\ \/ Stores(w) /\ Goes(w, "done") /\ UNCHANGED faulted
     \/ (Stores(w) \/ StoresNothing) /\ Goes(w, "failed") /\ Faults(w)
  /\ UNCHANGED <<dbs, colls, created>>

Write(w) == Query(w) \/ Create(w) \/ Load(w) \/ Retry(w)

-----------------------------------------------------------------------------
(***************************************************************************)
(* Properties                                                              *)
(***************************************************************************)
\* No document is stored twice, whatever fails: when the first query may have
\* stored it, its collection exists, and the second query is not reached.
AppliedOnce == \A w \in Writer : applied[w] <= 1

\* When no request of an operation failed, it succeeds, unless another
\* operation has created the same collection in between.
FailsOnlyWhenRaced == \A w \in Writer :
  pc[w] = "failed" /\ w \notin faulted =>
    \E v \in created \ {w} : Target[v] = Target[w]
=============================================================================
