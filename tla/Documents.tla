----------------------------- MODULE Documents -----------------------------
(***************************************************************************)
(* One collection behind both database providers: each operation is called *)
(* on the ArangoDB provider and on the NeDB provider, and the model keeps  *)
(* what each has stored and answered.  README.md calls the providers a     *)
(* database abstraction; the repository runs one test suite against both.  *)
(*                                                                         *)
(* A document has an id and perhaps a field f.  ArangoDB stores it under a *)
(* key made of its id, NeDB with an _id: the id of a document inserted     *)
(* alone or upserted, a generated one for each member of an inserted list. *)
(* Ids are not empty, documents bring no _key of their own, and the ids of *)
(* one findByID are different.                                             *)
(* Every AQL query is atomic: it does all of its work or fails.  The       *)
(* collection exists (its creation is the subject of ArangoQuery).         *)
(***************************************************************************)
EXTENDS Filters

CONSTANTS
  Key,        \* Key[i]: idToKey(i), the id with '_' for each '/'
  Page,       \* the options of find: [offset, limit], None if not given
  None,
  MaxMade     \* bound: ids NeDB generates

ASSUME DocumentsAssumption ==
  /\ Key \in [Id -> Id]
  /\ MaxMade \in Nat

VARIABLES
  arango,   \* the documents in ArangoDB, each with its key
  nedb,     \* the documents in NeDB, each with its _id
  made,     \* the number of ids NeDB has generated
  last,     \* what the last operation answered, by either provider
  used      \* history: the uses the providers do not have in common

vars == <<arango, nedb, made, last, used>>

Stored(key, d) == [key |-> key, doc |-> d]
Docs(store) == {s.doc : s \in store}
Generated(n) == [type |-> "generated", n |-> n]

DocumentsTypeOK ==
  /\ arango \subseteq [key : {Key[i] : i \in Id}, doc : Doc]
  /\ \A s, t \in arango : s.key = t.key => s = t
  /\ nedb \subseteq [key : Id \cup {Generated(n) : n \in 1..made}, doc : Doc]
  /\ \A s, t \in nedb : s.key = t.key => s = t
  /\ made \in 0..MaxMade

Answer(ok, docs, n) == [ok |-> ok, docs |-> docs, n |-> n]
Done == Answer(TRUE, {}, 0)
Throws == Answer(FALSE, {}, 0)

Init == /\ arango = {} /\ nedb = {} /\ made = 0
        /\ last = [arango |-> Done, nedb |-> Done]
        /\ used = {}

Answers(a, n) == last' = [arango |-> a, nedb |-> n]

\* Bound: a history ends with the first use that is not common to both.
Goes(uses) == used = {} /\ used' = uses

-----------------------------------------------------------------------------
(* Which uses are not common to both.                                      *)

ValuesOf(key) == {d[key] : d \in Docs(arango)}

OneOperator(c) == \E op \in DOMAIN c.of : DOMAIN c.of = {op}

\* A condition has one operator both know, its operand is not falsy, the
\* values it orders are of one type, no value differs from an affix in case
\* only, and lists are of strings.
CommonCondition(key, c) ==
  IF c.is = "value" THEN ~(Falsy(c) /\ c.value.type = "number")
  ELSE /\ OneOperator(c)
       /\ \A op \in DOMAIN c.of :
            LET x == c.of[op] IN
            /\ ~Falsy(x)
            /\ CASE op \in {"$gt", "$gte", "$lt", "$lte"} ->
                      /\ x.value.type # "boolean"
                      /\ \A v \in ValuesOf(key) : v.type = x.value.type
                 [] op = "$ne" -> TRUE
                 [] op \in {"$in", "$nin"} -> Stringified(x.list) = x.list
                 [] op \in Affixes -> \A v \in ValuesOf(key) :
                      <<v.n, x.value.n>> \in AffixAnyCase[op] \ Affix[op] => v.type # "string"
                 [] OTHER -> FALSE

CommonFilter(filter) == \A e \in FieldEntries[filter] :
  e.key \in Field /\ CommonCondition(e.key, e.cond)

FilterUses(filter) == IF CommonFilter(filter) THEN {} ELSE {"filter"}

\* Another id has the key of this one.
Collides(i) == \E d \in Docs(arango) : d.id # i /\ Key[d.id] = Key[i]
Present(i) == \E d \in Docs(arango) : d.id = i
If(use, b) == IF b THEN {use} ELSE {}

-----------------------------------------------------------------------------
(* insert                                                                  *)

\* ensureKey of a document without a _key; mutant: without idToKey's
\* replacement.
KeyPlain(i) == i
KeyOf(i) == Key[i]

\* AQL inserts all documents or, when a key is taken, none.
ArangoInsert(docs) ==
  LET new == {Stored(KeyOf(docs[k].id), docs[k]) : k \in DOMAIN docs}
  IN /\ Cardinality({s.key : s \in new}) = Len(docs)
     /\ \A s \in new, t \in arango : s.key # t.key
     /\ arango' = arango \cup new
ArangoRefuses(docs) ==
  \/ Cardinality({KeyOf(docs[k].id) : k \in DOMAIN docs}) # Len(docs)
  \/ \E k \in DOMAIN docs, t \in arango : t.key = KeyOf(docs[k].id)

\* (When NeDB refuses a document its callback also throws, which nobody
\* catches; the history ends there.)
Insert(d) ==
  /\ Goes(If("collision", Collides(d.id)) \cup If("duplicate", Present(d.id)))
  /\ \/ ArangoRefuses(<<d>>) /\ UNCHANGED arango
     \/ ArangoInsert(<<d>>)
  /\ nedb' = IF \E s \in nedb : s.key = d.id THEN nedb
             ELSE nedb \cup {Stored(d.id, d)}
  /\ Answers(IF ArangoRefuses(<<d>>) THEN Throws ELSE Done,
             IF nedb' = nedb THEN Throws ELSE Done)
  /\ UNCHANGED made

\* The list gets the _id, its members do not: NeDB generates theirs.
InsertList(docs) ==
  /\ made + Len(docs) <= MaxMade
  /\ Goes(If("collision", ArangoRefuses(docs)))
  /\ \/ ArangoRefuses(docs) /\ UNCHANGED arango
     \/ ArangoInsert(docs)
  /\ nedb' = nedb \cup {Stored(Generated(made + k), docs[k]) : k \in DOMAIN docs}
  /\ made' = made + Len(docs)
  /\ Answers(IF ArangoRefuses(docs) THEN Throws ELSE Done, Done)

-----------------------------------------------------------------------------
(* find, count, findByID                                                   *)

ArangoSelected(filter) == {s \in arango : AqlHolds[filter][s.doc]}
NedbSelected(filter) == {s \in nedb : NedbHolds[filter][s.doc]}
NedbFails(filter) == \E s \in nedb : NedbThrows[filter][s.doc]

AtMost(n, m) == IF n < m THEN n ELSE m
Behind(n, m) == IF m < n THEN n - m ELSE 0

\* How many of n documents buildLimiter leaves: an offset needs a limit.
\* Mutant: LIMIT counts the documents passed over.
LimitedInAll(n, p) == IF p.limit = None THEN n
                      ELSE Behind(AtMost(n, p.limit), IF p.offset = None THEN 0 ELSE p.offset)
Limited(n, p) == IF p.limit = None THEN n
                 ELSE AtMost(Behind(n, IF p.offset = None THEN 0 ELSE p.offset), p.limit)

\* NeDB takes either alone, and takes 0 for not given.
NedbLimited(n, p) ==
  LET rest == IF p.offset = None THEN n ELSE Behind(n, p.offset)
  IN IF p.limit \in {None, 0} THEN rest ELSE AtMost(rest, p.limit)

PageUses(p) == If("page", \/ p.limit = 0
                          \/ p.limit = None /\ p.offset \notin {None, 0})

\* The whole answer without options; the number of documents with them.
Whole == [offset |-> None, limit |-> None]
Found(selected, n, p) ==
  Answer(TRUE, IF p = Whole THEN Docs(selected) ELSE {}, n)

Find(filter, p) ==
  /\ Goes(FilterUses(filter) \cup PageUses(p))
  /\ Answers(IF ~Builds(filter) THEN Throws
             ELSE Found(ArangoSelected(filter),
                        Limited(Cardinality(ArangoSelected(filter)), p), p),
             IF NedbFails(filter) THEN Throws
             ELSE Found(NedbSelected(filter),
                        NedbLimited(Cardinality(NedbSelected(filter)), p), p))
  /\ UNCHANGED <<arango, nedb, made>>

Count(filter) ==
  /\ Goes(FilterUses(filter))
  /\ Answers(IF ~Builds(filter) THEN Throws
             ELSE Answer(TRUE, {}, Cardinality(ArangoSelected(filter))),
             IF NedbFails(filter) THEN Throws
             ELSE Answer(TRUE, {}, Cardinality(NedbSelected(filter))))
  /\ UNCHANGED <<arango, nedb, made>>

\* ArangoDB looks for keys, NeDB for ids.  (Of an id that is given twice it
\* would answer the document twice.)
FindByID(S) ==
  LET ofKeys == {s \in arango : s.key \in {KeyOf(i) : i \in S}}
      ofIds == {s \in nedb : s.doc.id \in S}
  IN /\ Goes(If("collision", \E i \in S : Collides(i)))
     /\ Answers(Found(ofKeys, Cardinality(ofKeys), Whole),
                Found(ofIds, Cardinality(ofIds), Whole))
     /\ UNCHANGED <<arango, nedb, made>>

-----------------------------------------------------------------------------
(* update, upsert                                                          *)

\* A patch may set the id (None if not) and f (Missing if not).
Patched(d, patch) == [id |-> IF patch.id = None THEN d.id ELSE patch.id,
                      f |-> IF patch.f = Missing THEN d.f ELSE patch.f]
Changed(store, selected, patch) ==
  (store \ selected) \cup {[s EXCEPT !.doc = Patched(@, patch)] : s \in selected}

\* Neither changes the key or _id of a document.
Update(filter, patch) ==
  /\ Goes(FilterUses(filter)
          \cup If("id", /\ patch.id # None /\ Builds(filter)
                         /\ \E s \in ArangoSelected(filter) : s.doc.id # patch.id))
  /\ arango' = IF ~Builds(filter) THEN arango
               ELSE Changed(arango, ArangoSelected(filter), patch)
  /\ nedb' = IF NedbFails(filter) THEN nedb
             ELSE Changed(nedb, NedbSelected(filter), patch)
  /\ Answers(IF Builds(filter) THEN Done ELSE Throws,
             IF NedbFails(filter) THEN Throws ELSE Done)
  /\ UNCHANGED made

\* ArangoDB patches the document with the key, NeDB replaces the one with
\* the _id.
ArangoUpserted(d) ==
  LET old == {s \in arango : s.key = KeyOf(d.id)}
  IN IF old = {} THEN arango \cup {Stored(KeyOf(d.id), d)}
     ELSE Changed(arango, old, d)
NedbUpserted(d) ==
  {s \in nedb : s.key # d.id} \cup {Stored(d.id, d)}

\* NeDB finds by _id only: it does not know a member of a list again.
UpsertUses(d) ==
  If("collision", Collides(d.id))
  \cup If("list", \E s \in nedb : s.doc.id = d.id /\ s.key # d.id)
  \cup If("partial", d.f = Missing /\ \E s \in arango : s.doc.id = d.id /\ s.doc.f # Missing)

UpsertAnswer(store, key) == Answer(TRUE, Docs({s \in store : s.key = key}), 1)

Upsert(d) ==
  /\ Goes(UpsertUses(d))
  /\ arango' = ArangoUpserted(d)
  /\ nedb' = NedbUpserted(d)
  /\ Answers(UpsertAnswer(arango', KeyOf(d.id)), UpsertAnswer(nedb', d.id))
  /\ UNCHANGED made

-----------------------------------------------------------------------------
(* delete, truncate                                                        *)

\* When its query throws, NeDB may have removed some documents before.
Delete(filter) ==
  /\ Goes(FilterUses(filter))
  /\ arango' = IF Builds(filter) THEN arango \ ArangoSelected(filter) ELSE arango
  /\ nedb' \in IF NedbFails(filter) THEN {nedb \ S : S \in SUBSET NedbSelected(filter)}
              ELSE {nedb \ NedbSelected(filter)}
  /\ Answers(IF Builds(filter) THEN Done ELSE Throws,
             IF NedbFails(filter) THEN Throws ELSE Done)
  /\ UNCHANGED made

Truncate == /\ Goes({}) /\ arango' = {} /\ nedb' = {}
            /\ Answers(Done, Done) /\ UNCHANGED made

-----------------------------------------------------------------------------
Patch == [id : Id \cup {None}, f : Value \cup {Missing}]

Next == \/ \E d \in Doc : Insert(d) \/ Upsert(d)
        \/ \E d, e \in Doc : InsertList(<<d, e>>)
        \/ \E filter \in Filter, p \in Page : Find(filter, p)
        \/ \E filter \in Filter : Count(filter) \/ Delete(filter)
        \/ \E S \in SUBSET Id : FindByID(S)
        \/ \E filter \in Filter, patch \in Patch : Update(filter, patch)
        \/ Truncate

Spec == Init /\ [][Next]_vars
-----------------------------------------------------------------------------
(***************************************************************************)
(* Properties                                                              *)
(***************************************************************************)
\* The providers are one abstraction for all that they have in common: after
\* any sequence of operations whose filters, ids and options both take the
\* same way they hold the same documents, each once, and answer the same.
SameDocuments == used = {} =>
  /\ Docs(arango) = Docs(nedb)
  /\ Cardinality(arango) = Cardinality(nedb)
  /\ last.arango = last.nedb

\* What a filter of the ArangoDB provider selects is what it means, when its
\* conditions have one operator each, lists of strings only and fields of
\* the type they are compared with.  A condition with more operators is built
\* of the first of them alone: without $not it selects too much, never less.
Nested[c \in Condition] ==
  {c} \cup IF Negates(c) THEN Nested[c.of["$not"]] ELSE {}
Plain(c, v) == \A s \in Nested[c] : s.is = "value" \/ \A op \in DOMAIN s.of :
  LET x == s.of[op] IN
  CASE op \in {"$in", "$nin"} -> Stringified(x.list) = x.list
    [] op \in {"$gt", "$gte", "$lt", "$lte"} -> v.type = x.value.type
    [] OTHER -> TRUE
Single(c) == \A s \in Nested[c] : s.is = "value" \/ OneOperator(s)

SelectsMeant == \A filter \in Filter : Builds(filter) =>
  LET E == FieldEntries[filter] IN
  \A d \in {x \in Docs(arango) : \A e \in E : Plain(e.cond, x[e.key])} :
    /\ (\A e \in E : Single(e.cond)) => (AqlHolds[filter][d] <=> Meant[filter][d])
    /\ (\A e \in E : ~Negates(e.cond)) => (Meant[filter][d] => AqlHolds[filter][d])
=============================================================================
