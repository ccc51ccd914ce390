------------------------------ MODULE Filters ------------------------------
(***************************************************************************)
(* What a filter of the database providers selects: the AQL condition that *)
(* the ArangoDB provider builds of it, what the query of the NeDB provider *)
(* matches, and what the filter means where both follow MongoDB.           *)
(*                                                                         *)
(* A value has a type and a number that orders the values of its type; the *)
(* number 0 is for the values JavaScript takes for false: "", 0 and false. *)
(* Values of different types differ; text that spells a number or a        *)
(* boolean is not considered.  A condition on a field is a value, or       *)
(* operators with their operands; an operand is a value, a list of values  *)
(* or, for $not, a condition.  A filter is the sequence of the entries of  *)
(* an object: conditions on fields, $or and $and of one or more filters    *)
(* that are not empty, and operators of other names, which neither of the  *)
(* providers has.  An operator that NeDB does not know stands alone in its *)
(* condition.  No $not stands around $startswith or $endswith: the code    *)
(* builds these as raw text, and whether the negation of the AQL builder   *)
(* takes all of it is not in the repository.                               *)
(*                                                                         *)
(* Filters and conditions are finite objects: what is said of them by      *)
(* recursion goes from a filter to the filters it joins, and from a        *)
(* condition to the one it negates, both of which are less deep.           *)
(***************************************************************************)
EXTENDS Naturals, Sequences, FiniteSetsExt

CONSTANTS
  Id,              \* the ids, as values
  Value,           \* the values field f may have
  Affix,           \* Affix[op]: pairs of a string and one it starts or ends with
  AffixAnyCase,    \* the same when upper and lower case are not told apart
  Condition,       \* the conditions clients use, with those they negate
  Filter,          \* the filters clients use, with those they join
  ConditionDepth,  \* how deep a condition is nested,
  FilterDepth      \* and a filter

Affixes == {"$startswith", "$endswith"}
Types == {"boolean", "number", "string"}
Missing == [type |-> "null", n |-> 0]

Field == {"id", "f"}
Doc == [id : Id, f : Value \cup {Missing}]
FieldValue == Id \cup Value \cup {Missing}

\* Conditions, operands and entries.
Is(v) == [is |-> "value", value |-> v]
List(S) == [is |-> "list", list |-> S]
With(ops) == [is |-> "ops", of |-> ops]
On(key, c) == <<[key |-> key, cond |-> c]>>
Among(key, parts) == <<[key |-> key, parts |-> parts]>>
Joined(key) == key \in {"$or", "$and"}
Negates(c) == c.is # "value" /\ "$not" \in DOMAIN c.of

ASSUME FiltersAssumption ==
  /\ \A op \in Affixes : Affix[op] \subseteq AffixAnyCase[op]
  /\ \A i \in Id : i.type = "string"
  /\ \A v \in Value : v.type \in Types
  /\ \A c \in Condition :
       /\ ConditionDepth[c] \in Nat
       /\ Negates(c) => /\ c.of["$not"] \in Condition
                        /\ ConditionDepth[c.of["$not"]] < ConditionDepth[c]
                        /\ \A op \in Affixes : c.of["$not"].is = "value"
                                             \/ op \notin DOMAIN c.of["$not"].of
  /\ \A filter \in Filter :
       /\ FilterDepth[filter] \in Nat
       /\ \A i \in DOMAIN filter :
            LET e == filter[i] IN
            /\ e.key \in Field => e.cond \in Condition
            /\ Joined(e.key) => e.parts # <<>> /\ \A j \in DOMAIN e.parts :
                 /\ e.parts[j] \in Filter \ {<<>>}
                 /\ FilterDepth[e.parts[j]] < FilterDepth[filter]

\* The entries for fields, however deep, of a filter.
FieldEntries[filter \in Filter] == UNION {
  IF Joined(filter[i].key)
  THEN UNION {FieldEntries[filter[i].parts[j]] : j \in DOMAIN filter[i].parts}
  ELSE {filter[i]} : i \in DOMAIN filter}

\* What $or and $and say of a document when it is known what their parts say.
Joins(e, holds, d) ==
  IF e.key = "$or" THEN \E j \in DOMAIN e.parts : holds[e.parts[j]][d]
  ELSE \A j \in DOMAIN e.parts : holds[e.parts[j]][d]

Falsy(x) == x.is = "value" /\ x.value.n = 0

Comparisons == {"$eq", "$gt", "$gte", "$lt", "$lte", "$ne"}
Compares(op, v, w, below(_, _)) ==
  CASE op = "$eq" -> v = w
    [] op = "$ne" -> v # w
    [] op = "$gt" -> below(w, v)
    [] op = "$gte" -> below(w, v) \/ v = w
    [] op = "$lt" -> below(v, w)
    [] op = "$lte" -> below(v, w) \/ v = w

-----------------------------------------------------------------------------
(* The ArangoDB provider.                                                  *)

\* The order in which buildField looks for operators.
OperatorOrder == <<"$eq", "$gt", "$gte", "$lt", "$lte", "$ne", "$inAttr", "$in",
                   "$nin", "$not", "$startswith", "$endswith">>

\* The operator it takes: the first whose operand is not falsy; the others of
\* the same condition are left out.
Candidates(c) ==
  {i \in DOMAIN OperatorOrder : /\ OperatorOrder[i] \in DOMAIN c.of
                                /\ ~Falsy(c.of[OperatorOrder[i]])}
Taken(c) == OperatorOrder[Min(Candidates(c))]

\* Whether buildField finds something to build; of the plain values it does
\* not take the number 0.
BuildsField[c \in Condition] ==
  IF c.is = "value" THEN ~(Falsy(c) /\ c.value.type = "number")
  ELSE /\ Candidates(c) # {}
       /\ Taken(c) = "$not" => BuildsField[c.of["$not"]]

\* AQL orders values of all types, null before booleans, numbers and strings.
TypeOrder == [null |-> 0, boolean |-> 1, number |-> 2, string |-> 3]
AqlBelow(v, w) == \/ TypeOrder[v.type] < TypeOrder[w.type]
                  \/ v.type = w.type /\ v.n < w.n

\* autoCastValue of an array: each of its members becomes a string.
Stringified(S) == {v \in S : v.type = "string"}

\* Mutant: the comparisons that include their operand do not.
AqlStrictly(op, v, w) ==
  Compares(CASE op = "$gte" -> "$gt" [] op = "$lte" -> "$lt" [] OTHER -> op, v, w, AqlBelow)
AqlCompares(op, v, w) == Compares(op, v, w, AqlBelow)

AqlOperator(op, v, x) ==
  CASE op \in Comparisons -> AqlCompares(op, v, x.value)
    [] op = "$inAttr" -> FALSE    \* no field here has a list
    [] op = "$in" -> v \in Stringified(x.list)
    [] op = "$nin" -> v \notin Stringified(x.list)
    [] OTHER -> v.type = "string" /\ <<v.n, x.value.n>> \in Affix[op]

\* (Of a condition without candidates there is nothing to ask.)
AqlField[c \in Condition] == [v \in FieldValue |->
  IF c.is = "value" THEN v = c.value
  ELSE /\ Candidates(c) # {}
       /\ IF Taken(c) = "$not" THEN ~AqlField[c.of["$not"]][v]
          ELSE AqlOperator(Taken(c), v, c.of[Taken(c)])]

\* buildFilter: an entry that is neither joined nor a field makes it throw.
Builds(filter) == \A e \in FieldEntries[filter] : e.key \in Field /\ BuildsField[e.cond]

AqlHolds[filter \in Filter] == [d \in Doc |-> \A i \in DOMAIN filter :
  LET e == filter[i] IN
  IF Joined(e.key) THEN Joins(e, AqlHolds, d)
  ELSE e.key \in Field /\ AqlField[e.cond][d[e.key]]]

-----------------------------------------------------------------------------
(* The NeDB provider; its library compares values of one type only.        *)

NedbBelow(v, w) == v.type = w.type /\ v.type # "boolean" /\ v.n < w.n
NedbOperators == {"$gt", "$gte", "$lt", "$lte", "$ne", "$in", "$nin"}

\* convertToRegexp: an affix stands for the whole condition.
RegexpOf(c) == CHOOSE op \in Affixes :
  /\ op \in DOMAIN c.of /\ ~Falsy(c.of[op])
  /\ op = "$endswith" => "$startswith" \notin DOMAIN c.of \/ Falsy(c.of["$startswith"])
HasRegexp(c) == \E op \in Affixes \cap DOMAIN c.of : ~Falsy(c.of[op])

NedbCompares(op, v, x) ==
  CASE op = "$in" -> v \in x.list
    [] op = "$nin" -> v \notin x.list
    [] OTHER -> Compares(op, v, x.value, NedbBelow)

NedbField(c, v) ==
  IF c.is = "value" THEN v = c.value
  ELSE IF HasRegexp(c)
       THEN v.type = "string" /\ <<v.n, c.of[RegexpOf(c)].value.n>> \in AffixAnyCase[RegexpOf(c)]
       ELSE \A op \in DOMAIN c.of : NedbCompares(op, v, c.of[op])

\* An operator that NeDB does not know throws when a document gets to it.
NedbKnows(c) == c.is = "value" \/ HasRegexp(c) \/ DOMAIN c.of \subseteq NedbOperators

NedbEntry(e, holds, d) ==
  IF Joined(e.key) THEN Joins(e, holds, d)
  ELSE e.key \in Field /\ NedbKnows(e.cond) /\ NedbField(e.cond, d[e.key])
NedbHolds[filter \in Filter] == [d \in Doc |->
  \A i \in DOMAIN filter : NedbEntry(filter[i], NedbHolds, d)]

\* The entries are tried in order, for as long as they decide nothing.
NedbThrows[filter \in Filter] == [d \in Doc |-> \E i \in DOMAIN filter :
  /\ \A h \in 1..(i - 1) : NedbEntry(filter[h], NedbHolds, d)
  /\ LET e == filter[i] IN
     IF Joined(e.key)
     THEN \E j \in DOMAIN e.parts :
            /\ \A h \in 1..(j - 1) : NedbHolds[e.parts[h]][d] <=> e.key = "$and"
            /\ NedbThrows[e.parts[j]][d]
     ELSE e.key \in Field => ~NedbKnows(e.cond)]

-----------------------------------------------------------------------------
(* The meaning both have in common with MongoDB.                           *)

SameTypeBelow(v, w) == v.type = w.type /\ v.n < w.n

MeantOperator(op, v, x) ==
  CASE op \in Comparisons -> Compares(op, v, x.value, SameTypeBelow)
    [] op = "$in" -> v \in x.list
    [] op = "$nin" -> v \notin x.list
    [] op \in Affixes -> v.type = "string" /\ <<v.n, x.value.n>> \in Affix[op]
    [] OTHER -> FALSE

MeantField[c \in Condition] == [v \in FieldValue |->
  IF c.is = "value" THEN v = c.value
  ELSE \A op \in DOMAIN c.of :
         IF op = "$not" THEN ~MeantField[c.of["$not"]][v]
         ELSE MeantOperator(op, v, c.of[op])]

Meant[filter \in Filter] == [d \in Doc |-> \A i \in DOMAIN filter :
  LET e == filter[i] IN
  IF Joined(e.key) THEN Joins(e, Meant, d)
  ELSE e.key \in Field /\ MeantField[e.cond][d[e.key]]]
=============================================================================
