---------------------------- MODULE MCDocuments ----------------------------
(***************************************************************************)
(* Documents with three ids, two of which differ in '/' and '_' only, and  *)
(* a field that is a number (one of them 0), a string, or missing.  The    *)
(* filters take each branch of buildField, alone, joined, negated and with *)
(* two operators.                                                          *)
(***************************************************************************)
EXTENDS Documents, SequencesExt

Num(n) == [type |-> "number", n |-> n]
Str(n) == [type |-> "string", n |-> n]
Truth == [type |-> "boolean", n |-> 1]

\* The strings 1 to 3 are ids: "a/b", "a_b" and "c"; 4 and 5 are "x" and "X".
MCId == {Str(1), Str(2), Str(3)}
MCKey == [i \in MCId |-> IF i = Str(1) THEN Str(2) ELSE i]
MCValue == {Num(0), Num(2), Str(5)}

\* "a/b" and "a_b" start with "a" (6); "X" starts and ends with "x" for NeDB.
Starts == {<<1, 6>>, <<2, 6>>}
MCAffix == [op \in Affixes |-> IF op = "$startswith" THEN Starts ELSE {<<3, 3>>}]
MCAffixAnyCase == [op \in Affixes |-> MCAffix[op] \cup {<<5, 4>>}]

Page_(o, l) == [offset |-> o, limit |-> l]
MCPage == {Page_(None, None), Page_(1, None), Page_(None, 1), Page_(1, 1), Page_(0, 0)}

Op(op, v) == op :> Is(v)
F(op, v) == On("f", With(Op(op, v)))
Eq2 == On("f", Is(Num(2)))
Simple == {Eq2, On("f", Is(Num(0))), On("id", Is(Str(1))),
           F("$gt", Num(0)), F("$gt", Num(1)), F("$gte", Num(2)), F("$lt", Num(2)),
           F("$lte", Num(2)), F("$ne", Num(2)), F("$eq", Num(2)),
           F("$startswith", Str(4)), On("id", With(Op("$startswith", Str(6)))),
           On("id", With(Op("$endswith", Str(3)))),
           On("f", With("$in" :> List({Num(2)}))),
           On("id", With("$in" :> List({Str(1), Str(3)}))),
           On("id", With("$nin" :> List({Str(1)}))),
           On("f", With("$inAttr" :> Is(Truth)))}
Between == On("f", With(Op("$gt", Num(1)) @@ Op("$lt", Num(2))))
Id3 == On("id", Is(Str(3)))
Not == On("f", With("$not" :> With(Op("$gt", Num(1)))))
Both == Among("$and", <<Id3, Not>>)
Compound == {<<>>, Between, Not, Both, Id3, Eq2 \o Id3,
             Among("$or", <<Eq2, Id3>>),
             Among("$and", <<F("$gt", Num(1)), F("$lt", Num(2))>>),
             Among("$or", <<On("id", Is(Str(1))), Both>>),
             Among("$nor", <<Eq2>>)}
MCFilter == Simple \cup Compound

FieldConds(filter) == {filter[i].cond : i \in {j \in DOMAIN filter : filter[j].key \in Field}}
MCCondition == UNION {FieldConds(filter) : filter \in MCFilter}

MCConditionDepth[c \in MCCondition] ==
  IF Negates(c) THEN 1 + MCConditionDepth[c.of["$not"]] ELSE 0
MCFilterDepth[filter \in MCFilter] == Max({0} \cup UNION {
  {1 + MCFilterDepth[filter[i].parts[j]] : j \in DOMAIN filter[i].parts} :
  i \in {k \in DOMAIN filter : Joined(filter[k].key)}})
=============================================================================
