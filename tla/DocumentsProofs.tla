--------------------------- MODULE DocumentsProofs ---------------------------
(***************************************************************************)
(* What the two database providers have in common, for every set of ids,   *)
(* values, keys, options and filters, however deep, and for histories of   *)
(* any length.                                                             *)
(*                                                                         *)
(* A filter is defined by recursion.  The first part proves what induction *)
(* over the depth of filters and conditions proves, from the least-number  *)
(* principle, and that a function defined by recursion over the depth      *)
(* exists; the second that the functions of Filters are what their         *)
(* definitions say.  The third compares what the providers make of a       *)
(* condition and of a filter; the last are the stores, the invariant       *)
(* StoresInv that every operation keeps and DocumentsInv, which all that   *)
(* are used in common keep.                                                *)
(***************************************************************************)
EXTENDS Documents, WellFoundedInduction, FiniteSetTheorems, TLAPS

-----------------------------------------------------------------------------
(* Recursion over filters and conditions.                                  *)

Before == {ss \in Nat \X Nat : ss[1] < ss[2]}

\* A set of natural numbers that is not empty has a least member.
LEMMA LeastOf ==
  ASSUME NEW T, T \subseteq Nat, T # {}
  PROVE  \E n \in T : \A m \in T : n <= m
<1>1. IsWellFoundedOn(Before, Nat)
  <2>1. IsWellFoundedOn({ss \in Nat \X Nat : ss[1] < ss[2]}, Nat)
    BY NatLessThanWellFounded, Zenon DEF OpToRel
  <2> QED BY <2>1, Zenon DEF Before
<1>2. PICK n \in T : \A m \in T : ~(<<m, n>> \in Before)
  BY <1>1, WFMin, Zenon
<1>3. ASSUME NEW m \in T PROVE n <= m
  <2>1. m \in Nat /\ n \in Nat /\ <<m, n>> \notin Before
    BY <1>2
  <2>2. ~(m < n)
    BY <2>1 DEF Before
  <2> QED BY <2>1, <2>2
<1> QED BY <1>3

\* What holds of a member of S if it holds of all that lie below it holds of
\* every member.
LEMMA InductionOn ==
  ASSUME NEW S, NEW depth, \A x \in S : depth[x] \in Nat,
         NEW T,
         \A x \in S : (\A y \in S : depth[y] < depth[x] => y \in T) => x \in T
  PROVE  S \subseteq T
<1> SUFFICES ASSUME NEW z \in S, z \notin T PROVE FALSE
  OBVIOUS
<1> DEFINE D == {depth[x] : x \in S \ T}
<1>1. D \subseteq Nat /\ D # {}
  OBVIOUS
<1>2. PICK n \in D : \A m \in D : n <= m
  BY <1>1, LeastOf, Zenon
<1>3. PICK x \in S \ T : n = depth[x]
  BY <1>2
<1>4. ASSUME NEW y \in S, depth[y] < depth[x] PROVE y \in T
  <2>1. SUFFICES ASSUME y \notin T PROVE FALSE
    OBVIOUS
  <2>2. n <= depth[y]
    BY <1>2, <2>1
  <2> QED BY <1>3, <1>4, <2>2
<1> QED BY <1>3, <1>4

\* F[x][g] is the value at x of a function whose values below x are those of
\* g; the function exists.
DefinesBelow(F, S, depth, R) ==
  /\ R # {}
  /\ \A x \in S : depth[x] \in Nat
  /\ \A x \in S : \A g \in [S -> R] : F[x][g] \in R
  /\ \A x \in S : \A g, h \in [S -> R] :
       (\A y \in S : depth[y] < depth[x] => g[y] = h[y]) => F[x][g] = F[x][h]
Recursive(F, S, R) == {f \in [S -> R] : \A x \in S : f[x] = F[x][f]}

\* There is such a function.
LEMMA RecursionOn ==
  ASSUME NEW S, NEW depth, NEW R, NEW F, DefinesBelow(F, S, depth, R)
  PROVE  Recursive(F, S, R) # {}
<1> USE DEF DefinesBelow, Recursive
<1> DEFINE UpTo(n) == {g \in [S -> R] : \A x \in S : depth[x] < n => g[x] = F[x][g]}
<1> SUFFICES ASSUME S # {} PROVE \E f \in [S -> R] : \A x \in S : f[x] = F[x][f]
  <2>1. CASE S = {}
    <3>1. [x \in S |-> x] \in [S -> R]
      BY <2>1
    <3> QED BY <2>1, <3>1
  <2> QED BY <2>1
\* Two functions that are right below n and m are equal below both.
<1>1. ASSUME NEW n \in Nat, NEW m \in Nat, NEW g \in UpTo(n), NEW h \in UpTo(m)
      PROVE  \A x \in S : depth[x] < n /\ depth[x] < m => g[x] = h[x]
  <2> DEFINE T == {x \in S : depth[x] < n /\ depth[x] < m => g[x] = h[x]}
  <2>1. ASSUME NEW x \in S, \A y \in S : depth[y] < depth[x] => y \in T
        PROVE  x \in T
    <3>1. SUFFICES ASSUME depth[x] < n, depth[x] < m PROVE g[x] = h[x]
      OBVIOUS
    <3>2. \A y \in S : depth[y] < depth[x] => g[y] = h[y]
      BY <2>1, <3>1
    <3>3. F[x][g] = F[x][h]
      BY <3>2
    <3> QED BY <3>1, <3>3
  <2>2. S \subseteq T
    <3> HIDE DEF T, UpTo
    <3> QED BY <2>1, InductionOn, Zenon
  <2> QED BY <2>2
\* For every n there is a function that is right below n.
<1>2. \A n \in Nat : UpTo(n) # {}
  <2> DEFINE D == {n \in Nat : UpTo(n) = {}}
  <2>1. SUFFICES ASSUME D # {} PROVE FALSE
    <3> HIDE DEF UpTo
    <3> QED OBVIOUS
  <2>2. PICK n \in D : \A m \in D : n <= m
    <3>1. D \subseteq Nat
      OBVIOUS
    <3> HIDE DEF D
    <3> QED BY <2>1, <3>1, LeastOf, Zenon
  <2>3. n # 0
    <3>1. PICK r \in R : TRUE
      OBVIOUS
    <3>2. [x \in S |-> r] \in UpTo(0)
      OBVIOUS
    <3> QED BY <3>2, <2>2
  <2>4. PICK g : g \in UpTo(n - 1)
    <3>1. n \in Nat /\ n - 1 \in Nat /\ ~(n <= n - 1)
      BY <2>2, <2>3
    <3> QED BY <3>1, <2>2
  <2> DEFINE h == [x \in S |-> F[x][g]]
  <2>5. h \in [S -> R]
    BY <2>4
  <2>6. ASSUME NEW x \in S, depth[x] < n PROVE h[x] = F[x][h]
    <3>1. \A y \in S : depth[y] < depth[x] => depth[y] < n - 1
      BY <2>6, <2>2
    <3>2. \A y \in S : depth[y] < depth[x] => h[y] = g[y]
      BY <3>1, <2>4
    <3>3. F[x][h] = F[x][g]
      BY <3>2, <2>4, <2>5
    <3> QED BY <3>3
  <2>7. h \in UpTo(n)
    BY <2>5, <2>6
  <2> QED BY <2>7, <2>2
<1> DEFINE G(x) == CHOOSE g : g \in UpTo(depth[x] + 1)
<1>3. ASSUME NEW x \in S PROVE G(x) \in UpTo(depth[x] + 1)
  <2>1. UpTo(depth[x] + 1) # {}
    BY <1>2
  <2> HIDE DEF UpTo
  <2> QED BY <2>1
<1> DEFINE f == [x \in S |-> G(x)[x]]
<1>4. f \in [S -> R]
  <2>1. \A x \in S : G(x) \in [S -> R]
    BY <1>3
  <2> HIDE DEF G
  <2> QED BY <2>1
<1>5. ASSUME NEW x \in S PROVE f[x] = F[x][f]
  <2>1. ASSUME NEW y \in S, depth[y] < depth[x] PROVE f[y] = G(x)[y]
    <3>1. \A z \in S : depth[z] < depth[y] + 1 /\ depth[z] < depth[x] + 1 => G(y)[z] = G(x)[z]
      <4>1. G(y) \in UpTo(depth[y] + 1) /\ G(x) \in UpTo(depth[x] + 1)
        BY <1>3
      <4>2. depth[y] + 1 \in Nat /\ depth[x] + 1 \in Nat
        OBVIOUS
      <4> HIDE DEF UpTo, G
      <4> QED BY <4>1, <4>2, <1>1
    <3> HIDE DEF G
    <3> QED BY <3>1, <2>1
  <2>2. G(x) \in [S -> R] /\ G(x)[x] = F[x][G(x)]
    <3> HIDE DEF G
    <3>1. G(x) \in UpTo(depth[x] + 1) /\ depth[x] < depth[x] + 1
      <4> HIDE DEF UpTo
      <4> QED BY <1>3
    <3> QED BY <3>1
  <2> HIDE DEF G
  <2>3. F[x][f] = F[x][G(x)]
    <3> HIDE DEF f
    <3> QED BY <2>1, <2>2, <1>4
  <2> QED BY <2>2, <2>3
<1> HIDE DEF f, G, UpTo
<1> QED BY <1>4, <1>5

-----------------------------------------------------------------------------
(* What the recursive definitions of Filters say.                          *)

\* The nesting of filters and conditions, in the form the proofs use.
LEMMA FiltersNested ==
  /\ \A c \in Condition :
       /\ ConditionDepth[c] \in Nat
       /\ Negates(c) => /\ c.of["$not"] \in Condition
                        /\ ConditionDepth[c.of["$not"]] < ConditionDepth[c]
  /\ \A filter \in Filter : FilterDepth[filter] \in Nat
  /\ \A filter \in Filter : \A i \in DOMAIN filter :
       /\ filter[i].key \in Field => filter[i].cond \in Condition
       /\ Joined(filter[i].key) => \A j \in DOMAIN filter[i].parts :
            /\ filter[i].parts[j] \in Filter
            /\ FilterDepth[filter[i].parts[j]] < FilterDepth[filter]
BY FiltersAssumption

EntriesOf(entries, filter) == UNION {
  IF Joined(filter[i].key)
  THEN UNION {entries[filter[i].parts[j]] : j \in DOMAIN filter[i].parts}
  ELSE {filter[i]} : i \in DOMAIN filter}

\* FieldEntries is what its definition says.
LEMMA FieldEntriesDef ==
  FieldEntries = [filter \in Filter |-> EntriesOf(FieldEntries, filter)]
<1> DEFINE Entry == UNION {{filter[i] : i \in DOMAIN filter} : filter \in Filter}
           R == SUBSET Entry
           F == [filter \in Filter |-> [g \in [Filter -> R] |-> EntriesOf(g, filter)]]
<1>1. ASSUME NEW filter \in Filter, NEW g \in [Filter -> R]
      PROVE  EntriesOf(g, filter) \in R
  BY FiltersNested DEF EntriesOf
<1>2. ASSUME NEW filter \in Filter, NEW g \in [Filter -> R], NEW h \in [Filter -> R],
             \A y \in Filter : FilterDepth[y] < FilterDepth[filter] => g[y] = h[y]
      PROVE  EntriesOf(g, filter) = EntriesOf(h, filter)
  BY <1>2, FiltersNested DEF EntriesOf
<1>3. PICK f : f \in Recursive(F, Filter, R)
  <2>1. R # {}
    OBVIOUS
  <2>2. \A filter \in Filter : \A g \in [Filter -> R] : F[filter][g] = EntriesOf(g, filter)
    OBVIOUS
  <2> HIDE DEF F, R
  <2>3. DefinesBelow(F, Filter, FilterDepth, R)
    BY <1>1, <1>2, <2>1, <2>2, FiltersNested DEF DefinesBelow
  <2> QED BY <2>3, RecursionOn, Zenon
<1>4. f = [filter \in Filter |-> EntriesOf(f, filter)]
  BY <1>3 DEF Recursive
<1>5. \E e : e = [filter \in Filter |-> EntriesOf(e, filter)]
  BY <1>4, Zenon
<1>6. FieldEntries = CHOOSE e : e = [filter \in Filter |-> EntriesOf(e, filter)]
  BY Zenon DEF FieldEntries, EntriesOf
<1> QED BY <1>5, <1>6, Zenon

\* What a filter says of the documents, when its parts say holds and the
\* conditions of L are met.
SaidOf(holds, filter, L) == [d \in Doc |-> \A i \in DOMAIN filter :
  IF Joined(filter[i].key) THEN Joins(filter[i], holds, d) ELSE <<filter[i], d>> \in L]
Entry == UNION {{filter[i] : i \in DOMAIN filter} : filter \in Filter}

\* Whatever the conditions select, what filters say of them exists.
LEMMA SaidExists ==
  ASSUME NEW L
  PROVE  \E f : f = [filter \in Filter |-> SaidOf(f, filter, L)]
<1> DEFINE R == [Doc -> BOOLEAN]
           F == [filter \in Filter |-> [g \in [Filter -> R] |-> SaidOf(g, filter, L)]]
<1>1. ASSUME NEW filter \in Filter, NEW g \in [Filter -> R]
      PROVE  SaidOf(g, filter, L) \in R
  BY DEF SaidOf
<1>2. ASSUME NEW filter \in Filter, NEW g \in [Filter -> R], NEW h \in [Filter -> R],
             \A y \in Filter : FilterDepth[y] < FilterDepth[filter] => g[y] = h[y]
      PROVE  SaidOf(g, filter, L) = SaidOf(h, filter, L)
  <2>1. ASSUME NEW i \in DOMAIN filter, Joined(filter[i].key), NEW d
        PROVE  Joins(filter[i], g, d) <=> Joins(filter[i], h, d)
    <3>1. \A j \in DOMAIN filter[i].parts : g[filter[i].parts[j]] = h[filter[i].parts[j]]
      BY <1>2, <2>1, FiltersNested
    <3> QED BY <3>1 DEF Joins
  <2> QED BY <2>1 DEF SaidOf
<1>3. PICK f : f \in Recursive(F, Filter, R)
  <2>1. R # {}
    <3>1. [d \in Doc |-> TRUE] \in R
      OBVIOUS
    <3> QED BY <3>1
  <2>2. \A filter \in Filter : \A g \in [Filter -> R] : F[filter][g] = SaidOf(g, filter, L)
    OBVIOUS
  <2> HIDE DEF F, R
  <2>3. DefinesBelow(F, Filter, FilterDepth, R)
    BY <1>1, <1>2, <2>1, <2>2, FiltersNested DEF DefinesBelow
  <2> QED BY <2>3, RecursionOn, Zenon
<1>4. f = [filter \in Filter |-> SaidOf(f, filter, L)]
  BY <1>3 DEF Recursive
<1> QED BY <1>4, Zenon

\* A member of a sequence of entries is an entry.
LEMMA IsEntry == \A filter \in Filter : \A i \in DOMAIN filter : filter[i] \in Entry
BY DEF Entry

\* So do the functions that say whether a document is selected: AqlHolds,
LEMMA AqlHoldsDef ==
  \A filter \in Filter, d \in Doc : AqlHolds[filter][d] <=> \A i \in DOMAIN filter :
    IF Joined(filter[i].key) THEN Joins(filter[i], AqlHolds, d)
    ELSE filter[i].key \in Field /\ AqlField[filter[i].cond][d[filter[i].key]]
<1> DEFINE Of(holds, filter) == [d \in Doc |-> \A i \in DOMAIN filter :
             IF Joined(filter[i].key) THEN Joins(filter[i], holds, d)
    ELSE filter[i].key \in Field /\ AqlField[filter[i].cond][d[filter[i].key]]]
           L == {p \in Entry \X Doc : p[1].key \in Field /\ AqlField[p[1].cond][p[2][p[1].key]]}
<1>1. ASSUME NEW filter \in Filter, NEW f PROVE Of(f, filter) = SaidOf(f, filter, L)
  BY IsEntry DEF SaidOf
<1>2. AqlHolds = CHOOSE f : f = [filter \in Filter |-> Of(f, filter)]
  BY Zenon DEF AqlHolds
<1> HIDE DEF Of, L
<1>3. PICK f : f = [filter \in Filter |-> SaidOf(f, filter, L)]
  BY SaidExists
<1>4. f = [filter \in Filter |-> Of(f, filter)]
  BY <1>1, <1>3
<1>5. AqlHolds = [filter \in Filter |-> Of(AqlHolds, filter)]
  BY <1>2, <1>4, Zenon
<1>6. \A filter \in Filter : AqlHolds[filter] = Of(AqlHolds, filter)
  BY <1>5
<1>7. \A filter \in Filter, d \in Doc : AqlHolds[filter][d] = Of(AqlHolds, filter)[d]
  BY <1>6, Zenon
<1> HIDE <1>5, <1>6
<1> QED BY <1>7 DEF Of

\* Meant
LEMMA MeantDef ==
  \A filter \in Filter, d \in Doc : Meant[filter][d] <=> \A i \in DOMAIN filter :
    IF Joined(filter[i].key) THEN Joins(filter[i], Meant, d)
    ELSE filter[i].key \in Field /\ MeantField[filter[i].cond][d[filter[i].key]]
<1> DEFINE Of(holds, filter) == [d \in Doc |-> \A i \in DOMAIN filter :
             IF Joined(filter[i].key) THEN Joins(filter[i], holds, d)
    ELSE filter[i].key \in Field /\ MeantField[filter[i].cond][d[filter[i].key]]]
           L == {p \in Entry \X Doc : p[1].key \in Field /\ MeantField[p[1].cond][p[2][p[1].key]]}
<1>1. ASSUME NEW filter \in Filter, NEW f PROVE Of(f, filter) = SaidOf(f, filter, L)
  BY IsEntry DEF SaidOf
<1>2. Meant = CHOOSE f : f = [filter \in Filter |-> Of(f, filter)]
  BY Zenon DEF Meant
<1> HIDE DEF Of, L
<1>3. PICK f : f = [filter \in Filter |-> SaidOf(f, filter, L)]
  BY SaidExists
<1>4. f = [filter \in Filter |-> Of(f, filter)]
  BY <1>1, <1>3
<1>5. Meant = [filter \in Filter |-> Of(Meant, filter)]
  BY <1>2, <1>4, Zenon
<1>6. \A filter \in Filter : Meant[filter] = Of(Meant, filter)
  BY <1>5
<1>7. \A filter \in Filter, d \in Doc : Meant[filter][d] = Of(Meant, filter)[d]
  BY <1>6, Zenon
<1> HIDE <1>5, <1>6
<1> QED BY <1>7 DEF Of

\* and NedbHolds.
LEMMA NedbHoldsDef ==
  \A filter \in Filter, d \in Doc : NedbHolds[filter][d] <=> \A i \in DOMAIN filter :
    NedbEntry(filter[i], NedbHolds, d)
<1> DEFINE Of(holds, filter) == [d \in Doc |-> \A i \in DOMAIN filter :
             NedbEntry(filter[i], holds, d)]
           L == {p \in Entry \X Doc : /\ p[1].key \in Field /\ NedbKnows(p[1].cond)
                                     /\ NedbField(p[1].cond, p[2][p[1].key])}
<1>1. ASSUME NEW filter \in Filter, NEW f PROVE Of(f, filter) = SaidOf(f, filter, L)
  BY IsEntry DEF SaidOf, NedbEntry
<1>2. NedbHolds = CHOOSE f : f = [filter \in Filter |-> Of(f, filter)]
  BY Zenon DEF NedbHolds
<1> HIDE DEF Of, L
<1>3. PICK f : f = [filter \in Filter |-> SaidOf(f, filter, L)]
  BY SaidExists
<1>4. f = [filter \in Filter |-> Of(f, filter)]
  BY <1>1, <1>3
<1>5. NedbHolds = [filter \in Filter |-> Of(NedbHolds, filter)]
  BY <1>2, <1>4, Zenon
<1>6. \A filter \in Filter : NedbHolds[filter] = Of(NedbHolds, filter)
  BY <1>5
<1>7. \A filter \in Filter, d \in Doc : NedbHolds[filter][d] = Of(NedbHolds, filter)[d]
  BY <1>6, Zenon
<1> HIDE <1>5, <1>6
<1> QED BY <1>7 DEF Of

\* The operator that is taken is a candidate.
LEMMA TakenIsCandidate ==
  ASSUME NEW c, Candidates(c) # {}
  PROVE  /\ Taken(c) \in DOMAIN c.of
         /\ ~Falsy(c.of[Taken(c)])
         /\ \E k \in DOMAIN OperatorOrder : Taken(c) = OperatorOrder[k]
<1>1. Candidates(c) \subseteq Nat
  BY DEF Candidates, OperatorOrder
<1>2. \E k \in Candidates(c) : \A m \in Candidates(c) : k <= m
  BY <1>1, LeastOf, Zenon
<1>3. Min(Candidates(c)) \in Candidates(c)
  BY <1>2, Zenon DEF Min
<1> QED BY <1>3, Zenon DEF Taken, Candidates

\* The condition that is negated is one, and is less deep.
LEMMA NegatesLess ==
  \A c \in Condition : Negates(c) =>
    /\ c.of["$not"] \in Condition
    /\ ConditionDepth[c.of["$not"]] < ConditionDepth[c]
BY FiltersAssumption

\* A condition of which $not is taken negates another.
LEMMA TakenNegates ==
  \A c \in Condition : c.is # "value" /\ Candidates(c) # {} /\ Taken(c) = "$not" => Negates(c)
BY TakenIsCandidate DEF Negates

\* The functions over conditions are what their definitions say: BuildsField,
LEMMA BuildsFieldDef ==
  \A c \in Condition : BuildsField[c] =
    IF c.is = "value" THEN ~(Falsy(c) /\ c.value.type = "number")
    ELSE /\ Candidates(c) # {}
         /\ Taken(c) = "$not" => BuildsField[c.of["$not"]]
<1> DEFINE R == BOOLEAN
           Of(g, c) == 
             IF c.is = "value" THEN ~(Falsy(c) /\ c.value.type = "number")
             ELSE /\ Candidates(c) # {}
                  /\ Taken(c) = "$not" => g[c.of["$not"]]
           F == [c \in Condition |-> [g \in [Condition -> R] |-> Of(g, c)]]
<1>1. ASSUME NEW c \in Condition, NEW g \in [Condition -> R] PROVE Of(g, c) \in R
  BY NegatesLess, TakenNegates
<1>2. ASSUME NEW c \in Condition, NEW g \in [Condition -> R], NEW h \in [Condition -> R],
             \A y \in Condition : ConditionDepth[y] < ConditionDepth[c] => g[y] = h[y]
      PROVE  Of(g, c) = Of(h, c)
  BY <1>2, NegatesLess, TakenNegates
<1>3. BuildsField = CHOOSE f : f = [c \in Condition |-> Of(f, c)]
  BY Zenon DEF BuildsField
<1>4. R # {}
  OBVIOUS
<1>5. \A c \in Condition : ConditionDepth[c] \in Nat
  BY FiltersAssumption
<1> HIDE DEF Of, R
<1>6. PICK f : f \in Recursive(F, Condition, R)
  <2>1. \A c \in Condition : \A g \in [Condition -> R] : F[c][g] = Of(g, c)
    OBVIOUS
  <2> HIDE DEF F
  <2>2. DefinesBelow(F, Condition, ConditionDepth, R)
    BY <1>1, <1>2, <1>4, <1>5, <2>1 DEF DefinesBelow
  <2> QED BY <2>2, RecursionOn, Zenon
<1>7. f = [c \in Condition |-> Of(f, c)]
  BY <1>6 DEF Recursive
<1>8. BuildsField = [c \in Condition |-> Of(BuildsField, c)]
  BY <1>3, <1>7, Zenon
<1>9. \A c \in Condition : BuildsField[c] = Of(BuildsField, c)
  BY <1>8
<1> HIDE <1>7, <1>8
<1> QED BY <1>9, Zenon DEF Of

\* Nested,
LEMMA NestedDef ==
  \A c \in Condition : Nested[c] = {c} \cup IF Negates(c) THEN Nested[c.of["$not"]] ELSE {}
<1> DEFINE R == SUBSET Condition
           Of(g, c) == {c} \cup IF Negates(c) THEN g[c.of["$not"]] ELSE {}
           F == [c \in Condition |-> [g \in [Condition -> R] |-> Of(g, c)]]
<1>1. ASSUME NEW c \in Condition, NEW g \in [Condition -> R] PROVE Of(g, c) \in R
  BY NegatesLess
<1>2. ASSUME NEW c \in Condition, NEW g \in [Condition -> R], NEW h \in [Condition -> R],
             \A y \in Condition : ConditionDepth[y] < ConditionDepth[c] => g[y] = h[y]
      PROVE  Of(g, c) = Of(h, c)
  BY <1>2, NegatesLess
<1>3. Nested = CHOOSE f : f = [c \in Condition |-> Of(f, c)]
  BY Zenon DEF Nested
<1>4. R # {}
  OBVIOUS
<1>5. \A c \in Condition : ConditionDepth[c] \in Nat
  BY FiltersAssumption
<1> HIDE DEF Of, R
<1>6. PICK f : f \in Recursive(F, Condition, R)
  <2>1. \A c \in Condition : \A g \in [Condition -> R] : F[c][g] = Of(g, c)
    OBVIOUS
  <2> HIDE DEF F
  <2>2. DefinesBelow(F, Condition, ConditionDepth, R)
    BY <1>1, <1>2, <1>4, <1>5, <2>1 DEF DefinesBelow
  <2> QED BY <2>2, RecursionOn, Zenon
<1>7. f = [c \in Condition |-> Of(f, c)]
  BY <1>6 DEF Recursive
<1>8. Nested = [c \in Condition |-> Of(Nested, c)]
  BY <1>3, <1>7, Zenon
<1>9. \A c \in Condition : Nested[c] = Of(Nested, c)
  BY <1>8
<1> HIDE <1>7, <1>8
<1> QED BY <1>9, Zenon DEF Of

\* AqlField
LEMMA AqlFieldDef ==
  \A c \in Condition, v \in FieldValue : AqlField[c][v] <=>
    IF c.is = "value" THEN v = c.value
    ELSE /\ Candidates(c) # {}
         /\ IF Taken(c) = "$not" THEN ~AqlField[c.of["$not"]][v]
            ELSE AqlOperator(Taken(c), v, c.of[Taken(c)])
<1> DEFINE R == [FieldValue -> BOOLEAN]
           Of(g, c) == [v \in FieldValue |->
             IF c.is = "value" THEN v = c.value
             ELSE /\ Candidates(c) # {}
                  /\ IF Taken(c) = "$not" THEN ~g[c.of["$not"]][v]
                     ELSE AqlOperator(Taken(c), v, c.of[Taken(c)])]
           F == [c \in Condition |-> [g \in [Condition -> R] |-> Of(g, c)]]
<1>1. ASSUME NEW c \in Condition, NEW g \in [Condition -> R] PROVE Of(g, c) \in R
  BY DEF AqlOperator, AqlCompares, Compares, AqlBelow
<1>2. ASSUME NEW c \in Condition, NEW g \in [Condition -> R], NEW h \in [Condition -> R],
             \A y \in Condition : ConditionDepth[y] < ConditionDepth[c] => g[y] = h[y]
      PROVE  Of(g, c) = Of(h, c)
  <2>1. c.is # "value" /\ Candidates(c) # {} /\ Taken(c) = "$not"
        => g[c.of["$not"]] = h[c.of["$not"]]
    BY <1>2, NegatesLess, TakenNegates
  <2> QED BY <2>1
<1>3. AqlField = CHOOSE f : f = [c \in Condition |-> Of(f, c)]
  BY Zenon DEF AqlField
<1>4. R # {}
  <2>1. [v \in FieldValue |-> TRUE] \in R
    OBVIOUS
  <2> QED BY <2>1
<1>5. \A c \in Condition : ConditionDepth[c] \in Nat
  BY FiltersAssumption
<1> HIDE DEF Of, R
<1>6. PICK f : f \in Recursive(F, Condition, R)
  <2>1. \A c \in Condition : \A g \in [Condition -> R] : F[c][g] = Of(g, c)
    OBVIOUS
  <2> HIDE DEF F
  <2>2. DefinesBelow(F, Condition, ConditionDepth, R)
    BY <1>1, <1>2, <1>4, <1>5, <2>1 DEF DefinesBelow
  <2> QED BY <2>2, RecursionOn, Zenon
<1>7. f = [c \in Condition |-> Of(f, c)]
  BY <1>6 DEF Recursive
<1>8. AqlField = [c \in Condition |-> Of(AqlField, c)]
  BY <1>3, <1>7, Zenon
<1>9. \A c \in Condition : AqlField[c] = Of(AqlField, c)
  BY <1>8
<1>10. \A c \in Condition, v \in FieldValue : AqlField[c][v] = Of(AqlField, c)[v]
  BY <1>9, Zenon
<1> HIDE <1>7, <1>8, <1>9
<1> QED BY <1>10 DEF Of

\* and MeantField.
LEMMA MeantFieldDef ==
  \A c \in Condition, v \in FieldValue : MeantField[c][v] <=>
    IF c.is = "value" THEN v = c.value
    ELSE \A op \in DOMAIN c.of :
           IF op = "$not" THEN ~MeantField[c.of["$not"]][v]
           ELSE MeantOperator(op, v, c.of[op])
<1> DEFINE R == [FieldValue -> BOOLEAN]
           Of(g, c) == [v \in FieldValue |->
             IF c.is = "value" THEN v = c.value
             ELSE \A op \in DOMAIN c.of :
                    IF op = "$not" THEN ~g[c.of["$not"]][v]
                    ELSE MeantOperator(op, v, c.of[op])]
           F == [c \in Condition |-> [g \in [Condition -> R] |-> Of(g, c)]]
<1>1. ASSUME NEW c \in Condition, NEW g \in [Condition -> R] PROVE Of(g, c) \in R
  BY DEF MeantOperator, Compares, SameTypeBelow
<1>2. ASSUME NEW c \in Condition, NEW g \in [Condition -> R], NEW h \in [Condition -> R],
             \A y \in Condition : ConditionDepth[y] < ConditionDepth[c] => g[y] = h[y]
      PROVE  Of(g, c) = Of(h, c)
  <2>1. Negates(c) => g[c.of["$not"]] = h[c.of["$not"]]
    BY <1>2, NegatesLess
  <2> QED BY <2>1 DEF Negates
<1>3. MeantField = CHOOSE f : f = [c \in Condition |-> Of(f, c)]
  BY Zenon DEF MeantField
<1>4. R # {}
  <2>1. [v \in FieldValue |-> TRUE] \in R
    OBVIOUS
  <2> QED BY <2>1
<1>5. \A c \in Condition : ConditionDepth[c] \in Nat
  BY FiltersAssumption
<1> HIDE DEF Of, R
<1>6. PICK f : f \in Recursive(F, Condition, R)
  <2>1. \A c \in Condition : \A g \in [Condition -> R] : F[c][g] = Of(g, c)
    OBVIOUS
  <2> HIDE DEF F
  <2>2. DefinesBelow(F, Condition, ConditionDepth, R)
    BY <1>1, <1>2, <1>4, <1>5, <2>1 DEF DefinesBelow
  <2> QED BY <2>2, RecursionOn, Zenon
<1>7. f = [c \in Condition |-> Of(f, c)]
  BY <1>6 DEF Recursive
<1>8. MeantField = [c \in Condition |-> Of(MeantField, c)]
  BY <1>3, <1>7, Zenon
<1>9. \A c \in Condition : MeantField[c] = Of(MeantField, c)
  BY <1>8
<1>10. \A c \in Condition, v \in FieldValue : MeantField[c][v] = Of(MeantField, c)[v]
  BY <1>9, Zenon
<1> HIDE <1>7, <1>8, <1>9
<1> QED BY <1>10 DEF Of

\* NedbThrows is what its definition says.
LEMMA NedbThrowsDef ==
  \A filter \in Filter, d \in Doc : NedbThrows[filter][d] <=>
    \E i \in DOMAIN filter :
      /\ \A h \in 1..(i - 1) : NedbEntry(filter[h], NedbHolds, d)
      /\ IF Joined(filter[i].key)
         THEN \E j \in DOMAIN filter[i].parts :
                /\ \A h \in 1..(j - 1) : NedbHolds[filter[i].parts[h]][d] <=> filter[i].key = "$and"
                /\ NedbThrows[filter[i].parts[j]][d]
         ELSE filter[i].key \in Field => ~NedbKnows(filter[i].cond)
<1> DEFINE R == [Doc -> BOOLEAN]
           Of(g, filter) == [d \in Doc |->
             \E i \in DOMAIN filter :
               /\ \A h \in 1..(i - 1) : NedbEntry(filter[h], NedbHolds, d)
               /\ IF Joined(filter[i].key)
                  THEN \E j \in DOMAIN filter[i].parts :
                         /\ \A h \in 1..(j - 1) : NedbHolds[filter[i].parts[h]][d] <=> filter[i].key = "$and"
                         /\ g[filter[i].parts[j]][d]
                  ELSE filter[i].key \in Field => ~NedbKnows(filter[i].cond)]
           F == [filter \in Filter |-> [g \in [Filter -> R] |-> Of(g, filter)]]
<1>1. ASSUME NEW filter \in Filter, NEW g \in [Filter -> R] PROVE Of(g, filter) \in R
  OBVIOUS
<1>2. ASSUME NEW filter \in Filter, NEW g \in [Filter -> R], NEW h \in [Filter -> R],
             \A y \in Filter : FilterDepth[y] < FilterDepth[filter] => g[y] = h[y]
      PROVE  Of(g, filter) = Of(h, filter)
  <2>1. \A i \in DOMAIN filter : Joined(filter[i].key) => \A j \in DOMAIN filter[i].parts :
          g[filter[i].parts[j]] = h[filter[i].parts[j]]
    BY <1>2, FiltersNested
  <2> QED BY <2>1
<1>3. NedbThrows = CHOOSE f : f = [filter \in Filter |-> Of(f, filter)]
  BY Zenon DEF NedbThrows
<1>4. R # {}
  <2>1. [d \in Doc |-> TRUE] \in R
    OBVIOUS
  <2> QED BY <2>1
<1> HIDE DEF Of, R
<1>5. PICK f : f \in Recursive(F, Filter, R)
  <2>1. \A filter \in Filter : \A g \in [Filter -> R] : F[filter][g] = Of(g, filter)
    OBVIOUS
  <2> HIDE DEF F
  <2>2. DefinesBelow(F, Filter, FilterDepth, R)
    BY <1>1, <1>2, <1>4, <2>1, FiltersNested DEF DefinesBelow
  <2> QED BY <2>2, RecursionOn, Zenon
<1>6. f = [filter \in Filter |-> Of(f, filter)]
  BY <1>5 DEF Recursive
<1>7. NedbThrows = [filter \in Filter |-> Of(NedbThrows, filter)]
  BY <1>3, <1>6, Zenon
<1>8. \A filter \in Filter : NedbThrows[filter] = Of(NedbThrows, filter)
  BY <1>7
<1>9. \A filter \in Filter, d \in Doc : NedbThrows[filter][d] = Of(NedbThrows, filter)[d]
  BY <1>8, Zenon
<1> HIDE <1>6, <1>7, <1>8
<1> QED BY <1>9 DEF Of

-----------------------------------------------------------------------------
(* Conditions.                                                             *)

\* Every value of a field has a place in the order of types.
LEMMA FieldTypes == \A v \in FieldValue : v.type \in DOMAIN TypeOrder
BY FiltersAssumption DEF FieldValue, TypeOrder, Types, Missing

\* AQL orders values of one type as they are meant to be.
LEMMA BelowSame ==
  ASSUME NEW v, NEW w, v.type = w.type, v.type \in DOMAIN TypeOrder
  PROVE  /\ AqlBelow(v, w) <=> SameTypeBelow(v, w)
         /\ AqlBelow(w, v) <=> SameTypeBelow(w, v)
         /\ v.type # "boolean" => /\ NedbBelow(v, w) <=> SameTypeBelow(v, w)
                                  /\ NedbBelow(w, v) <=> SameTypeBelow(w, v)
<1>1. TypeOrder[v.type] \in Nat
  BY DEF TypeOrder
<1>2. ~(TypeOrder[v.type] < TypeOrder[w.type])
  BY <1>1
<1>3. ~(TypeOrder[w.type] < TypeOrder[v.type])
  BY <1>1
<1> QED BY <1>2, <1>3, Zenon DEF AqlBelow, SameTypeBelow, NedbBelow

Orders == {"$gt", "$gte", "$lt", "$lte"}

\* A comparison selects what it means when it orders values of one type.
LEMMA ComparesMeant ==
  ASSUME NEW op \in Comparisons, NEW v, NEW w, v.type \in DOMAIN TypeOrder,
         op \in Orders => v.type = w.type
  PROVE  AqlCompares(op, v, w) <=> Compares(op, v, w, SameTypeBelow)
<1>1. CASE op = "$eq"
  BY <1>1 DEF AqlCompares, Compares
<1>2. CASE op = "$ne"
  BY <1>2 DEF AqlCompares, Compares
<1>3. CASE op \in Orders
  <2>1. /\ AqlBelow(v, w) <=> SameTypeBelow(v, w)
        /\ AqlBelow(w, v) <=> SameTypeBelow(w, v)
    BY <1>3, BelowSame
  <2>2. CASE op = "$gt"
    BY <2>1, <2>2 DEF AqlCompares, Compares
  <2>3. CASE op = "$gte"
    BY <2>1, <2>3 DEF AqlCompares, Compares
  <2>4. CASE op = "$lt"
    BY <2>1, <2>4 DEF AqlCompares, Compares
  <2>5. CASE op = "$lte"
    BY <2>1, <2>5 DEF AqlCompares, Compares
  <2> QED BY <1>3, <2>2, <2>3, <2>4, <2>5 DEF Orders
<1> QED BY <1>1, <1>2, <1>3 DEF Comparisons, Orders

\* The operators of the ArangoDB provider select what they mean.
LEMMA OperatorMeant ==
  ASSUME NEW v \in FieldValue, NEW op, NEW x,
         op \in Comparisons \cup {"$inAttr", "$in", "$nin"} \cup Affixes,
         op \in {"$in", "$nin"} => Stringified(x.list) = x.list,
         op \in Orders => v.type = x.value.type
  PROVE  AqlOperator(op, v, x) <=> MeantOperator(op, v, x)
<1>1. CASE op \in Comparisons
  <2>1. AqlOperator(op, v, x) <=> AqlCompares(op, v, x.value)
    BY <1>1 DEF AqlOperator, Comparisons
  <2>2. MeantOperator(op, v, x) <=> Compares(op, v, x.value, SameTypeBelow)
    BY <1>1 DEF MeantOperator, Comparisons, Affixes
  <2> QED BY <1>1, <2>1, <2>2, ComparesMeant, FieldTypes, Zenon
<1>2. CASE op \in {"$inAttr", "$in", "$nin"}
  BY <1>2 DEF AqlOperator, MeantOperator, Comparisons, Affixes
<1>3. CASE op \in Affixes
  BY <1>3 DEF AqlOperator, MeantOperator, Comparisons, Affixes
<1> QED BY <1>1, <1>2, <1>3

\* Of a condition with one operator and no falsy operand that one is taken.
LEMMA TakenOnly ==
  ASSUME NEW c, NEW op, DOMAIN c.of = {op}, Candidates(c) # {}
  PROVE  Taken(c) = op
BY TakenIsCandidate

\* What both providers build of a common condition, and what it selects, is
\* the same.
LEMMA CommonConditionAgrees ==
  ASSUME NEW key \in Field, NEW c \in Condition, CommonCondition(key, c),
         Docs(arango) \subseteq Doc
  PROVE  /\ BuildsField[c] /\ NedbKnows(c)
         /\ \A d \in Docs(arango) : AqlField[c][d[key]] <=> NedbField(c, d[key])
<1>1. \A d \in Docs(arango) : d[key] \in FieldValue /\ d[key] \in ValuesOf(key)
  BY DEF Doc, Field, FieldValue, ValuesOf
<1>2. CASE c.is = "value"
  BY <1>1, <1>2, AqlFieldDef, BuildsFieldDef DEF CommonCondition, NedbKnows, NedbField
<1>3. CASE c.is # "value"
  <2>1. PICK op \in DOMAIN c.of : DOMAIN c.of = {op}
    BY <1>3 DEF CommonCondition, OneOperator
  <2> DEFINE x == c.of[op]
  <2>2. /\ ~Falsy(x)
        /\ op \in Orders \cup {"$ne", "$in", "$nin"} \cup Affixes
        /\ op \in Orders => x.value.type # "boolean" /\ \A v \in ValuesOf(key) : v.type = x.value.type
        /\ op \in {"$in", "$nin"} => Stringified(x.list) = x.list
        /\ op \in Affixes => \A v \in ValuesOf(key) :
             <<v.n, x.value.n>> \in AffixAnyCase[op] \ Affix[op] => v.type # "string"
    BY <1>3, <2>1 DEF CommonCondition, Orders, Affixes
  <2>3. Candidates(c) # {}
    <3>1. PICK k \in DOMAIN OperatorOrder : OperatorOrder[k] = op
      BY <2>2 DEF OperatorOrder, Orders, Affixes
    <3> QED BY <3>1, <2>1, <2>2 DEF Candidates
  <2>4. Taken(c) = op /\ op # "$not"
    BY <2>1, <2>2, <2>3, TakenOnly DEF Orders, Affixes
  <2>5. BuildsField[c]
    BY <1>3, <2>3, <2>4, BuildsFieldDef
  <2>6. \A v \in FieldValue : AqlField[c][v] <=> AqlOperator(op, v, x)
    BY <1>3, <2>3, <2>4, AqlFieldDef
  <2>7. CASE op \in Affixes
    <3>1. HasRegexp(c)
      BY <2>1, <2>2, <2>7 DEF HasRegexp
    <3>2. RegexpOf(c) = op
      <4>1. \E o \in Affixes : /\ o \in DOMAIN c.of /\ ~Falsy(c.of[o])
                               /\ o = "$endswith" => "$startswith" \notin DOMAIN c.of \/ Falsy(c.of["$startswith"])
        BY <2>1, <2>2, <2>7
      <4>2. RegexpOf(c) \in DOMAIN c.of
        BY <4>1, Zenon DEF RegexpOf
      <4> QED BY <4>2, <2>1
    <3>3. ASSUME NEW v \in FieldValue, v \in ValuesOf(key)
          PROVE  AqlOperator(op, v, x) <=> NedbField(c, v)
      <4>1. NedbField(c, v) <=> v.type = "string" /\ <<v.n, x.value.n>> \in AffixAnyCase[op]
        BY <1>3, <3>1, <3>2 DEF NedbField
      <4>2. AqlOperator(op, v, x) <=> v.type = "string" /\ <<v.n, x.value.n>> \in Affix[op]
        BY <2>7 DEF AqlOperator, Comparisons, Affixes
      <4>3. Affix[op] \subseteq AffixAnyCase[op]
        BY <2>7, FiltersAssumption
      <4> QED BY <4>1, <4>2, <4>3, <2>2, <2>7, <3>3
    <3> QED BY <1>1, <2>5, <2>6, <3>1, <3>3 DEF NedbKnows
  <2>8. CASE op \in Orders \cup {"$ne", "$in", "$nin"}
    <3>1. ~HasRegexp(c)
      BY <2>1, <2>8 DEF HasRegexp, Orders, Affixes
    <3>2. NedbKnows(c)
      BY <2>1, <2>8 DEF NedbKnows, NedbOperators, Orders
    <3>3. \A v : NedbField(c, v) <=> NedbCompares(op, v, x)
      BY <1>3, <2>1, <3>1 DEF NedbField
    <3>4. ASSUME NEW v \in FieldValue, v \in ValuesOf(key)
          PROVE  AqlOperator(op, v, x) <=> NedbCompares(op, v, x)
      <4>1. CASE op \in Orders
        BY <4>1, <2>2, <3>4, BelowSame, FieldTypes
           DEF Orders, AqlOperator, Comparisons, AqlCompares, Compares, NedbCompares
      <4>2. CASE op \in {"$ne", "$in", "$nin"}
        BY <4>2, <2>2 DEF AqlOperator, Comparisons, AqlCompares, Compares, NedbCompares
      <4> QED BY <4>1, <4>2, <2>8
    <3> QED BY <1>1, <2>5, <2>6, <3>2, <3>3, <3>4
  <2> QED BY <2>2, <2>7, <2>8
<1> QED BY <1>2, <1>3

\* What is built of a condition selects what the condition means, when it has
\* one operator and its operands are of the types it takes them for.
LEMMA SingleMeant ==
  \A c \in Condition : \A v \in FieldValue :
    BuildsField[c] /\ Plain(c, v) /\ Single(c) => (AqlField[c][v] <=> MeantField[c][v])
<1> DEFINE Right(c) == \A v \in FieldValue :
             BuildsField[c] /\ Plain(c, v) /\ Single(c) => (AqlField[c][v] <=> MeantField[c][v])
           T == {c \in Condition : Right(c)}
<1>1. ASSUME NEW c \in Condition,
             \A y \in Condition : ConditionDepth[y] < ConditionDepth[c] => y \in T
      PROVE  c \in T
  <2>1. SUFFICES ASSUME NEW v \in FieldValue, BuildsField[c], Plain(c, v), Single(c), c.is # "value"
                 PROVE  AqlField[c][v] <=> MeantField[c][v]
    <3>1. c.is = "value" => \A v \in FieldValue : AqlField[c][v] <=> MeantField[c][v]
      BY AqlFieldDef, MeantFieldDef
    <3> QED BY <3>1
  <2>2. Candidates(c) # {} /\ (Taken(c) = "$not" => BuildsField[c.of["$not"]])
    BY <2>1, BuildsFieldDef
  <2>3. c \in Nested[c] /\ (Negates(c) => Nested[c.of["$not"]] \subseteq Nested[c])
    BY NestedDef
  <2>4. PICK op \in DOMAIN c.of : DOMAIN c.of = {op}
    BY <2>1, <2>3 DEF Single, OneOperator
  <2>5. Taken(c) = op
    BY <2>2, <2>4, TakenOnly
  <2>6. CASE op = "$not"
    <3> DEFINE y == c.of["$not"]
    <3>1. Negates(c)
      BY <2>1, <2>4, <2>6 DEF Negates
    <3>2. y \in Condition /\ y \in T
      BY <1>1, <3>1, NegatesLess
    <3>3. BuildsField[y] /\ Plain(y, v) /\ Single(y)
      BY <2>1, <2>2, <2>3, <2>5, <2>6, <3>1 DEF Plain, Single
    <3>4. AqlField[y][v] <=> MeantField[y][v]
      BY <3>2, <3>3
    <3>5. AqlField[c][v] <=> ~AqlField[y][v]
      BY <2>1, <2>2, <2>5, <2>6, AqlFieldDef
    <3>6. MeantField[c][v] <=> ~MeantField[y][v]
      BY <2>1, <2>4, <2>6, MeantFieldDef
    <3> QED BY <3>4, <3>5, <3>6
  <2>7. CASE op # "$not"
    <3>1. AqlField[c][v] <=> AqlOperator(op, v, c.of[op])
      BY <2>1, <2>2, <2>5, <2>7, AqlFieldDef
    <3>2. MeantField[c][v] <=> MeantOperator(op, v, c.of[op])
      BY <2>1, <2>4, <2>7, MeantFieldDef
    <3>3. op \in Comparisons \cup {"$inAttr", "$in", "$nin"} \cup Affixes
      BY <2>2, <2>5, <2>7, TakenIsCandidate DEF OperatorOrder, Comparisons, Affixes
    <3>4. /\ op \in {"$in", "$nin"} => Stringified(c.of[op].list) = c.of[op].list
          /\ op \in Orders => v.type = c.of[op].value.type
      BY <2>1, <2>3 DEF Plain, Orders
    <3> QED BY <3>1, <3>2, <3>3, <3>4, OperatorMeant, Zenon
  <2> QED BY <2>6, <2>7
<1>2. Condition \subseteq T
  <2>1. \A c \in Condition : ConditionDepth[c] \in Nat
    BY FiltersAssumption
  <2> HIDE DEF T
  <2> QED BY <1>1, <2>1, InductionOn, Zenon
<1> QED BY <1>2

\* With more operators, but without $not, it selects at least what it means.
LEMMA AtLeastMeant ==
  ASSUME NEW c \in Condition, NEW v \in FieldValue, BuildsField[c], Plain(c, v), ~Negates(c),
         MeantField[c][v]
  PROVE  AqlField[c][v]
<1>1. CASE c.is = "value"
  BY <1>1, AqlFieldDef, MeantFieldDef
<1>2. CASE c.is # "value"
  <2> DEFINE op == Taken(c)
  <2>1. Candidates(c) # {}
    BY <1>2, BuildsFieldDef
  <2>2. op \in DOMAIN c.of /\ op # "$not"
    BY <1>2, <2>1, TakenIsCandidate DEF Negates
  <2>3. AqlField[c][v] <=> AqlOperator(op, v, c.of[op])
    BY <1>2, <2>1, <2>2, AqlFieldDef
  <2>4. MeantOperator(op, v, c.of[op])
    BY <1>2, <2>2, MeantFieldDef
  <2>5. op \in Comparisons \cup {"$inAttr", "$in", "$nin"} \cup Affixes
    BY <2>1, <2>2, TakenIsCandidate DEF OperatorOrder, Comparisons, Affixes
  <2>6. /\ op \in {"$in", "$nin"} => Stringified(c.of[op].list) = c.of[op].list
        /\ op \in Orders => v.type = c.of[op].value.type
    BY <1>2, <2>2, NestedDef DEF Plain, Orders
  <2> HIDE DEF op
  <2> QED BY <2>3, <2>4, <2>5, <2>6, OperatorMeant, Zenon
<1> QED BY <1>1, <1>2

-----------------------------------------------------------------------------
(* Filters.                                                                *)

\* The entries of a filter are those of its parts and its own.
LEMMA EntriesOfParts ==
  ASSUME NEW filter \in Filter, NEW i \in DOMAIN filter
  PROVE  /\ ~Joined(filter[i].key) => filter[i] \in FieldEntries[filter]
         /\ Joined(filter[i].key) => \A j \in DOMAIN filter[i].parts :
              /\ filter[i].parts[j] \in Filter
              /\ FilterDepth[filter[i].parts[j]] < FilterDepth[filter]
              /\ FieldEntries[filter[i].parts[j]] \subseteq FieldEntries[filter]
<1>1. FieldEntries[filter] = EntriesOf(FieldEntries, filter)
  BY FieldEntriesDef
<1> QED BY <1>1, FiltersNested DEF EntriesOf

\* The entries for fields have conditions.
LEMMA EntriesHaveConditions ==
  \A filter \in Filter : \A e \in FieldEntries[filter] : e.key \in Field => e.cond \in Condition
<1> DEFINE T == {filter \in Filter :
             \A e \in FieldEntries[filter] : e.key \in Field => e.cond \in Condition}
<1>1. ASSUME NEW filter \in Filter,
             \A y \in Filter : FilterDepth[y] < FilterDepth[filter] => y \in T
      PROVE  filter \in T
  <2>1. SUFFICES ASSUME NEW e \in FieldEntries[filter], e.key \in Field PROVE e.cond \in Condition
    OBVIOUS
  <2>2. PICK i \in DOMAIN filter :
          IF Joined(filter[i].key)
          THEN \E j \in DOMAIN filter[i].parts : e \in FieldEntries[filter[i].parts[j]]
          ELSE e = filter[i]
    <3>1. e \in EntriesOf(FieldEntries, filter)
      BY FieldEntriesDef
    <3> QED BY <3>1 DEF EntriesOf
  <2> QED BY <1>1, <2>1, <2>2, EntriesOfParts, FiltersNested
<1>2. Filter \subseteq T
  <2>1. \A filter \in Filter : FilterDepth[filter] \in Nat
    BY FiltersNested
  <2> HIDE DEF T
  <2> QED BY <1>1, <2>1, InductionOn, Zenon
<1> QED BY <1>2

\* What $or and $and say follows from what their parts say.
LEMMA JoinsSame ==
  ASSUME NEW e, NEW holds, NEW says, NEW d,
         \A j \in DOMAIN e.parts : holds[e.parts[j]][d] <=> says[e.parts[j]][d]
  PROVE  Joins(e, holds, d) <=> Joins(e, says, d)
BY DEF Joins

\* The same in one direction.
LEMMA JoinsAtLeast ==
  ASSUME NEW e, NEW holds, NEW says, NEW d,
         \A j \in DOMAIN e.parts : says[e.parts[j]][d] => holds[e.parts[j]][d]
  PROVE  Joins(e, says, d) => Joins(e, holds, d)
BY DEF Joins

\* What a common filter selects is the same for both providers, and neither
\* fails.
LEMMA CommonFilterAgrees ==
  ASSUME Docs(arango) \subseteq Doc
  PROVE  \A filter \in Filter : CommonFilter(filter) =>
           \A d \in Docs(arango) : /\ AqlHolds[filter][d] <=> NedbHolds[filter][d]
                                   /\ ~NedbThrows[filter][d]
<1> DEFINE T == {filter \in Filter : CommonFilter(filter) =>
             \A d \in Docs(arango) : /\ AqlHolds[filter][d] <=> NedbHolds[filter][d]
                                     /\ ~NedbThrows[filter][d]}
<1>1. ASSUME NEW filter \in Filter,
             \A y \in Filter : FilterDepth[y] < FilterDepth[filter] => y \in T
      PROVE  filter \in T
  <2>1. SUFFICES ASSUME CommonFilter(filter), NEW d \in Docs(arango)
                 PROVE  /\ AqlHolds[filter][d] <=> NedbHolds[filter][d]
                        /\ ~NedbThrows[filter][d]
    OBVIOUS
  <2>2. d \in Doc
    OBVIOUS
  <2>3. ASSUME NEW i \in DOMAIN filter, Joined(filter[i].key), NEW j \in DOMAIN filter[i].parts
        PROVE  LET part == filter[i].parts[j] IN
               (AqlHolds[part][d] <=> NedbHolds[part][d]) /\ ~NedbThrows[part][d]
    <3> DEFINE part == filter[i].parts[j]
    <3>1. part \in Filter /\ FilterDepth[part] < FilterDepth[filter]
          /\ FieldEntries[part] \subseteq FieldEntries[filter]
      BY <2>3, EntriesOfParts
    <3>2. CommonFilter(part)
      BY <2>1, <3>1 DEF CommonFilter
    <3> QED BY <1>1, <3>1, <3>2
  <2>4. ASSUME NEW i \in DOMAIN filter, ~Joined(filter[i].key)
        PROVE  LET e == filter[i] IN
               /\ e.key \in Field /\ NedbKnows(e.cond)
               /\ AqlField[e.cond][d[e.key]] <=> NedbField(e.cond, d[e.key])
    <3>1. filter[i] \in FieldEntries[filter]
      BY <2>4, EntriesOfParts
    <3>2. filter[i].key \in Field /\ CommonCondition(filter[i].key, filter[i].cond)
      BY <2>1, <3>1 DEF CommonFilter
    <3>3. filter[i].cond \in Condition
      BY <3>1, <3>2, EntriesHaveConditions
    <3> QED BY <3>2, <3>3, CommonConditionAgrees
  <2>5. AqlHolds[filter][d] <=> NedbHolds[filter][d]
    <3>1. ASSUME NEW i \in DOMAIN filter
          PROVE  (IF Joined(filter[i].key) THEN Joins(filter[i], AqlHolds, d)
                  ELSE filter[i].key \in Field /\ AqlField[filter[i].cond][d[filter[i].key]])
                 <=> NedbEntry(filter[i], NedbHolds, d)
      <4>1. CASE Joined(filter[i].key)
        BY <2>3, <4>1, JoinsSame DEF NedbEntry
      <4>2. CASE ~Joined(filter[i].key)
        BY <2>4, <4>2 DEF NedbEntry
      <4> QED BY <4>1, <4>2
    <3> QED BY <2>2, <3>1, AqlHoldsDef, NedbHoldsDef
  <2>6. ~NedbThrows[filter][d]
    BY <2>2, <2>3, <2>4, NedbThrowsDef
  <2> QED BY <2>5, <2>6
<1>2. Filter \subseteq T
  <2>1. \A filter \in Filter : FilterDepth[filter] \in Nat
    BY FiltersNested
  <2> HIDE DEF T
  <2> QED BY <1>1, <2>1, InductionOn, Zenon
<1> QED BY <1>2

\* A common filter is built.
LEMMA CommonFilterBuilds ==
  ASSUME Docs(arango) \subseteq Doc, NEW filter \in Filter, CommonFilter(filter)
  PROVE  Builds(filter)
<1> SUFFICES ASSUME NEW e \in FieldEntries[filter] PROVE e.key \in Field /\ BuildsField[e.cond]
  BY DEF Builds
<1>1. e.key \in Field /\ CommonCondition(e.key, e.cond)
  BY DEF CommonFilter
<1> QED BY <1>1, EntriesHaveConditions, CommonConditionAgrees

\* A filter selects what it means when its conditions do.
LEMMA SelectsWhatItMeans ==
  ASSUME NEW d \in Doc
  PROVE  \A filter \in Filter :
           Builds(filter) /\ (\A e \in FieldEntries[filter] : Plain(e.cond, d[e.key])) =>
           /\ (\A e \in FieldEntries[filter] : Single(e.cond))
              => (AqlHolds[filter][d] <=> Meant[filter][d])
           /\ (\A e \in FieldEntries[filter] : ~Negates(e.cond))
              => (Meant[filter][d] => AqlHolds[filter][d])
<1> DEFINE All(filter) == Builds(filter) /\ \A e \in FieldEntries[filter] : Plain(e.cond, d[e.key])
           Singles(filter) == \A e \in FieldEntries[filter] : Single(e.cond)
           Positive(filter) == \A e \in FieldEntries[filter] : ~Negates(e.cond)
           T == {filter \in Filter : All(filter) =>
             /\ Singles(filter) => (AqlHolds[filter][d] <=> Meant[filter][d])
             /\ Positive(filter) => (Meant[filter][d] => AqlHolds[filter][d])}
<1>1. ASSUME NEW filter \in Filter,
             \A y \in Filter : FilterDepth[y] < FilterDepth[filter] => y \in T
      PROVE  filter \in T
  <2>1. SUFFICES ASSUME All(filter)
                 PROVE  /\ Singles(filter) => (AqlHolds[filter][d] <=> Meant[filter][d])
                        /\ Positive(filter) => (Meant[filter][d] => AqlHolds[filter][d])
    OBVIOUS
  <2>2. ASSUME NEW i \in DOMAIN filter, Joined(filter[i].key), NEW j \in DOMAIN filter[i].parts
        PROVE  LET part == filter[i].parts[j] IN
               /\ Singles(filter) => (AqlHolds[part][d] <=> Meant[part][d])
               /\ Positive(filter) => (Meant[part][d] => AqlHolds[part][d])
    <3> DEFINE part == filter[i].parts[j]
    <3>1. part \in Filter /\ FilterDepth[part] < FilterDepth[filter]
          /\ FieldEntries[part] \subseteq FieldEntries[filter]
      BY <2>2, EntriesOfParts
    <3>2. All(part) /\ (Singles(filter) => Singles(part)) /\ (Positive(filter) => Positive(part))
      BY <2>1, <3>1 DEF Builds
    <3>3. part \in T
      BY <1>1, <3>1
    <3> QED BY <3>2, <3>3
  <2>3. ASSUME NEW i \in DOMAIN filter, ~Joined(filter[i].key)
        PROVE  LET e == filter[i] IN
               /\ e.key \in Field
               /\ Singles(filter) => (AqlField[e.cond][d[e.key]] <=> MeantField[e.cond][d[e.key]])
               /\ Positive(filter) => (MeantField[e.cond][d[e.key]] => AqlField[e.cond][d[e.key]])
    <3> DEFINE e == filter[i]
    <3>1. e \in FieldEntries[filter]
      BY <2>3, EntriesOfParts
    <3>2. e.key \in Field /\ BuildsField[e.cond] /\ Plain(e.cond, d[e.key])
      BY <2>1, <3>1 DEF Builds
    <3>3. e.cond \in Condition /\ d[e.key] \in FieldValue
      BY <3>1, <3>2, EntriesHaveConditions DEF Doc, Field, FieldValue
    <3>4. Singles(filter) => (AqlField[e.cond][d[e.key]] <=> MeantField[e.cond][d[e.key]])
      BY <3>1, <3>2, <3>3, SingleMeant
    <3>5. Positive(filter) => (MeantField[e.cond][d[e.key]] => AqlField[e.cond][d[e.key]])
      BY <3>1, <3>2, <3>3, AtLeastMeant
    <3> QED BY <3>2, <3>4, <3>5
  <2> DEFINE Aql(i) == IF Joined(filter[i].key) THEN Joins(filter[i], AqlHolds, d)
                       ELSE filter[i].key \in Field /\ AqlField[filter[i].cond][d[filter[i].key]]
             Means(i) == IF Joined(filter[i].key) THEN Joins(filter[i], Meant, d)
                         ELSE filter[i].key \in Field /\ MeantField[filter[i].cond][d[filter[i].key]]
  <2>4. ASSUME NEW i \in DOMAIN filter
        PROVE  /\ Singles(filter) => (Aql(i) <=> Means(i))
               /\ Positive(filter) => (Means(i) => Aql(i))
    <3> HIDE DEF Singles, Positive
    <3>1. CASE Joined(filter[i].key)
      BY <2>2, <3>1, JoinsSame, JoinsAtLeast
    <3>2. CASE ~Joined(filter[i].key)
      BY <2>3, <3>2
    <3> QED BY <3>1, <3>2
  <2>5. AqlHolds[filter][d] <=> \A i \in DOMAIN filter : Aql(i)
    BY AqlHoldsDef
  <2>6. Meant[filter][d] <=> \A i \in DOMAIN filter : Means(i)
    BY MeantDef
  <2> HIDE DEF Aql, Means, Singles, Positive
  <2> QED BY <2>4, <2>5, <2>6
<1>2. Filter \subseteq T
  <2>1. \A filter \in Filter : FilterDepth[filter] \in Nat
    BY FiltersNested
  <2> HIDE DEF T
  <2> QED BY <1>1, <2>1, InductionOn, Zenon
<1> QED BY <1>2

-----------------------------------------------------------------------------
(* The two stores.                                                         *)

Keyed(store, K) == /\ store \subseteq [key : K, doc : Doc]
                   /\ \A s, t \in store : s.key = t.key => s = t
                   /\ IsFiniteSet(store)
ArangoKeys == {Key[i] : i \in Id}
NedbKeys == Id \cup {Generated(n) : n \in 1..made}

StoresInv == /\ Keyed(arango, ArangoKeys)
             /\ Keyed(nedb, NedbKeys)
             /\ made \in 0..MaxMade

\* Stores are of their types.
LEMMA StoresType == StoresInv => DocumentsTypeOK
BY DEF StoresInv, Keyed, DocumentsTypeOK, ArangoKeys, NedbKeys

\* Less of a store is a store, and so is a store with another key.
LEMMA KeyedLess ==
  ASSUME NEW K, NEW store, Keyed(store, K), NEW part, part \subseteq store
  PROVE  Keyed(part, K)
BY FS_Subset DEF Keyed

\* (With another key.)
LEMMA KeyedWith ==
  ASSUME NEW K, NEW store, Keyed(store, K), NEW k \in K, NEW d \in Doc,
         \A s \in store : s.key # k
  PROVE  Keyed(store \cup {Stored(k, d)}, K)
<1>1. Stored(k, d) \in [key : K, doc : Doc] /\ Stored(k, d).key = k
  BY DEF Stored
<1>2. IsFiniteSet(store \cup {Stored(k, d)})
  BY FS_AddElement, Zenon DEF Keyed
<1> QED BY <1>1, <1>2 DEF Keyed

\* (Among more keys.)
LEMMA KeyedIn ==
  ASSUME NEW K, NEW L, K \subseteq L, NEW store, Keyed(store, K)
  PROVE  Keyed(store, L)
BY DEF Keyed

Patches == Patch \cup Doc

\* A patched document is a document.
LEMMA PatchedDoc ==
  ASSUME NEW d \in Doc, NEW patch \in Patches
  PROVE  Patched(d, patch) \in Doc
BY DEF Doc, Patches, Patch, Patched

\* A patch leaves the keys.
LEMMA ChangedMembers ==
  ASSUME NEW K, NEW store, Keyed(store, K), NEW selected, selected \subseteq store,
         NEW patch \in Patches, NEW t \in Changed(store, selected, patch)
  PROVE  /\ t \in [key : K, doc : Doc]
         /\ \E s \in store :
              /\ t.key = s.key
              /\ IF s \in selected THEN t = [s EXCEPT !.doc = Patched(s.doc, patch)] ELSE t = s
              /\ t.doc = IF s \in selected THEN Patched(s.doc, patch) ELSE s.doc
<1>1. CASE t \in store \ selected
  BY <1>1 DEF Keyed
<1>2. CASE t \notin store \ selected
  <2>1. PICK s \in selected : t = [s EXCEPT !.doc = Patched(s.doc, patch)]
    BY <1>2 DEF Changed
  <2>2. s \in store /\ s \in [key : K, doc : Doc]
    BY DEF Keyed
  <2>3. Patched(s.doc, patch) \in Doc
    BY <2>2, PatchedDoc
  <2>4. t = [key |-> s.key, doc |-> Patched(s.doc, patch)]
    BY <2>1, <2>2
  <2> QED BY <2>1, <2>2, <2>3, <2>4
<1> QED BY <1>1, <1>2

\* A patch leaves a store.
LEMMA ChangedKeyed ==
  ASSUME NEW K, NEW store, Keyed(store, K), NEW selected, selected \subseteq store,
         NEW patch \in Patches
  PROVE  Keyed(Changed(store, selected, patch), K)
<1> DEFINE C == Changed(store, selected, patch)
           f == [s \in store |-> IF s \in selected THEN [s EXCEPT !.doc = Patched(s.doc, patch)] ELSE s]
<1>1. C \subseteq [key : K, doc : Doc]
  BY ChangedMembers
<1>2. ASSUME NEW t \in C, NEW u \in C, t.key = u.key PROVE t = u
  <2>1. PICK s \in store :
          /\ t.key = s.key
          /\ IF s \in selected THEN t = [s EXCEPT !.doc = Patched(s.doc, patch)] ELSE t = s
    BY ChangedMembers
  <2>2. PICK r \in store :
          /\ u.key = r.key
          /\ IF r \in selected THEN u = [r EXCEPT !.doc = Patched(r.doc, patch)] ELSE u = r
    BY ChangedMembers
  <2>3. s = r
    BY <1>2, <2>1, <2>2 DEF Keyed
  <2> QED BY <2>1, <2>2, <2>3
<1>3. IsFiniteSet(C)
  <2>1. f \in Surjection(store, C)
    BY DEF Surjection, Changed
  <2> QED BY <2>1, FS_Surjection, Zenon DEF Keyed, ExistsSurjection
<1> QED BY <1>1, <1>2, <1>3 DEF Keyed

\* A store whose documents differ has as many of them as it has members.
Differing(store) == \A s, t \in store : s.doc = t.doc => s = t

\* (It is a bijection that takes the documents out.)
LEMMA CountsDocs ==
  ASSUME NEW store, IsFiniteSet(store), Differing(store)
  PROVE  Cardinality(Docs(store)) = Cardinality(store)
<1> DEFINE f == [s \in store |-> s.doc]
<1>1. f \in Bijection(store, Docs(store))
  BY DEF Bijection, Injection, Surjection, IsInjective, Differing, Docs
<1> QED BY <1>1, FS_Bijection, Zenon DEF ExistsBijection

\* Two such stores with the same documents have the same number of them.
LEMMA SameCount ==
  ASSUME NEW A, NEW B, IsFiniteSet(A), IsFiniteSet(B), Differing(A), Differing(B),
         Docs(A) = Docs(B)
  PROVE  Cardinality(A) = Cardinality(B)
BY CountsDocs

\* Two stores without a common key are one store.
LEMMA KeyedUnion ==
  ASSUME NEW K, NEW A, NEW B, Keyed(A, K), Keyed(B, K), \A s \in A, t \in B : s.key # t.key
  PROVE  Keyed(A \cup B, K)
<1>1. IsFiniteSet(A \cup B)
  BY FS_Union, Zenon DEF Keyed
<1> QED BY <1>1 DEF Keyed

\* The key and the document of what is stored.
LEMMA StoredHas == \A k, d : Stored(k, d).key = k /\ Stored(k, d).doc = d
BY DEF Stored

\* The keys and the documents of the members of a list.
LEMMA ListMembers ==
  ASSUME NEW docs, NEW keys
  PROVE  LET new == {Stored(keys[k], docs[k]) : k \in DOMAIN docs} IN
         /\ {s.key : s \in new} = {keys[k] : k \in DOMAIN docs}
         /\ Docs(new) = {docs[k] : k \in DOMAIN docs}
<1> DEFINE new == {Stored(keys[k], docs[k]) : k \in DOMAIN docs}
<1>1. \A s \in new : \E k \in DOMAIN docs : s.key = keys[k] /\ s.doc = docs[k]
  BY StoredHas
<1>2. ASSUME NEW k \in DOMAIN docs
      PROVE  \E s \in new : s.key = keys[k] /\ s.doc = docs[k]
  <2>1. Stored(keys[k], docs[k]) \in new
    OBVIOUS
  <2> HIDE DEF new
  <2> QED BY <2>1, StoredHas
<1> HIDE DEF new
<1>3. {s.key : s \in new} = {keys[k] : k \in DOMAIN docs}
  BY <1>1, <1>2
<1>4. Docs(new) = {docs[k] : k \in DOMAIN docs}
  BY <1>1, <1>2 DEF Docs
<1> QED BY <1>3, <1>4 DEF new

\* The members of a list are a store when their keys differ.
LEMMA ListKeyed ==
  ASSUME NEW K, NEW docs \in Seq(Doc), NEW keys \in [DOMAIN docs -> K], IsInjective(keys)
  PROVE  Keyed({Stored(keys[k], docs[k]) : k \in DOMAIN docs}, K)
<1> DEFINE new == {Stored(keys[k], docs[k]) : k \in DOMAIN docs}
           f == [k \in DOMAIN docs |-> Stored(keys[k], docs[k])]
<1>1. IsFiniteSet(DOMAIN docs)
  <2>1. DOMAIN docs = 1..Len(docs) /\ Len(docs) \in Nat
    OBVIOUS
  <2> QED BY <2>1, FS_Interval
<1>2. f \in Surjection(DOMAIN docs, new)
  BY DEF Surjection
<1>3. IsFiniteSet(new)
  <2> HIDE DEF f, new
  <2> QED BY <1>1, <1>2, FS_Surjection, Zenon
<1>4. new \subseteq [key : K, doc : Doc]
  BY DEF Stored
<1>5. \A s, t \in new : s.key = t.key => s = t
  BY DEF Stored, IsInjective
<1> QED BY <1>3, <1>4, <1>5 DEF Keyed

\* AQL inserts a list when it does not refuse it: the keys of its members
\* differ then.
LEMMA InsertsUnlessRefused ==
  ASSUME NEW docs, ArangoInsert(docs)
  PROVE  ~ArangoRefuses(docs)
<1> DEFINE new == {Stored(KeyOf(docs[k].id), docs[k]) : k \in DOMAIN docs}
<1>1. \A s \in new : \E k \in DOMAIN docs : s.key = KeyOf(docs[k].id)
  BY StoredHas
<1>2. ASSUME NEW k \in DOMAIN docs PROVE \E s \in new : s.key = KeyOf(docs[k].id)
  <2>1. Stored(KeyOf(docs[k].id), docs[k]) \in new
    OBVIOUS
  <2> HIDE DEF new
  <2> QED BY <2>1, StoredHas
<1>3. /\ Cardinality({s.key : s \in new}) = Len(docs)
      /\ \A s \in new, t \in arango : s.key # t.key
  BY DEF ArangoInsert
<1> HIDE DEF new
<1>4. {s.key : s \in new} = {KeyOf(docs[k].id) : k \in DOMAIN docs}
  BY <1>1, <1>2
<1> QED BY <1>2, <1>3, <1>4 DEF ArangoRefuses

\* There are n numbers from 1 to n.
LEMMA UpTo == \A n \in Nat : IsFiniteSet(1..n) /\ Cardinality(1..n) = n
<1> TAKE n \in Nat
<1>1. 1 \in Int /\ n \in Int
  OBVIOUS
<1>2. IsFiniteSet(1..n) /\ Cardinality(1..n) = IF 1 > n THEN 0 ELSE n - 1 + 1
  BY <1>1, FS_Interval, Zenon
<1> QED BY <1>2

\* The keys of a list that is not refused differ: as many as it has members.
LEMMA KeysDiffer ==
  ASSUME NEW docs \in Seq(Doc), ~ArangoRefuses(docs)
  PROVE  IsInjective([k \in DOMAIN docs |-> KeyOf(docs[k].id)])
<1> DEFINE keys == [k \in DOMAIN docs |-> KeyOf(docs[k].id)]
           T == {KeyOf(docs[k].id) : k \in DOMAIN docs}
<1>1. IsFiniteSet(DOMAIN docs) /\ Cardinality(DOMAIN docs) = Len(docs)
  <2>1. DOMAIN docs = 1..Len(docs) /\ Len(docs) \in Nat
    OBVIOUS
  <2>2. /\ IsFiniteSet(1..Len(docs))
        /\ Cardinality(1..Len(docs)) = Len(docs)
    BY <2>1, UpTo
  <2> QED BY <2>1, <2>2
<1>2. keys \in Surjection(DOMAIN docs, T)
  BY DEF Surjection
<1>3. Cardinality(T) = Len(docs)
  BY DEF ArangoRefuses
<1>4. keys \in Injection(DOMAIN docs, T)
  <2> HIDE DEF keys, T
  <2>1. Cardinality(T) = Cardinality(DOMAIN docs)
    BY <1>1, <1>3
  <2> QED BY <1>1, <1>2, <2>1, FS_Surjection, Zenon
<1> QED BY <1>4 DEF Injection

\* What AQL inserts in a store makes a store.
LEMMA ArangoInsertKeyed ==
  ASSUME NEW docs \in Seq(Doc), Keyed(arango, ArangoKeys), ArangoInsert(docs)
  PROVE  /\ Keyed(arango', ArangoKeys)
         /\ Docs(arango') = Docs(arango) \cup {docs[k] : k \in DOMAIN docs}
<1> DEFINE keys == [k \in DOMAIN docs |-> KeyOf(docs[k].id)]
           new == {Stored(keys[k], docs[k]) : k \in DOMAIN docs}
<1>1. new = {Stored(KeyOf(docs[k].id), docs[k]) : k \in DOMAIN docs}
  OBVIOUS
<1>2. \A k \in DOMAIN docs : docs[k] \in Doc
  OBVIOUS
<1>3. keys \in [DOMAIN docs -> ArangoKeys]
  BY <1>2 DEF KeyOf, ArangoKeys, Doc
<1>4. IsInjective(keys)
  BY InsertsUnlessRefused, KeysDiffer
<1>5. Keyed(new, ArangoKeys)
  <2> HIDE DEF keys
  <2> QED BY <1>3, <1>4, ListKeyed
<1>6. arango' = arango \cup new /\ \A s \in arango, t \in new : s.key # t.key
  BY <1>1 DEF ArangoInsert
<1>7. Docs(new) = {docs[k] : k \in DOMAIN docs}
  <2> HIDE DEF keys
  <2> QED BY ListMembers
<1>8. Docs(arango \cup new) = Docs(arango) \cup Docs(new)
  BY DEF Docs
<1> HIDE DEF new
<1> QED BY <1>5, <1>6, <1>7, <1>8, KeyedUnion

-----------------------------------------------------------------------------
(* Every operation leaves two stores.                                      *)

\* Insert leaves two stores: a key that is taken is refused.
LEMMA InsertStores ==
  ASSUME StoresInv, NEW d \in Doc, Insert(d)
  PROVE  StoresInv'
<1>1. Keyed(arango', ArangoKeys)
  <2>1. CASE UNCHANGED arango
    BY <2>1 DEF StoresInv
  <2>2. CASE ArangoInsert(<<d>>)
    <3>1. <<d>> \in Seq(Doc)
      OBVIOUS
    <3> QED BY <2>2, <3>1, ArangoInsertKeyed, Zenon DEF StoresInv
  <2> QED BY <2>1, <2>2 DEF Insert
<1>2. Keyed(nedb', NedbKeys)
  <2>1. CASE \E s \in nedb : s.key = d.id
    BY <2>1 DEF Insert, StoresInv
  <2>2. CASE \A s \in nedb : s.key # d.id
    <3>1. nedb' = nedb \cup {Stored(d.id, d)} /\ d.id \in NedbKeys
      BY <2>2 DEF Insert, NedbKeys, Doc
    <3> QED BY <2>2, <3>1, KeyedWith DEF StoresInv
  <2> QED BY <2>1, <2>2
<1>3. made' = made /\ made \in 0..MaxMade
  BY DEF Insert, StoresInv
<1> QED BY <1>1, <1>2, <1>3 DEF StoresInv, NedbKeys, ArangoKeys

\* The ids NeDB generates for a list are new, and each is generated once.
LEMMA ListGenerated ==
  ASSUME NEW docs \in Seq(Doc), Keyed(nedb, NedbKeys), made \in Nat,
         made' = made + Len(docs),
         nedb' = nedb \cup {Stored(Generated(made + k), docs[k]) : k \in DOMAIN docs}
  PROVE  /\ Keyed(nedb', NedbKeys')
         /\ Docs(nedb') = Docs(nedb) \cup {docs[k] : k \in DOMAIN docs}
<1> DEFINE keys == [k \in DOMAIN docs |-> Generated(made + k)]
           new == {Stored(keys[k], docs[k]) : k \in DOMAIN docs}
           L == Id \cup {Generated(n) : n \in 1..(made + Len(docs))}
<1>1. DOMAIN docs = 1..Len(docs) /\ Len(docs) \in Nat
  OBVIOUS
<1>2. \A k \in DOMAIN docs : made + k \in 1..(made + Len(docs)) /\ made + k \notin 1..made
  BY <1>1
<1>3. keys \in [DOMAIN docs -> L]
  BY <1>2
<1>4. IsInjective(keys)
  BY <1>1 DEF IsInjective, Generated
<1>5. Keyed(new, L)
  <2> HIDE DEF keys, L
  <2> QED BY <1>3, <1>4, ListKeyed
<1>6. Keyed(nedb, L)
  <2>1. 1..made \subseteq 1..(made + Len(docs))
    BY <1>1
  <2>2. NedbKeys \subseteq L
    BY <2>1 DEF NedbKeys
  <2> QED BY <2>2, KeyedIn
<1>7. ASSUME NEW s \in nedb, NEW t \in new PROVE s.key # t.key
  <2>1. PICK k \in DOMAIN docs : t.key = Generated(made + k)
    BY DEF Stored
  <2>2. s.key \in NedbKeys
    BY DEF Keyed
  <2>3. Generated(made + k) \notin Id
    BY FiltersAssumption DEF Generated
  <2>4. \A n \in 1..made : Generated(n) # Generated(made + k)
    BY <1>2 DEF Generated
  <2> QED BY <2>1, <2>2, <2>3, <2>4 DEF NedbKeys
<1>8. nedb' = nedb \cup new
  <2>1. new = {Stored(Generated(made + k), docs[k]) : k \in DOMAIN docs}
    OBVIOUS
  <2> QED BY <2>1
<1>9. Docs(nedb \cup new) = Docs(nedb) \cup {docs[k] : k \in DOMAIN docs}
  <2>1. Docs(new) = {docs[k] : k \in DOMAIN docs}
    <3> HIDE DEF keys
    <3> QED BY ListMembers
  <2>2. Docs(nedb \cup new) = Docs(nedb) \cup Docs(new)
    BY DEF Docs
  <2> QED BY <2>1, <2>2
<1>10. NedbKeys' = L
  BY DEF NedbKeys
<1> HIDE DEF new, L
<1>11. Keyed(nedb \cup new, L)
  BY <1>5, <1>6, <1>7, KeyedUnion, Zenon
<1> QED BY <1>8, <1>9, <1>10, <1>11, Zenon

\* InsertList leaves two stores.
LEMMA InsertListStores ==
  ASSUME StoresInv, NEW d \in Doc, NEW e \in Doc, InsertList(<<d, e>>)
  PROVE  StoresInv'
<1> DEFINE docs == <<d, e>>
<1>1. docs \in Seq(Doc) /\ Len(docs) = 2
  OBVIOUS
<1>2. /\ docs \in Seq(Doc) /\ made + Len(docs) <= MaxMade /\ made' = made + Len(docs)
      /\ nedb' = nedb \cup {Stored(Generated(made + k), docs[k]) : k \in DOMAIN docs}
      /\ UNCHANGED arango \/ ArangoInsert(docs)
  BY DEF InsertList
<1> HIDE DEF docs
<1>3. Keyed(arango', ArangoKeys)
  BY <1>1, <1>2, ArangoInsertKeyed DEF StoresInv
<1>4. made \in Nat /\ made' \in 0..MaxMade
  BY <1>1, <1>2, DocumentsAssumption DEF StoresInv
<1>5. Keyed(nedb', NedbKeys')
  BY <1>2, <1>4, ListGenerated DEF StoresInv
<1> QED BY <1>3, <1>4, <1>5 DEF StoresInv, ArangoKeys

\* What is selected of a store is part of it.
LEMMA SelectedStored ==
  \A filter : ArangoSelected(filter) \subseteq arango /\ NedbSelected(filter) \subseteq nedb
BY DEF ArangoSelected, NedbSelected

\* Update leaves two stores, whatever it selects.
LEMMA UpdateStores ==
  ASSUME StoresInv, NEW filter \in Filter, NEW patch \in Patch, Update(filter, patch)
  PROVE  StoresInv'
<1>1. patch \in Patches
  BY DEF Patches
<1>2. /\ arango' = arango \/ arango' = Changed(arango, ArangoSelected(filter), patch)
      /\ nedb' = nedb \/ nedb' = Changed(nedb, NedbSelected(filter), patch)
      /\ made' = made
  BY DEF Update
<1>3. Keyed(arango', ArangoKeys)
  BY <1>1, <1>2, SelectedStored, ChangedKeyed DEF StoresInv
<1>4. Keyed(nedb', NedbKeys)
  BY <1>1, <1>2, SelectedStored, ChangedKeyed DEF StoresInv
<1> QED BY <1>2, <1>3, <1>4 DEF StoresInv, NedbKeys, ArangoKeys

\* Upsert leaves two: the key is new or the document that has it goes.
LEMMA UpsertStores ==
  ASSUME StoresInv, NEW d \in Doc, Upsert(d)
  PROVE  StoresInv'
<1> DEFINE old == {s \in arango : s.key = KeyOf(d.id)}
           others == {s \in nedb : s.key # d.id}
<1>1. /\ arango' = IF old = {} THEN arango \cup {Stored(KeyOf(d.id), d)} ELSE Changed(arango, old, d)
      /\ nedb' = others \cup {Stored(d.id, d)}
      /\ made' = made
  BY DEF Upsert, ArangoUpserted, NedbUpserted
<1>2. KeyOf(d.id) \in ArangoKeys /\ d.id \in NedbKeys /\ d \in Patches
  BY DEF KeyOf, ArangoKeys, NedbKeys, Doc, Patches
<1>3. Keyed(arango', ArangoKeys)
  <2>1. CASE old = {}
    <3>1. \A s \in arango : s.key # KeyOf(d.id)
      BY <2>1
    <3> QED BY <1>1, <1>2, <2>1, <3>1, KeyedWith DEF StoresInv
  <2>2. CASE old # {}
    <3>1. old \subseteq arango
      OBVIOUS
    <3> HIDE DEF old
    <3> QED BY <1>1, <1>2, <2>2, <3>1, ChangedKeyed DEF StoresInv
  <2> QED BY <2>1, <2>2
<1>4. Keyed(nedb', NedbKeys)
  <2>1. Keyed(others, NedbKeys) /\ \A s \in others : s.key # d.id
    BY KeyedLess DEF StoresInv
  <2> HIDE DEF others
  <2> QED BY <1>1, <1>2, <2>1, KeyedWith
<1> QED BY <1>1, <1>3, <1>4 DEF StoresInv, NedbKeys, ArangoKeys

\* Delete leaves two stores, even when NeDB stops halfway.
LEMMA DeleteStores ==
  ASSUME StoresInv, NEW filter \in Filter, Delete(filter)
  PROVE  StoresInv'
<1>1. arango' \subseteq arango /\ nedb' \subseteq nedb /\ made' = made
  BY DEF Delete
<1> QED BY <1>1, KeyedLess DEF StoresInv, NedbKeys, ArangoKeys

\* Every step leaves two stores.
LEMMA StoresStep == StoresInv /\ [Next]_vars => StoresInv'
<1> SUFFICES ASSUME StoresInv, [Next]_vars PROVE StoresInv'
  OBVIOUS
<1>1. CASE \E d \in Doc : Insert(d) \/ Upsert(d)
  BY <1>1, InsertStores, UpsertStores
<1>2. CASE \E d, e \in Doc : InsertList(<<d, e>>)
  BY <1>2, InsertListStores
<1>3. CASE UNCHANGED <<arango, nedb, made>>
  BY <1>3 DEF StoresInv, NedbKeys, ArangoKeys
<1>4. CASE \E filter \in Filter : Delete(filter)
  BY <1>4, DeleteStores
<1>5. CASE \E filter \in Filter, patch \in Patch : Update(filter, patch)
  BY <1>5, UpdateStores
<1>6. CASE Truncate
  <2>1. arango' \subseteq arango /\ nedb' \subseteq nedb /\ made' = made
    BY <1>6 DEF Truncate
  <2> QED BY <2>1, KeyedLess DEF StoresInv, NedbKeys, ArangoKeys
<1>7. CASE UNCHANGED vars
  BY <1>7, <1>3 DEF vars
<1>8. CASE \E filter \in Filter, p \in Page : Find(filter, p)
  BY <1>8, <1>3 DEF Find
<1>9. CASE \E filter \in Filter : Count(filter)
  BY <1>9, <1>3 DEF Count
<1>10. CASE \E S \in SUBSET Id : FindByID(S)
  BY <1>10, <1>3 DEF FindByID
<1> QED BY <1>1, <1>2, <1>4, <1>5, <1>6, <1>7, <1>8, <1>9, <1>10 DEF Next

\* Nothing is stored at first.
LEMMA StoresInit == Init => StoresInv
<1> SUFFICES ASSUME Init PROVE StoresInv
  OBVIOUS
<1>1. IsFiniteSet({})
  BY FS_EmptySet
<1> QED BY <1>1, DocumentsAssumption DEF Init, StoresInv, Keyed

\* There are always two stores.
LEMMA StoresAlways == Spec => []StoresInv
BY StoresInit, StoresStep, PTL DEF Spec

\* The documents, keys and ids of both stores are of their types, and no key
\* is there twice.
THEOREM TypeTrue == Spec => []DocumentsTypeOK
BY StoresAlways, StoresType, PTL

\* What a filter of the ArangoDB provider selects is what it means: all of
\* its documents and no others when its conditions have one operator each, and
\* at least those otherwise, unless something is negated.
THEOREM SelectsMeantTrue == Spec => []SelectsMeant
<1>1. StoresInv => SelectsMeant
  <2>1. StoresInv => Docs(arango) \subseteq Doc
    BY DEF StoresInv, Keyed, Docs
  <2> QED BY <2>1, SelectsWhatItMeans DEF SelectsMeant
<1> QED BY <1>1, StoresAlways, PTL
-----------------------------------------------------------------------------
(* The stores hold the same documents.                                     *)

\* What holds of the stores for as long as only common uses were made of
\* them.  The keys, the ids and that an id is there once are what the next
\* operation needs to do the same to both.
Together ==
  /\ \A s \in arango : s.key = Key[s.doc.id]
  /\ \A s \in nedb : s.key \in Id => s.key = s.doc.id
  /\ \A s, t \in nedb : s.doc.id = t.doc.id => s = t
  /\ Docs(arango) = Docs(nedb)
  /\ last.arango = last.nedb

DocumentsInv == StoresInv /\ (used = {} => Together)

\* Both stores are finite and have each document, and each id, once.
LEMMA BothDiffer ==
  ASSUME StoresInv, Together
  PROVE  /\ Differing(arango) /\ IsFiniteSet(arango)
         /\ Differing(nedb) /\ IsFiniteSet(nedb)
         /\ \A s, t \in arango : s.doc.id = t.doc.id => s = t
BY DEF StoresInv, Keyed, Together, Differing

\* The invariant implies SameDocuments: the counts follow from the documents.
LEMMA SameDocumentsFollows == DocumentsInv => SameDocuments
<1> SUFFICES ASSUME DocumentsInv, used = {} PROVE /\ Docs(arango) = Docs(nedb)
                                                  /\ Cardinality(arango) = Cardinality(nedb)
                                                  /\ last.arango = last.nedb
  BY DEF SameDocuments
<1>1. StoresInv /\ Together
  BY DEF DocumentsInv
<1>2. Cardinality(arango) = Cardinality(nedb)
  <2>1. Docs(arango) = Docs(nedb)
    BY <1>1 DEF Together
  <2> QED BY <1>1, <2>1, BothDiffer, SameCount
<1> QED BY <1>1, <1>2 DEF Together

\* Parts of both stores that have the same documents have as many.
LEMMA SamePart ==
  ASSUME StoresInv, Together, NEW A, A \subseteq arango, NEW B, B \subseteq nedb,
         Docs(A) = Docs(B)
  PROVE  Cardinality(A) = Cardinality(B) /\ Cardinality(A) \in Nat
<1>1. Differing(A) /\ Differing(B)
  BY BothDiffer DEF Differing
<1>2. IsFiniteSet(A) /\ IsFiniteSet(B)
  BY BothDiffer, FS_Subset
<1>3. Cardinality(A) \in Nat
  BY <1>2, FS_CardinalityType
<1> QED BY <1>1, <1>2, <1>3, SameCount

\* A common filter selects the same from both.
LEMMA CommonSelects ==
  ASSUME StoresInv, Together, NEW filter \in Filter, FilterUses(filter) = {}
  PROVE  /\ Builds(filter) /\ ~NedbFails(filter)
         /\ \A d \in Docs(arango) : AqlHolds[filter][d] <=> NedbHolds[filter][d]
         /\ Docs(ArangoSelected(filter)) = Docs(NedbSelected(filter))
         /\ Cardinality(ArangoSelected(filter)) = Cardinality(NedbSelected(filter))
         /\ Cardinality(ArangoSelected(filter)) \in Nat
<1>1. Docs(arango) \subseteq Doc
  BY DEF StoresInv, Keyed, Docs
<1>2. CommonFilter(filter)
  BY DEF FilterUses
<1>3. Builds(filter)
  BY <1>1, <1>2, CommonFilterBuilds
<1>4. \A d \in Docs(arango) : (AqlHolds[filter][d] <=> NedbHolds[filter][d]) /\ ~NedbThrows[filter][d]
  BY <1>1, <1>2, CommonFilterAgrees
<1>5. Docs(arango) = Docs(nedb)
  BY DEF Together
<1>6. ~NedbFails(filter)
  BY <1>4, <1>5 DEF NedbFails, Docs
<1>7. Docs(ArangoSelected(filter)) = Docs(NedbSelected(filter))
  BY <1>4, <1>5 DEF ArangoSelected, NedbSelected, Docs
<1> QED BY <1>3, <1>4, <1>6, <1>7, SelectedStored, SamePart

\* Options with a limit, or without offset, leave as many to both.
LEMMA SamePage ==
  ASSUME NEW n \in Nat, NEW p, PageUses(p) = {}
  PROVE  Limited(n, p) = NedbLimited(n, p)
<1>1. Behind(n, 0) = n
  BY DEF Behind
<1>2. p.limit # 0 /\ ~(p.limit = None /\ p.offset \notin {None, 0})
  BY DEF PageUses, If
<1> QED BY <1>1, <1>2 DEF Limited, NedbLimited

-----------------------------------------------------------------------------
(* A common use does the same to both.                                     *)

\* The reading operations leave the stores; it is their answers that agree.
LEMMA AnswersTogether ==
  ASSUME Together, UNCHANGED <<arango, nedb, made>>, last'.arango = last'.nedb
  PROVE  Together'
BY DEF Together, Docs

\* find answers the same.
LEMMA FindTogether ==
  ASSUME StoresInv, Together, NEW filter \in Filter, NEW p, Find(filter, p), used' = {}
  PROVE  Together'
<1> DEFINE A == ArangoSelected(filter)
           B == NedbSelected(filter)
<1>1. FilterUses(filter) = {} /\ PageUses(p) = {}
  BY DEF Find, Goes
<1>2. /\ Builds(filter) /\ ~NedbFails(filter)
      /\ Docs(A) = Docs(B) /\ Cardinality(A) = Cardinality(B) /\ Cardinality(A) \in Nat
  BY <1>1, CommonSelects
<1>3. Limited(Cardinality(A), p) = NedbLimited(Cardinality(B), p)
  BY <1>1, <1>2, SamePage
<1>4. /\ last'.arango = Found(A, Limited(Cardinality(A), p), p)
      /\ last'.nedb = Found(B, NedbLimited(Cardinality(B), p), p)
  BY <1>2 DEF Find, Answers
<1>5. last'.arango = last'.nedb
  <2> HIDE DEF A, B
  <2> QED BY <1>2, <1>3, <1>4 DEF Found
<1> QED BY <1>5, AnswersTogether DEF Find

\* count answers the same.
LEMMA CountTogether ==
  ASSUME StoresInv, Together, NEW filter \in Filter, Count(filter), used' = {}
  PROVE  Together'
<1>1. FilterUses(filter) = {}
  BY DEF Count, Goes
<1>2. /\ Builds(filter) /\ ~NedbFails(filter)
      /\ Cardinality(ArangoSelected(filter)) = Cardinality(NedbSelected(filter))
  BY <1>1, CommonSelects
<1>3. last'.arango = last'.nedb
  BY <1>2 DEF Count, Answers
<1> QED BY <1>3, AnswersTogether DEF Count

\* ArangoDB finds by keys, NeDB by ids: of ids that collide with no other it
\* is the same.
LEMMA FindByIDTogether ==
  ASSUME StoresInv, Together, NEW S, S \subseteq Id, FindByID(S), used' = {}
  PROVE  Together'
<1> DEFINE A == {s \in arango : s.key \in {KeyOf(i) : i \in S}}
           B == {s \in nedb : s.doc.id \in S}
<1>1. ASSUME NEW i \in S, NEW s \in arango, s.doc.id # i PROVE Key[s.doc.id] # Key[i]
  <2>1. ~Collides(i)
    BY DEF FindByID, Goes, If
  <2> QED BY <1>1, <2>1 DEF Collides, Docs
<1>2. A = {s \in arango : s.doc.id \in S}
  BY <1>1 DEF Together, KeyOf
<1>3. Docs(A) = Docs(B)
  <2> DEFINE ofIds == {s \in arango : s.doc.id \in S}
  <2>1. Docs(arango) = Docs(nedb)
    BY DEF Together
  <2>2. Docs(ofIds) = Docs(B)
    BY <2>1 DEF Docs
  <2> HIDE DEF A, B, ofIds
  <2>3. A = ofIds
    BY <1>2 DEF ofIds
  <2> QED BY <2>2, <2>3
<1>4. A \subseteq arango /\ B \subseteq nedb
  OBVIOUS
<1>5. Cardinality(A) = Cardinality(B)
  <2> HIDE DEF A, B
  <2> QED BY <1>3, <1>4, SamePart
<1>6. /\ last'.arango = Found(A, Cardinality(A), Whole)
      /\ last'.nedb = Found(B, Cardinality(B), Whole)
  BY DEF FindByID, Answers
<1>7. last'.arango = last'.nedb
  <2> HIDE DEF A, B
  <2> QED BY <1>3, <1>5, <1>6 DEF Found
<1> QED BY <1>7, AnswersTogether DEF FindByID
\* What AQL inserts has the keys of its ids.
LEMMA InsertedKeys ==
  ASSUME NEW docs, \A s \in arango : s.key = Key[s.doc.id], ArangoInsert(docs)
  PROVE  \A s \in arango' : s.key = Key[s.doc.id]
<1> SUFFICES ASSUME NEW s \in arango', s \notin arango PROVE s.key = Key[s.doc.id]
  OBVIOUS
<1>1. PICK k \in DOMAIN docs : s = Stored(KeyOf(docs[k].id), docs[k])
  BY DEF ArangoInsert
<1> QED BY <1>1, StoredHas DEF KeyOf

\* A document with a new id and a new key is inserted into both.
LEMMA InsertTogether ==
  ASSUME StoresInv, Together, NEW d \in Doc, Insert(d), used' = {}
  PROVE  Together'
<1> DEFINE docs == <<d>>
<1>1. \A s \in arango : s.doc.id # d.id /\ Key[s.doc.id] # Key[d.id]
  <2>1. ~Collides(d.id) /\ ~Present(d.id)
    BY DEF Insert, Goes, If
  <2> QED BY <2>1 DEF Collides, Present, Docs
<1>2. Docs(nedb) = Docs(arango)
  BY DEF Together
<1>3. \A s \in nedb : s.doc.id # d.id
  BY <1>1, <1>2 DEF Docs
<1>4. \A s \in nedb : s.key # d.id
  BY <1>3 DEF Together, Doc
<1>5. ~ArangoRefuses(docs)
  <2>1. {KeyOf(docs[k].id) : k \in DOMAIN docs} = {Key[d.id]} /\ Len(docs) = 1
    BY DEF KeyOf
  <2>2. Cardinality({Key[d.id]}) = 1
    BY FS_Singleton
  <2>3. ASSUME NEW k \in DOMAIN docs, NEW t \in arango PROVE t.key # KeyOf(docs[k].id)
    BY <1>1 DEF Together, KeyOf
  <2> HIDE DEF docs
  <2> QED BY <2>1, <2>2, <2>3 DEF ArangoRefuses
<1>6. ArangoInsert(docs)
  BY <1>5 DEF Insert
<1>7. Docs(arango') = Docs(arango) \cup {d}
  <2>1. docs \in Seq(Doc) /\ {docs[k] : k \in DOMAIN docs} = {d}
    OBVIOUS
  <2>2. Keyed(arango, ArangoKeys)
    BY DEF StoresInv
  <2> HIDE DEF docs
  <2> QED BY <1>6, <2>1, <2>2, ArangoInsertKeyed
<1>8. \A s \in arango' : s.key = Key[s.doc.id]
  BY <1>6, InsertedKeys DEF Together
<1>9. nedb' = nedb \cup {Stored(d.id, d)} /\ nedb' # nedb
  <2>1. nedb' = nedb \cup {Stored(d.id, d)}
    BY <1>4 DEF Insert
  <2>2. Stored(d.id, d) \in nedb'
    BY <2>1
  <2> QED BY <1>4, <2>1, <2>2, StoredHas
<1>10. Docs(nedb') = Docs(nedb) \cup {d}
  BY <1>9, StoredHas DEF Docs
<1>11. /\ \A s \in nedb' : s.key \in Id => s.key = s.doc.id
       /\ \A s, t \in nedb' : s.doc.id = t.doc.id => s = t
  BY <1>3, <1>9, StoredHas DEF Together
<1>12. last'.arango = Done /\ last'.nedb = Done
  BY <1>5, <1>9 DEF Insert, Answers
<1> QED BY <1>2, <1>7, <1>8, <1>10, <1>11, <1>12 DEF Together, Docs

\* So are the documents of a list.
LEMMA InsertListTogether ==
  ASSUME StoresInv, Together, NEW d \in Doc, NEW e \in Doc, InsertList(<<d, e>>), used' = {}
  PROVE  Together'
<1> DEFINE docs == <<d, e>>
<1>1. /\ docs \in Seq(Doc) /\ ~ArangoRefuses(docs)
      /\ nedb' = nedb \cup {Stored(Generated(made + k), docs[k]) : k \in DOMAIN docs}
      /\ made' = made + Len(docs)
      /\ last'.arango = Done /\ last'.nedb = Done
  BY DEF InsertList, Goes, If, Answers
<1>2. ArangoInsert(docs)
  BY <1>1 DEF InsertList
<1> HIDE DEF docs
<1>3. Docs(arango') = Docs(arango) \cup {docs[k] : k \in DOMAIN docs}
  BY <1>1, <1>2, ArangoInsertKeyed DEF StoresInv
<1>4. Docs(nedb') = Docs(nedb) \cup {docs[k] : k \in DOMAIN docs}
  <2>1. made \in Nat /\ Keyed(nedb, NedbKeys)
    BY DocumentsAssumption DEF StoresInv
  <2> QED BY <1>1, <2>1, ListGenerated
<1>5. \A s \in arango' : s.key = Key[s.doc.id]
  BY <1>2, InsertedKeys DEF Together
<1>6. ASSUME NEW j \in DOMAIN docs, NEW k \in DOMAIN docs, docs[j].id = docs[k].id
      PROVE  j = k
  <2> DEFINE keys == [i \in DOMAIN docs |-> KeyOf(docs[i].id)]
  <2>1. IsInjective(keys)
    BY <1>1, KeysDiffer
  <2>2. keys[j] = keys[k]
    BY <1>6
  <2> QED BY <2>1, <2>2 DEF IsInjective
<1>7. ASSUME NEW s \in nedb, NEW k \in DOMAIN docs PROVE s.doc.id # docs[k].id
  <2>1. PICK t \in arango : t.doc = s.doc
    BY DEF Together, Docs
  <2>2. t.key # KeyOf(docs[k].id)
    BY <1>1 DEF ArangoRefuses
  <2> QED BY <2>1, <2>2 DEF Together, KeyOf
<1>8. ASSUME NEW s \in nedb', s \notin nedb
      PROVE  \E k \in DOMAIN docs : s = Stored(Generated(made + k), docs[k])
  BY <1>1, <1>8
<1>9. \A s \in nedb' : s.key \in Id => s.key = s.doc.id
  <2>1. \A n : Generated(n) \notin Id
    BY FiltersAssumption DEF Generated
  <2> QED BY <1>8, <2>1, StoredHas DEF Together
<1>10. ASSUME NEW s \in nedb', NEW t \in nedb', s.doc.id = t.doc.id PROVE s = t
  <2>1. CASE s \in nedb /\ t \in nedb
    BY <1>10, <2>1 DEF Together
  <2>2. CASE s \in nedb /\ t \notin nedb
    BY <1>7, <1>8, <1>10, <2>2, StoredHas
  <2>3. CASE s \notin nedb /\ t \in nedb
    BY <1>7, <1>8, <1>10, <2>3, StoredHas
  <2>4. CASE s \notin nedb /\ t \notin nedb
    BY <1>6, <1>8, <1>10, <2>4, StoredHas
  <2> QED BY <2>1, <2>2, <2>3, <2>4
<1>11. Docs(arango') = Docs(nedb')
  BY <1>3, <1>4 DEF Together
<1> QED BY <1>1, <1>5, <1>9, <1>10, <1>11 DEF Together, Docs
\* Members of two stores with the same documents, chosen alike.
Alike(A, B, ofA, ofB) ==
  /\ Docs(A) = Docs(B) /\ ofA \subseteq A /\ ofB \subseteq B
  /\ \A s \in A, r \in B : s.doc = r.doc => (s \in ofA <=> r \in ofB)

\* They have the same documents.
LEMMA AlikeSame ==
  ASSUME NEW A, NEW B, NEW ofA, NEW ofB, Alike(A, B, ofA, ofB)
  PROVE  Docs(ofA) = Docs(ofB)
BY DEF Alike, Docs

\* A patch does the same to the documents chosen.
LEMMA ChangedSame ==
  ASSUME NEW A, NEW B, NEW ofA, NEW ofB, Alike(A, B, ofA, ofB),
         NEW K, NEW L, Keyed(A, K), Keyed(B, L), NEW patch \in Patches
  PROVE  Docs(Changed(A, ofA, patch)) \subseteq Docs(Changed(B, ofB, patch))
<1> SUFFICES ASSUME NEW t \in Changed(A, ofA, patch)
             PROVE  \E u \in Changed(B, ofB, patch) : u.doc = t.doc
  BY DEF Docs
<1>1. PICK s \in A : t.doc = IF s \in ofA THEN Patched(s.doc, patch) ELSE s.doc
  BY ChangedMembers DEF Alike
<1>2. PICK r \in B : r.doc = s.doc
  BY DEF Docs, Alike
<1>3. s \in ofA <=> r \in ofB
  BY <1>2 DEF Alike
<1>4. CASE r \in ofB
  <2> DEFINE u == [r EXCEPT !.doc = Patched(@, patch)]
  <2>1. u \in Changed(B, ofB, patch)
    BY <1>4 DEF Changed
  <2>2. r \in [key : L, doc : Doc]
    BY DEF Keyed
  <2>3. u.doc = Patched(r.doc, patch)
    BY <2>2
  <2> QED BY <1>1, <1>2, <1>3, <1>4, <2>1, <2>3
<1>5. CASE r \notin ofB
  <2>1. r \in Changed(B, ofB, patch)
    BY <1>5 DEF Changed
  <2> QED BY <1>1, <1>2, <1>3, <1>5, <2>1
<1> QED BY <1>4, <1>5

\* A change that leaves the ids of the documents leaves what is known of them.
LEMMA ChangedIds ==
  ASSUME NEW K, NEW store, Keyed(store, K), NEW selected, selected \subseteq store,
         NEW patch \in Patches, \A s \in selected : Patched(s.doc, patch).id = s.doc.id
  PROVE  \A t \in Changed(store, selected, patch) :
           \E s \in store : t.key = s.key /\ t.doc.id = s.doc.id
<1> TAKE t \in Changed(store, selected, patch)
<1>1. PICK s \in store :
        /\ t.key = s.key
        /\ t.doc = IF s \in selected THEN Patched(s.doc, patch) ELSE s.doc
  BY ChangedMembers
<1> QED BY <1>1

\* A patch that leaves the ids changes the same documents.
LEMMA UpdateTogether ==
  ASSUME StoresInv, Together, NEW filter \in Filter, NEW patch \in Patch,
         Update(filter, patch), used' = {}
  PROVE  Together'
<1> DEFINE A == ArangoSelected(filter)
           B == NedbSelected(filter)
<1>1. FilterUses(filter) = {}
  BY DEF Update, Goes
<1>2. /\ Builds(filter) /\ ~NedbFails(filter)
      /\ \A d \in Docs(arango) : AqlHolds[filter][d] <=> NedbHolds[filter][d]
      /\ Docs(A) = Docs(B)
  BY <1>1, CommonSelects
<1>3. patch.id = None \/ \A s \in A : s.doc.id = patch.id
  BY <1>2 DEF Update, Goes, If
<1>4. patch.id = None \/ \A s \in B : s.doc.id = patch.id
  BY <1>2, <1>3 DEF Docs
<1>5. /\ \A s \in A : Patched(s.doc, patch).id = s.doc.id
      /\ \A s \in B : Patched(s.doc, patch).id = s.doc.id
  BY <1>3, <1>4 DEF Patched
<1>6. /\ arango' = Changed(arango, A, patch)
      /\ nedb' = Changed(nedb, B, patch)
      /\ last'.arango = Done /\ last'.nedb = Done
  BY <1>2 DEF Update, Answers
<1>7. /\ Keyed(arango, ArangoKeys) /\ Keyed(nedb, NedbKeys) /\ patch \in Patches
      /\ A \subseteq arango /\ B \subseteq nedb
  BY SelectedStored DEF StoresInv, Patches
<1>8. Docs(arango') = Docs(nedb')
  <2>1. Docs(arango) = Docs(nedb)
    BY DEF Together
  <2>2. Alike(arango, nedb, A, B) /\ Alike(nedb, arango, B, A)
    BY <1>2, <2>1 DEF ArangoSelected, NedbSelected, Alike, Docs
  <2> HIDE DEF A, B
  <2>3. Docs(Changed(arango, A, patch)) \subseteq Docs(Changed(nedb, B, patch))
    BY <1>7, <2>2, ChangedSame
  <2>4. Docs(Changed(nedb, B, patch)) \subseteq Docs(Changed(arango, A, patch))
    BY <1>7, <2>2, ChangedSame
  <2>5. Docs(Changed(arango, A, patch)) = Docs(Changed(nedb, B, patch))
    BY <2>3, <2>4
  <2> QED BY <1>6, <2>5, Zenon
<1> HIDE DEF A, B
<1>9. ASSUME NEW t \in arango'
      PROVE  \E s \in arango : t.key = s.key /\ t.doc.id = s.doc.id
  BY <1>5, <1>6, <1>7, ChangedIds
<1>10. ASSUME NEW t \in nedb'
       PROVE  \E s \in nedb : t.key = s.key /\ t.doc.id = s.doc.id
  BY <1>5, <1>6, <1>7, ChangedIds
<1>11. \A s \in arango' : s.key = Key[s.doc.id]
  BY <1>9 DEF Together
<1>12. \A s \in nedb' : s.key \in Id => s.key = s.doc.id
  BY <1>10 DEF Together
<1>13. ASSUME NEW t \in nedb', NEW u \in nedb', t.doc.id = u.doc.id PROVE t = u
  <2>1. t.key = u.key
    BY <1>10, <1>13 DEF Together
  <2>2. Keyed(nedb', NedbKeys)
    BY <1>6, <1>7, ChangedKeyed
  <2> QED BY <2>1, <2>2 DEF Keyed
<1> QED BY <1>6, <1>8, <1>11, <1>12, <1>13 DEF Together, Docs

\* The document that is upserted is in both stores what was upserted.
LEMMA UpsertTogether ==
  ASSUME StoresInv, Together, NEW d \in Doc, Upsert(d), used' = {}
  PROVE  Together'
<1> DEFINE old == {s \in arango : s.key = Key[d.id]}
           others == {s \in nedb : s.key # d.id}
<1>1. /\ \A s \in arango : s.doc.id # d.id => Key[s.doc.id] # Key[d.id]
      /\ \A s \in nedb : s.doc.id = d.id => s.key = d.id
      /\ d.f = Missing => \A s \in arango : s.doc.id = d.id => s.doc.f = Missing
  <2>1. UpsertUses(d) = {}
    BY DEF Upsert, Goes
  <2>2. ~Collides(d.id)
    BY <2>1 DEF UpsertUses, If
  <2> QED BY <2>1, <2>2 DEF UpsertUses, If, Collides, Docs
<1>2. old = {s \in arango : s.doc.id = d.id}
  BY <1>1 DEF Together
<1>3. others = {s \in nedb : s.doc.id # d.id}
  BY <1>1 DEF Together, Doc
<1>4. arango' = (arango \ old) \cup {Stored(Key[d.id], d)}
  <2>1. arango' = IF old = {} THEN arango \cup {Stored(Key[d.id], d)} ELSE Changed(arango, old, d)
    BY DEF Upsert, ArangoUpserted, KeyOf
  <2>2. ASSUME NEW s \in old PROVE [s EXCEPT !.doc = Patched(@, d)] = Stored(Key[d.id], d)
    <3>1. s \in [key : ArangoKeys, doc : Doc] /\ s.key = Key[d.id] /\ s.doc.id = d.id
      BY <1>2 DEF StoresInv, Keyed
    <3>2. Patched(s.doc, d) = d
      BY <1>1, <3>1 DEF Patched, Doc
    <3> QED BY <3>1, <3>2 DEF Stored
  <2>3. CASE old = {}
    BY <2>1, <2>3
  <2>4. CASE old # {}
    <3>1. {[s EXCEPT !.doc = Patched(@, d)] : s \in old} = {Stored(Key[d.id], d)}
      <4> HIDE DEF old
      <4> QED BY <2>2, <2>4
    <3> HIDE DEF old
    <3> QED BY <2>1, <2>4, <3>1 DEF Changed
  <2> QED BY <2>3, <2>4
<1>5. nedb' = others \cup {Stored(d.id, d)}
  BY DEF Upsert, NedbUpserted
<1>6. /\ Docs(arango') = {c \in Docs(arango) : c.id # d.id} \cup {d}
      /\ Docs(nedb') = {c \in Docs(nedb) : c.id # d.id} \cup {d}
  <2>1. /\ Docs(arango \ old) = {c \in Docs(arango) : c.id # d.id}
        /\ Docs(others) = {c \in Docs(nedb) : c.id # d.id}
    BY <1>2, <1>3 DEF Docs
  <2> HIDE DEF old, others
  <2> QED BY <1>4, <1>5, <2>1, StoredHas DEF Docs
<1>7. \A s \in arango' : s.key = Key[s.doc.id]
  BY <1>4, StoredHas DEF Together
<1>8. \A s \in nedb' : s.key \in Id => s.key = s.doc.id
  BY <1>5, StoredHas DEF Together
<1>9. \A s, t \in nedb' : s.doc.id = t.doc.id => s = t
  BY <1>3, <1>5, StoredHas DEF Together
<1>10. Docs({s \in arango' : s.key = KeyOf(d.id)}) = {d}
  BY <1>4, StoredHas DEF Docs, KeyOf
<1>11. Docs({s \in nedb' : s.key = d.id}) = {d}
  BY <1>5, StoredHas DEF Docs
<1>12. last'.arango = last'.nedb
  BY <1>10, <1>11 DEF Upsert, Answers, UpsertAnswer
<1> QED BY <1>6, <1>7, <1>8, <1>9, <1>12 DEF Together, Docs

\* A common filter deletes the same documents.
LEMMA DeleteTogether ==
  ASSUME StoresInv, Together, NEW filter \in Filter, Delete(filter), used' = {}
  PROVE  Together'
<1>1. FilterUses(filter) = {}
  BY DEF Delete, Goes
<1>2. /\ Builds(filter) /\ ~NedbFails(filter)
      /\ \A d \in Docs(arango) : AqlHolds[filter][d] <=> NedbHolds[filter][d]
  BY <1>1, CommonSelects
<1>3. /\ arango' = {s \in arango : ~AqlHolds[filter][s.doc]}
      /\ nedb' = {s \in nedb : ~NedbHolds[filter][s.doc]}
      /\ last'.arango = Done /\ last'.nedb = Done
  BY <1>2 DEF Delete, Answers, ArangoSelected, NedbSelected
<1>4. Docs(arango') = Docs(nedb')
  <2>1. Alike(arango, nedb, arango', nedb')
    BY <1>2, <1>3 DEF Together, Alike, Docs
  <2> QED BY <2>1, AlikeSame
<1> QED BY <1>3, <1>4 DEF Together, Docs

\* truncate deletes them all.
LEMMA TruncateTogether ==
  ASSUME StoresInv, Together, Truncate
  PROVE  Together'
BY DEF Truncate, Answers, Together, Docs

\* Every step that makes a common use leaves the stores together; one that
\* makes another is the last of the history.
LEMMA DocumentsStep == DocumentsInv /\ [Next]_vars => DocumentsInv'
<1> SUFFICES ASSUME DocumentsInv, [Next]_vars PROVE DocumentsInv'
  OBVIOUS
<1>1. StoresInv /\ StoresInv'
  BY StoresStep DEF DocumentsInv
<1> SUFFICES ASSUME used' = {} PROVE Together'
  BY <1>1 DEF DocumentsInv
<1>2. Together
  BY DEF DocumentsInv, Next, Insert, InsertList, Find, Count, FindByID, Update, Upsert,
         Delete, Truncate, Goes, vars
<1>3. CASE \E d \in Doc : Insert(d) \/ Upsert(d)
  BY <1>1, <1>2, <1>3, InsertTogether, UpsertTogether
<1>4. CASE \E d, e \in Doc : InsertList(<<d, e>>)
  BY <1>1, <1>2, <1>4, InsertListTogether
<1>5. CASE \E filter \in Filter, p \in Page : Find(filter, p)
  BY <1>1, <1>2, <1>5, FindTogether
<1>6. CASE \E filter \in Filter : Count(filter) \/ Delete(filter)
  BY <1>1, <1>2, <1>6, CountTogether, DeleteTogether
<1>7. CASE \E S \in SUBSET Id : FindByID(S)
  BY <1>1, <1>2, <1>7, FindByIDTogether
<1>8. CASE \E filter \in Filter, patch \in Patch : Update(filter, patch)
  BY <1>1, <1>2, <1>8, UpdateTogether
<1>9. CASE Truncate
  BY <1>1, <1>2, <1>9, TruncateTogether
<1>10. CASE UNCHANGED vars
  BY <1>2, <1>10 DEF vars, Together, Docs
<1> QED BY <1>3, <1>4, <1>5, <1>6, <1>7, <1>8, <1>9, <1>10 DEF Next

\* Both stores are empty at first.
LEMMA DocumentsInit == Init => DocumentsInv
<1> SUFFICES ASSUME Init PROVE DocumentsInv
  OBVIOUS
<1>1. StoresInv
  BY StoresInit
<1>2. Together
  BY DEF Init, Together, Docs
<1> QED BY <1>1, <1>2 DEF DocumentsInv

\* After any history of uses the two providers have in common, whatever the
\* filters, ids, values and options, they hold the same documents, each once,
\* and the last operation answered the same.
THEOREM SameDocumentsTrue == Spec => []SameDocuments
<1>1. Spec => []DocumentsInv
  BY DocumentsInit, DocumentsStep, PTL DEF Spec
<1> QED BY <1>1, SameDocumentsFollows, PTL
=============================================================================
