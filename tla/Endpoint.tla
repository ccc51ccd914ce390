------------------------------ MODULE Endpoint ------------------------------
(***************************************************************************)
(* The endpoint that makeEndpoint puts around a method of a service, for   *)
(* one request.  It applies the middleware of the server from the last to  *)
(* the first, each to the function made so far; each is a coroutine that   *)
(* may wait, and the array it is read from belongs to the server, whose    *)
(* owner may change it meanwhile.  Then the request passes through the     *)
(* functions, the one made last first, down to the business logic.         *)
(*                                                                         *)
(* Positions count from 1, those of the code from 0.  A middleware is      *)
(* added once at most, and is named by the number of its addition.         *)
(***************************************************************************)
EXTENDS Naturals, Sequences, SequencesExt

CONSTANT MaxMiddleware    \* bound: middleware the server is given

ASSUME EndpointAssumption == MaxMiddleware \in Nat

Middleware == 1..MaxMiddleware

VARIABLES
  middleware,  \* the array server.middleware
  declared,    \* history: all that was ever in it, in the order declared
  stage,       \* arrived, applying, passing, logic, threw or answered
  at,          \* the loop's i: the position that is being applied
  applying,    \* what was found there
  built,       \* the middleware of the functions made, the outermost first
  depth,       \* the number of functions the request has entered
  kept,        \* history: in the array ever since the loop began
  changes      \* history: how the array was changed since then

arrayVars == <<middleware, declared>>
chainVars == <<stage, at, applying, built, depth>>
pastVars == <<kept, changes>>
endpointVars == <<arrayVars, chainVars, pastVars>>

Stage == {"arrived", "applying", "passing", "logic", "threw", "answered"}
None == 0   \* nothing is being applied

EndpointTypeOK ==
  /\ middleware \in Seq(Middleware) /\ declared \in Seq(Middleware)
  /\ stage \in Stage
  /\ at \in Nat /\ applying \in Middleware \cup {None}
  /\ built \in Seq(Middleware) /\ depth \in 0..Len(built)
  /\ kept \subseteq Middleware /\ changes \subseteq {"push", "unshift", "splice"}

EndpointInit ==
  /\ \E n \in 0..MaxMiddleware : middleware = [i \in 1..n |-> i]
  /\ declared = middleware
  /\ stage = "arrived" /\ at = 0 /\ applying = None
  /\ built = <<>> /\ depth = 0
  /\ kept = {} /\ changes = {}

-----------------------------------------------------------------------------
(* The owner of the server; an existing endpoint sees the same array.      *)

\* A change after the loop is of no concern to this request.
MayAdd(w) == stage = "applying" /\ w = Len(declared) + 1 /\ w \in Middleware

Push(w) ==
  /\ MayAdd(w)
  /\ middleware' = Append(middleware, w)
  /\ declared' = Append(declared, w)
  /\ changes' = changes \cup {"push"}
  /\ UNCHANGED <<chainVars, kept>>

Unshift(w) ==
  /\ MayAdd(w)
  /\ middleware' = <<w>> \o middleware
  /\ declared' = <<w>> \o declared
  /\ changes' = changes \cup {"unshift"}
  /\ UNCHANGED <<chainVars, kept>>

Splice(p) ==
  /\ stage = "applying"
  /\ middleware' = RemoveAt(middleware, p)
  /\ kept' = kept \ {middleware[p]}
  /\ changes' = changes \cup {"splice"}
  /\ UNCHANGED <<declared, chainVars>>

OwnerChanges == \/ \E w \in Middleware : Push(w) \/ Unshift(w)
                \/ \E p \in DOMAIN middleware : Splice(p)

-----------------------------------------------------------------------------
(* The loop of chain().                                                    *)

\* Calls middleware[i]; what is not there is undefined, and no function.
ApplyAt(i) ==
  /\ at' = i
  /\ \/ /\ i \in DOMAIN middleware
        /\ stage' = "applying" /\ applying' = middleware[i]
     \/ /\ i \notin DOMAIN middleware
        /\ stage' = "threw" /\ applying' = None

\* An array without members is never asked for one.
Arrive ==
  /\ stage = "arrived"
  /\ kept' = ToSet(middleware)
  /\ IF middleware = <<>> THEN stage' = "passing" /\ UNCHANGED <<at, applying>>
                          ELSE ApplyAt(Len(middleware))
  /\ UNCHANGED <<arrayVars, built, depth, changes>>

\* The loop condition; mutant: it ends before the first one.
EndsEarly == at <= 2
LastApplied == at = 1

\* The function of a middleware goes around those made before.
\* Mutant: inside of them.
Inside(w) == Append(built, w)
Around(w) == <<w>> \o built

Applied ==
  /\ stage = "applying"
  /\ built' = Around(applying)
  /\ IF LastApplied
     THEN stage' = "passing" /\ applying' = None /\ UNCHANGED at
     ELSE ApplyAt(at - 1)
  /\ UNCHANGED <<arrayVars, depth, pastVars>>

ApplyThrows ==
  /\ stage = "applying"
  /\ stage' = "threw" /\ applying' = None
  /\ UNCHANGED <<arrayVars, at, built, depth, pastVars>>

-----------------------------------------------------------------------------
(* The request.                                                            *)

PassOn ==
  /\ stage = "passing"
  /\ IF depth < Len(built) THEN depth' = depth + 1 /\ UNCHANGED stage
                           ELSE stage' = "logic" /\ UNCHANGED depth
  /\ UNCHANGED <<arrayVars, at, applying, built, pastVars>>

\* A middleware may throw, or answer in place of what it is around.
Intercept(how) ==
  /\ stage = "passing" /\ depth > 0
  /\ stage' = how
  /\ UNCHANGED <<arrayVars, at, applying, built, depth, pastVars>>

EndpointSteps == \/ Arrive \/ Applied \/ ApplyThrows \/ PassOn
                 \/ Intercept("threw") \/ Intercept("answered")

-----------------------------------------------------------------------------
(***************************************************************************)
(* Properties                                                              *)
(***************************************************************************)
\* The business logic is reached only through every middleware that was in
\* the array all the time the endpoint was built: neither an addition at its
\* end nor a removal makes chain() pass one over.  (An addition in front
\* does: the loop then finds what it has applied last one position further.)
Guarded == stage = "logic" /\ "unshift" \notin changes => kept \subseteq ToSet(built)

\* "The first middleware is called first": the request meets the middleware
\* in the order declared, and each once, also when the array grows at either
\* end meanwhile.  (When something is removed, the loop may apply one again,
\* and put one declared later around it.)
Precedes(v, w) == \E i, j \in DOMAIN declared :
  i < j /\ declared[i] = v /\ declared[j] = w
InOrder == "splice" \notin changes =>
  \A i, j \in DOMAIN built : i < j => Precedes(built[i], built[j])
=============================================================================
