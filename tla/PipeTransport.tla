--------------------------- MODULE PipeTransport ---------------------------
(***************************************************************************)
(* The pipe transport: the list of servers shared by the process, the      *)
(* servers that put themselves on it, and the calls of clients' endpoints. *)
(* No operation waits for I/O before it returns, except a call, which      *)
(* waits for the method of the service it found.                           *)
(*                                                                         *)
(* start() looks the address up as a property of the list, but _.set,      *)
(* _.get and _.unset take an address with a dot for a path.  Addresses are *)
(* taken to be such that no path leads through another server.             *)
(***************************************************************************)
EXTENDS Naturals, Sequences, FiniteSets

CONSTANTS
  Server, Nobody,
  Addr,            \* addresses
  Dotted,          \* those that are paths
  AddrOf,          \* AddrOf[s]: the address a server is configured with
  Impl,            \* the methods business logic offers to the clients
  NoMethod,        \* the bound service has no such method
  NoService,       \* no service is bound under the clients' name
  ErrorClass, Internal, PlainError, Nil,
  Data, Unimplemented, Running, Thrown,
  MaxCalls,        \* bound: calls of clients
  MaxStarts        \* bound: successful starts of servers

ASSUME PipeAssumption ==
  /\ Dotted \subseteq Addr /\ AddrOf \in [Server -> Addr]
  /\ Nobody \notin Server /\ Internal \in ErrorClass
  /\ NoMethod \notin Impl /\ NoService \notin Impl /\ NoMethod # NoService
  /\ Cardinality({PlainError, Nil, Data, Unimplemented, Running, Thrown}) = 6
  /\ ErrorClass \cap {PlainError, Nil, Data, Unimplemented, Running, Thrown} = {}
  /\ NoMethod \notin ErrorClass \cup {PlainError, Nil, Data}
  /\ MaxCalls \in Nat /\ MaxStarts \in Nat

VARIABLES
  at,        \* at[a]: the server that the path a leads to
  starts,    \* the number of successful starts
  serving,   \* history: the servers that have started and not ended since
  service,   \* service[s]: the method bound under the name of the clients
  calls      \* the calls: the endpoint called, what its method did, the response

serverVars == <<at, starts, serving, service>>
pipeVars == <<serverVars, calls>>

Outcome == ErrorClass \cup {PlainError, Nil, Data}
Response == ErrorClass \cup {Data, Unimplemented, Thrown}

PipeTypeOK ==
  /\ at \in [Addr -> Server \cup {Nobody}]
  /\ starts \in 0..MaxStarts
  /\ serving \subseteq Server
  /\ service \in [Server -> Impl \cup {NoMethod, NoService}]
  /\ calls \in Seq([endpoint : Nat \ {0}, outcome : Outcome \cup {Running, NoMethod},
                    response : Response \cup {Running}])

PipeInit ==
  /\ at = [a \in Addr |-> Nobody]
  /\ starts = 0 /\ serving = {}
  /\ service = [s \in Server |-> NoService]
  /\ calls = <<>>

-----------------------------------------------------------------------------
(* Server.                                                                 *)

\* bind(name, service), again and again if the caller likes.
Bind(s, m) ==
  /\ service' = [service EXCEPT ![s] = m]
  /\ UNCHANGED <<at, starts, serving, calls>>

\* !_.isNil(servers[this.addr]): never so for a path.
InUse(a) == a \notin Dotted /\ at[a] # Nobody

\* start(); it throws, and changes nothing, when the address is in use.
Start(s) ==
  /\ starts < MaxStarts
  /\ ~InUse(AddrOf[s])
  /\ at' = [at EXCEPT ![AddrOf[s]] = s]
  /\ starts' = starts + 1
  /\ serving' = serving \cup {s}
  /\ UNCHANGED <<service, calls>>

\* _.unset, whoever is there.  Mutant: nobody is taken off.
Listed(s) == at
Unlisted(s) == [at EXCEPT ![AddrOf[s]] = Nobody]

\* end(), also of a server that never started.
End(s) ==
  /\ at' = Unlisted(s)
  /\ serving' = serving \ {s}
  /\ UNCHANGED <<starts, service, calls>>

-----------------------------------------------------------------------------
(* Client.                                                                 *)

\* The method makeEndpoint finds at an address; it throws for NoService.
\* Endpoints look at state.connected, which nothing sets, Client.end included.
Found(a) == IF at[a] = Nobody THEN NoService ELSE service[at[a]]

\* A call of the i-th endpoint, which was made for method m.
Call(i, m) ==
  /\ Len(calls) < MaxCalls
  /\ calls' = Append(calls,
       [endpoint |-> i, outcome |-> IF m = NoMethod THEN NoMethod ELSE Running,
        response |-> IF m = NoMethod THEN Unimplemented ELSE Running])

\* A class of errors.ts is passed on, all else is Internal; looking at the
\* constructor of null or undefined throws.  Mutants: nothing is mapped, and
\* what is no class of errors.ts is thrown.
ResponseUnmapped(o) == o
ResponseToThrowing(o) == IF o \in {PlainError, Nil} THEN Thrown ELSE o
ResponseTo(o) == IF o = PlainError THEN Internal ELSE IF o = Nil THEN Thrown ELSE o

\* The method of the k-th call returns or throws.
MethodEnds(k, o) ==
  /\ calls[k].outcome = Running
  /\ calls' = [calls EXCEPT ![k].outcome = o, ![k].response = ResponseTo(o)]
  /\ UNCHANGED serverVars

PipeNext == \E s \in Server : Start(s) \/ End(s)
                              \/ \E m \in Impl \cup {NoMethod} : Bind(s, m)

-----------------------------------------------------------------------------
(***************************************************************************)
(* Properties                                                              *)
(***************************************************************************)
\* A client finds only servers that have started and not ended since, under
\* their own address.
FoundIsServing == \A a \in Addr : at[a] # Nobody =>
  at[a] \in serving /\ AddrOf[at[a]] = a

\* A method that throws a class of errors.ts is answered with that class,
\* any other error object with Internal, and no error passes for data.
TrueResponse == \A k \in DOMAIN calls :
  LET c == calls[k] IN
    /\ c.outcome \in ErrorClass => c.response = c.outcome
    /\ c.outcome = PlainError => c.response = Internal
    /\ c.response = Data => c.outcome = Data

\* pipe/index.ts: "Remove the server from the internal server list."  end()
\* removes any server with the same address, also when its own start() has
\* failed: a server that still serves is no longer found.
ServingIsFound == \A s \in serving : AddrOf[s] \notin Dotted => at[AddrOf[s]] = s
=============================================================================
