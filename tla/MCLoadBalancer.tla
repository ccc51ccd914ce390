--------------------------- MODULE MCLoadBalancer ---------------------------
(***************************************************************************)
(* LoadBalancer over two addresses: two servers are configured with the    *)
(* plain one, a third with a path.                                         *)
(***************************************************************************)
EXTENDS LoadBalancer

CONSTANTS s1, s2, s3, plain, path, v1, NotFound
MCServer == {s1, s2, s3}
MCAddr == {plain, path}
MCDotted == {path}
MCAddrOf == [s \in MCServer |-> IF s = s3 THEN path ELSE plain]
MCImpl == {v1}
MCErrorClass == {NotFound, Internal}
MCInstances == <<plain, path>>
=============================================================================
