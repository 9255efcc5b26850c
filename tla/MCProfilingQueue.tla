--------------------------- MODULE MCProfilingQueue ---------------------------
(* A small instance of ProfilingQueue for TLC.                               *)
EXTENDS ProfilingQueue, TLC

CONSTANTS a, b, c, t, src

\* Two requests of the enqueue route, one of the catalog route and a test-data
\* request, all of one object.
Routing   == a :> "enqueue" @@ b :> "enqueue" @@ c :> "catalog" @@ t :> "testdata"
OneObject == [r \in Requests |-> src]
=============================================================================
