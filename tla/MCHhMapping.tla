----------------------------- MODULE MCHhMapping -----------------------------
(***************************************************************************)
(* Instances of HhMapping for TLC: one status in each of two pipelines, a  *)
(* third one that only the administrator maps.                             *)
(***************************************************************************)
EXTENDS HhMapping, TLC

CONSTANTS
    sA, sB, sC,        \* statuses
    x, y,              \* codes
    api, worker,       \* processes
    p1,                \* PUT requests
    e1,                \* webhooks
    f1, f2             \* consumers of hh_autofill

MCPipelines == {{sA}, {sB}}
MCStageCode == (sA :> x) @@ (sB :> y) @@ (sC :> NoCode)
\* A fresh table, one filled by autofill alone, one with the administrator's row.
MCStored ==
    {Empty, MCStageCode, (sA :> NoCode) @@ (sB :> NoCode) @@ (sC :> x)}
\* The administrator maps a status of either kind.
MCPutMap == [t \in Puts |-> (sA :> y) @@ (sB :> NoCode) @@ (sC :> y)]
MCStatusOf == [t \in Events |-> sA]
MCOn == [t \in Tasks |-> IF t = f1 THEN worker ELSE api]
=============================================================================
