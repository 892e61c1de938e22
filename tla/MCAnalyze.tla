------------------------------ MODULE MCAnalyze ------------------------------
(***************************************************************************)
(* A small instance of Analyze: a denied path with a path below it and one *)
(* that only begins like it, an endpoint and one that could not be read,   *)
(* one failing call, and a policy for each kind of rule, the empty rule    *)
(* included.                                                               *)
(***************************************************************************)
EXTENDS Analyze

Rules(paths, endpoints, syscalls, max) ==
    [denied_paths |-> paths, denied_endpoints |-> endpoints, denied_syscalls |-> syscalls,
     max_processes |-> max]

MCPaths == {<<"/", "a">>, <<"/", "a", "/", "b">>, <<"/", "a", "b">>}
MCEndpoints == {<<"ip", ":", "port">>, <<>>}
MCSyscalls == {<<"connect">>}
MCConfigs ==
    {Rules({}, {}, {}, 0), Rules({<<"/", "a">>}, {}, {}, 0), Rules({}, {<<"ip">>}, {}, 1),
     Rules({}, {}, {<<"connect">>}, 1), Rules({<<>>}, {}, {}, 0), Rules({}, {<<>>}, {}, 0),
     Rules({}, {}, {<<>>}, 2)}
=============================================================================
