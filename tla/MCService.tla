------------------------------- MODULE MCService -------------------------------
(* The service for TLC: launches from the defaults, with a file that sets one *)
(* field and an environment that sets one variable, at the limits of every    *)
(* range and one step beyond.                                                 *)
EXTENDS Service, TLC

Edges ==
    [timeout |-> {0, 1, 30, 31}, max_response_mb |-> {0, 20, 21}, cache_ttl |-> {59, 60, 86401},
     cache_type |-> {"sqlite", Wrong}, monitoring_workers |-> {0, 32, 33},
     webhook_workers |-> {0, 33}, webhook_timeout |-> {0, 60, 61}, grace_days |-> {0, 31},
     log_level |-> {"trace", Wrong}, log_format |-> {"text", Wrong},
     metrics_port |-> {0, 65535, 65536}, server_port |-> {0, 1, 65536},
     slow_ms |-> {0, 60000}, top_n |-> {0, 1024},
     buckets |-> {<<>>, <<1, 1>>, <<1, 2>>, <<-1, 2>>}]

Settings(fields) ==
    {<<>>} \cup UNION {{(f :> v) : v \in Edges[f]} : f \in fields}

Nowhere == [p \in {"flag", "RDAPIFY_CONFIG", "cwd", "home", "etc"} |-> NoFile]

SomePlaces ==
    {Nowhere}
        \cup {[Nowhere EXCEPT !["RDAPIFY_CONFIG"] = Missing, !["cwd"] = File(<<>>)]}
        \cup {[Nowhere EXCEPT !["cwd"] = f, !["etc"] = Garbled] :
                f \in {Unreadable, Garbled} \cup {File(sets) : sets \in Settings(Fields)}}

ServiceLaunches ==
    [program : {"service"}, places : SomePlaces, env : Settings(EnvFields)]

FetcherEdges ==
    [timeout |-> {0, 30, 31, Wrong}, max_attempts |-> {0, 1, 10, 11},
     concurrency |-> {0, 1, 4096, 4097}, per_host |-> {0, 1, 256, 257, Wrong},
     sample_rate |-> {-1, 100, 101, Wrong}]

FetcherSettings ==
    {<<>>} \cup UNION {{(f :> v) @@ (g :> w) : v \in FetcherEdges[f], w \in FetcherEdges[g]} :
                        f \in FetcherEnv, g \in FetcherEnv}

MCLaunches ==
    ServiceLaunches
        \cup [program : {"embedded"}, places : {Nowhere}, env : FetcherSettings]

CONSTANTS h1, h2, s1, s2
MCCallers == {{h1, h2}, {h1, s1, s2}}
=============================================================================
