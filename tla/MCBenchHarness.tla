--------------------------- MODULE MCBenchHarness ---------------------------
EXTENDS BenchHarness

Conf(e, io, pre, n, log, check, show, sf) ==
    [engine |-> e, io_type |-> io, pre_run |-> pre, iterations |-> n,
     log_timings |-> log, check_results |-> check, show_results |-> show,
     scale_factor |-> sf]

\* Every engine with every io_type, warm or not; several iterations, checked and
\* not; and the settings that have an effect of their own.
MCConfigs ==
    {Conf(e, io, pre, 1, TRUE, FALSE, FALSE, 10) :
        e \in DOMAIN Engine, io \in IoTypes, pre \in BOOLEAN}
    \cup {Conf(e, "parquet", pre, 2, TRUE, TRUE, FALSE, 1) :
        e \in DOMAIN Engine, pre \in BOOLEAN}
    \cup {Conf(e, "skip", FALSE, 2, TRUE, FALSE, FALSE, 1) :
        e \in {"pandas", "polars", "duckdb"}}
    \cup {Conf(e, "parquet", FALSE, 1, log, TRUE, show, sf) :
        e \in {"pandas", "polars", "duckdb"}, log \in BOOLEAN, show \in BOOLEAN,
        sf \in {1, 10}}
    \cup {Conf("pandas", "parquet", pre, 0, TRUE, FALSE, FALSE, 1) : pre \in BOOLEAN}
=============================================================================
