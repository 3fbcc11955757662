----------------------------- MODULE MCEc2Bench -----------------------------
EXTENDS Ec2Bench

MCEngines == <<"duckdb", "polars">>
MCConfigs == {Cold(MCEngines[i]) : i \in DOMAIN MCEngines}
=============================================================================
