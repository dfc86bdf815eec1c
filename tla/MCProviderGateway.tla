------------------------- MODULE MCProviderGateway -------------------------
(* Instances of ProviderGateway for TLC.                                   *)
EXTENDS ProviderGateway

CONSTANTS c1, c2, p1, p2

TwoCallers == {c1, c2}
OneProvider == {p1}
TwoProviders == {p1, p2}
StrictPlans == [c \in Callers |-> <<p1>>]
OneFallsBack == [c \in Callers |-> IF c = c1 THEN <<p1, p2>> ELSE <<p1>>]

OnPostgres == {[c \in Callers |-> "postgres"]}
(* Both on PostgreSQL, both on Redis, and one alone on PostgreSQL.         *)
OnOneStore == OnPostgres \cup {[c \in Callers |-> "redis"]}
              \cup {[c \in Callers |-> IF c = c1 THEN "postgres" ELSE "memory"]}
=============================================================================
