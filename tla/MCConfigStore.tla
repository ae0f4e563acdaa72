----------------------------- MODULE MCConfigStore -----------------------------
EXTENDS ConfigStore

MCLast == [k \in Key |-> IF k = "mqtt" THEN 2 ELSE 1]
=============================================================================
