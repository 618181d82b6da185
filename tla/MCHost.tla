-------------------------------- MODULE MCHost --------------------------------
(* Small instances of every part; a token more than an agent needs. *)
EXTENDS Host

CONSTANTS t1, t2, s1, s2

MCTokens == {t1, t2}
MCSources == {s1, s2}
AllParts == {"reports", "perf", "install", "telemetry", "collector"}
OnlyTelemetry == {"telemetry"}
===============================================================================
