------------------------------ MODULE MCYaraPass ------------------------------
(* Small instances: two watched files that change a few times between them. *)
EXTENDS YaraPass

CONSTANTS f1, f2

MCFiles == {f1, f2}
AllPolicies == {"own", "managed", "quiet"}
OwnSchedule == {"own"}
===============================================================================
