------------------------------ MODULE MCRuleSync ------------------------------
(* Small instances: the config changes, and with it the YARA bundle.        *)
EXTENDS RuleSync

(* Each config version but the first brings a new bundle; the versions of   *)
(* the two are unrelated.                                                   *)
MCBundleOf == [v \in 0..MaxConfig |-> 10 * v]
===============================================================================
