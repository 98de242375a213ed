---------------------------- MODULE RetentionMC ----------------------------
(* Instances of Retention for TLC, with the constants of SearchQueryMC.    *)
EXTENDS Retention, SearchQueryMC

============================================================================
