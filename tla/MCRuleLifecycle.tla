--------------------------- MODULE MCRuleLifecycle ---------------------------
(* A small instance of RuleLifecycle for TLC.                                *)
EXTENDS RuleLifecycle, TLC

AllKinds == {"activation", "deactivation", "gx_suite_repair"}

UserSymmetry == Permutations(Users)
=============================================================================
