------------------------- MODULE MCRuleExecution -------------------------
(***************************************************************************)
(* Small instances of RuleExecution for TLC.                               *)
(***************************************************************************)
EXTENDS RuleExecution, TLC

CONSTANTS ruleA, ruleB

ConfigAB == <<ruleA, ruleB>>

SingleRuns == [r \in {ruleA, ruleB} |-> 1]
TwoRunsOfA == (ruleA :> 2) @@ (ruleB :> 1)
=============================================================================
