---------------------------- MODULE MCPlanApply -----------------------------
(* Instance of PlanApply for TLC. *)
EXTENDS PlanApply

CONSTANTS v1, s1

(* A batch whose second command can fail, one of a single change. *)
SmallBatches == {<<Creates(v1), Deletes(1)>>, <<ChangesTo(1, v1)>>}

(* The settings are only ever compared, so that one of them is as good as  *)
(* another to begin with.                                                  *)
OneInit == settings = s1 /\ PlanInit

OneStart == OneInit /\ [][PlanNext]_allVars /\ WF_allVars(Notify)

=============================================================================
