-------------------------- MODULE MCWorkflowEngine --------------------------
(***************************************************************************)
(* A workflow with one step of every type: a tool, a conditional agent     *)
(* that depends on a wait listed after it and has one retry, and an        *)
(* approval that follows both steps that can be compensated.               *)
(***************************************************************************)
EXTENDS WorkflowEngine

MCStepType == <<"tool", "agent", "wait", "approval">>
MCDependsOn == <<{}, {1, 3}, {1}, {1, 2}>>
MCMaxRetries == <<0, 1, 0, 0>>
MCConditional == {2}
MCCompensable == {1, 2}

ASSUME CompensableInOrder
=============================================================================
