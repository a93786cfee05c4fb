----------------------------- MODULE MCEventBus -----------------------------
(* EventBus with two dispatchers competing for two events. *)
EXTENDS EventBus
=============================================================================
