----------------------------- MODULE MCAgentRuns -----------------------------
(* One run, two workers, the owner's console; two providers, one retry. *)
EXTENDS AgentRuns

CONSTANTS w1, w2, owner, p1, p2
MCWorkers == {w1, w2}
MCCallers == {w1, w2, owner}
MCProviders == {p1, p2}
MCFallbacks == <<p2>>
MCAdapter == p1 :> "openai" @@ p2 :> "gemini"

\* The owner's operations share nothing with the run: they are explored before it.
ConsoleFirst == request = "none" \/ op[Console] = NoOperation
=============================================================================
