------------------------------- MODULE Resume -------------------------------
(***************************************************************************)
(* The resume side of a hand-off: the agent polls a handle, and the        *)
(* template tool (internal/mcp/core/handoff/handoff_registry.go,           *)
(* NewResumeTool) dispatches the call to the continuation registered for   *)
(* it, which reads its coordinator's state and, on a final answer, retires *)
(* the handle and itself (internal/mcp/oob/vault_handoff.go).              *)
(*                                                                         *)
(* The flows VaultRestore and VaultCreate extend this module with their    *)
(* endpoint, their outcomes and the way they read them.  A handle is       *)
(* minted together with the link it stands for, so a token names both.     *)
(* The handle store and the registry have a lock each and neither is held  *)
(* across a call, so a poll is a sequence of steps.                        *)
(***************************************************************************)
EXTENDS Endpoint

CONSTANT Pollers         \* calls of the resume tool in flight at once

VARIABLES
  handles, reg,          \* the async handles and the continuations
  stage, ask,            \* where each poll is, and the handle it is about
  verdict,               \* what the continuation decided to answer
  told                   \* history: the final answers the agent got

resumeVars == <<handles, reg, stage, ask, verdict, told>>

PollStages == {"idle", "found", "dispatched", "closed", "prune", "seed",
               "forget", "delete", "end"}
Answers    == {"done", "failed", "expired", "gone", "dead"}

ResumeInit ==
  /\ handles = {} /\ reg = {}
  /\ stage = [p \in Pollers |-> "idle"] /\ ask \in [Pollers -> Tokens]
  /\ verdict = [p \in Pollers |-> "pending"]
  /\ told = [t \in Tokens |-> {}]

Step(p, from, to) == stage[p] = from /\ stage' = [stage EXCEPT ![p] = to]
Tell(t, answer)   == told' = [told EXCEPT ![t] = @ \cup {answer}]
Decide(p, v)      == verdict' = [verdict EXCEPT ![p] = v]

-----------------------------------------------------------------------------
(* The start tool creates the handle and registers its continuation. *)
BeginHandoff(t) ==
  /\ handles' = handles \cup {t} /\ reg' = reg \cup {t}
  /\ UNCHANGED <<stage, ask, verdict, told>>

(* The handle store or the registry drops an entry past its time to live,   *)
(* or its oldest one at capacity.                                           *)
Drop(t) ==
  /\ \/ t \in handles /\ handles' = handles \ {t} /\ reg' = reg
     \/ t \in reg /\ reg' = reg \ {t} /\ handles' = handles
  /\ UNCHANGED <<stage, ask, verdict, told>>

(* handles.Get finds the handle, or the call ends the continuation and      *)
(* steers to a restart.                                                     *)
FindHandle(p, t) ==
  /\ t \in handles
  /\ Step(p, "idle", "found") /\ ask' = [ask EXCEPT ![p] = t]
  /\ UNCHANGED <<handles, reg, verdict, told>>

HandleDead(p, t) ==
  /\ t \notin handles /\ stage[p] = "idle"
  /\ reg' = reg \ {t} /\ Tell(t, "dead")
  /\ UNCHANGED <<handles, stage, ask, verdict>>

Poll(p, t) == FindHandle(p, t) \/ HandleDead(p, t)

(* reg.Get hands out the continuation, or steers to a restart. *)
Dispatch(p) ==
  /\ \/ ask[p] \in reg /\ Step(p, "found", "dispatched") /\ told' = told
     \/ ask[p] \notin reg /\ Step(p, "found", "idle") /\ Tell(ask[p], "dead")
  /\ UNCHANGED <<handles, reg, ask, verdict>>

(* The continuation reads one of its stores: it reads on, or it answers     *)
(* "pending", or it decides and starts to clean up.                         *)
ReadOn(p, from, to) ==
  Step(p, from, to) /\ UNCHANGED <<handles, reg, ask, verdict, told>>

Answer(p, from, to, v) ==
  Step(p, from, to) /\ Decide(p, v) /\ UNCHANGED <<handles, reg, ask, told>>

(* The clean-up that ends every final answer. *)
DeleteHandle(p) ==
  /\ Step(p, "delete", "end")
  /\ handles' = handles \ {ask[p]}
  /\ UNCHANGED <<reg, ask, verdict, told>>

(* The continuation ends itself and answers.  NewResumeTool ends it once    *)
(* more unless the answer steers to a restart; a vault handle is begun only *)
(* once, so nothing is left to end, and what a second End does to a sign-in *)
(* begun again is what `Drop' does at any time.                             *)
EndContinuation(p) ==
  /\ Step(p, "end", "idle")
  /\ reg' = reg \ {ask[p]}
  /\ Tell(ask[p], verdict[p]) /\ Decide(p, "pending")
  /\ UNCHANGED <<handles, ask>>

(* What every flow's poll does whatever its coordinator says. *)
Bookkeeping(p) == Dispatch(p) \/ DeleteHandle(p) \/ EndContinuation(p)

-----------------------------------------------------------------------------
ResumeTypeOK ==
  /\ handles \subseteq Tokens /\ reg \subseteq Tokens
  /\ stage \in [Pollers -> PollStages] /\ ask \in [Pollers -> Tokens]
  /\ verdict \in [Pollers -> (Answers \ {"dead"}) \cup {"pending"}]
  /\ told \in [Tokens -> SUBSET Answers]
=============================================================================
