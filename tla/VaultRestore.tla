----------------------------- MODULE VaultRestore ---------------------------
(***************************************************************************)
(* The vault restore hand-off (internal/mcp/oob): the agent starts it and  *)
(* polls it, the human submits the recovery phrase on the one-time page,   *)
(* and the page's POST runs the restore.                                   *)
(*                                                                         *)
(*   vault_setup_ops.go     the start tool: link, handle, continuation     *)
(*   restore_oob.go         the POST: claim, record, restore, settle       *)
(*   vault_handoff.go       the continuation: token, outcome, clean-up     *)
(*                                                                         *)
(* Next to the two stores of Resume the flow has two more, each with its   *)
(* lock: the endpoint and the outcomes.  Neither a POST nor a poll ever    *)
(* holds two locks, so every access is a step of its own.                  *)
(***************************************************************************)
EXTENDS Resume

CONSTANT Requests        \* POSTs in flight at once

VARIABLES
  ep, minted, lapsed,    \* the endpoint, and the clock as it sees it
  unlinked,              \* the hand-offs whose link could not be minted
  outcome,               \* o.outcomes: what is recorded about a claimed token
  aged,                  \* the tokens whose outcome started a TTL ago
  pc, tok,               \* the POSTs
  runs, result           \* history: restores started, and how they ended

links    == <<ep, minted, lapsed, unlinked>>
outcomes == <<outcome, aged>>
posts    == <<pc, tok, runs, result>>
vars     == <<links, outcomes, posts, resumeVars>>

PostStages == {"idle", "resolved", "claimed", "recorded", "running",
               "finished", "settled"}
Results    == {"succeeded", "failed"}

Init ==
  /\ ep = EmptyEndpoint /\ minted = {} /\ lapsed = {} /\ unlinked = {}
  /\ outcome = [t \in Tokens |-> "none"] /\ aged = {}
  /\ pc = [r \in Requests |-> "idle"] /\ tok \in [Requests -> Tokens]
  /\ runs = [t \in Tokens |-> 0] /\ result = [t \in Tokens |-> "none"]
  /\ ResumeInit

-----------------------------------------------------------------------------
(* Mutant: the handle is handed out before its link is minted. *)
StartUnlinked(t) ==
  /\ t \notin minted \cup unlinked
  /\ BeginHandoff(t)
  /\ UNCHANGED <<links, outcomes, posts>>

(* The start tool.  Nobody knows the token or the handle before it returns, *)
(* so its three stores are filled in one step.  When the page's listener    *)
(* cannot start, Mint returns no URL and the handle stands for no token.    *)
Started == minted \cup unlinked

Start(t) ==
  /\ t \notin Started
  /\ \/ ep' = Minted(ep, t) /\ minted' = minted \cup {t} /\ unlinked' = unlinked
     \/ unlinked' = unlinked \cup {t} /\ UNCHANGED <<ep, minted>>
  /\ BeginHandoff(t)
  /\ UNCHANGED <<lapsed, outcomes, posts>>

(* Clocks: the link's time to live, and the outcome's. *)
Lapse(t) ==
  /\ t \in minted \ lapsed
  /\ lapsed' = lapsed \cup {t}
  /\ UNCHANGED <<ep, minted, unlinked, outcomes, posts, resumeVars>>

Age(t) ==
  /\ outcome[t] # "none" /\ t \notin aged
  /\ aged' = aged \cup {t}
  /\ UNCHANGED <<links, outcome, posts, resumeVars>>

Forsake(t) == Drop(t) /\ UNCHANGED <<links, outcomes, posts>>

(* A GET shows the form of a live link; it resolves the token like a poll.  *)
View(t) ==
  /\ t \in minted
  /\ ep' = Resolved(ep, lapsed, t)
  /\ UNCHANGED <<minted, lapsed, unlinked, outcomes, posts, resumeVars>>

-----------------------------------------------------------------------------
(* Mutants: every old outcome is dropped, or every terminal one. *)
SurvivingYoung(o)   == [t \in Tokens |-> IF t \in aged THEN "none" ELSE o[t]]
SurvivingRunning(o) == [t \in Tokens |-> IF o[t] \in Results THEN "none" ELSE o[t]]

(* pruneOutcomesLocked: terminal outcomes older than the TTL are dropped. *)
Surviving(o) ==
  [t \in Tokens |-> IF t \in aged /\ o[t] \in Results THEN "none" ELSE o[t]]

(* The POST of the one-time page. *)
Move(r, from, to) == pc[r] = from /\ pc' = [pc EXCEPT ![r] = to]

Post(r, t) ==
  /\ t \in minted /\ Reason(ep, lapsed, t) = "live"
  /\ Move(r, "idle", "resolved") /\ tok' = [tok EXCEPT ![r] = t]
  /\ ep' = Resolved(ep, lapsed, t)
  /\ UNCHANGED <<minted, lapsed, unlinked, outcomes, runs, result, resumeVars>>

(* Wrong origin, no runner or no recovery phrase: the token is not consumed. *)
Refuse(r) ==
  /\ Move(r, "resolved", "idle")
  /\ UNCHANGED <<links, outcomes, tok, runs, result, resumeVars>>

(* Mutant: the claim does not look whether the token is still there. *)
ClaimUnchecked(r) ==
  /\ Move(r, "resolved", "claimed")
  /\ ep' = Removed(ep, tok[r])
  /\ UNCHANGED <<minted, lapsed, unlinked, outcomes, tok, runs, result, resumeVars>>

Claim(r) ==
  /\ tok[r] \in ep.items
  /\ Move(r, "resolved", "claimed")
  /\ ep' = Removed(ep, tok[r])
  /\ UNCHANGED <<minted, lapsed, unlinked, outcomes, tok, runs, result, resumeVars>>

(* The link went to a concurrent POST, to a sweep or to an expiry. *)
ClaimLost(r) ==
  /\ tok[r] \notin ep.items
  /\ Move(r, "resolved", "idle")
  /\ UNCHANGED <<links, outcomes, tok, runs, result, resumeVars>>

(* After the claim, under another lock, the restore becomes visible. *)
Record(r) ==
  /\ Move(r, "claimed", "recorded")
  /\ outcome' = [Surviving(outcome) EXCEPT ![tok[r]] = "running"]
  /\ UNCHANGED <<links, aged, tok, runs, result, resumeVars>>

StartRestore(r) ==
  /\ Move(r, "recorded", "running")
  /\ runs' = [runs EXCEPT ![tok[r]] = @ + 1]
  /\ UNCHANGED <<links, outcomes, tok, result, resumeVars>>

(* RunRestore returns: restored, or phrase rejected, approval refused,      *)
(* browser gone.                                                            *)
Finish(r) ==
  /\ Move(r, "running", "finished")
  /\ \E x \in Results : result' = [result EXCEPT ![tok[r]] = x]
  /\ UNCHANGED <<links, outcomes, tok, runs, resumeVars>>

(* Mutant: a failed restore is not settled. *)
SettleSuccess(r) ==
  /\ Move(r, "finished", "settled")
  /\ outcome' = [outcome EXCEPT ![tok[r]] =
                   IF result[tok[r]] = "succeeded" THEN "succeeded" ELSE @]
  /\ UNCHANGED <<links, aged, tok, runs, result, resumeVars>>

(* settle writes through the request's pointer: nobody sees it if the       *)
(* record has left the map.                                                 *)
Settle(r) ==
  /\ Move(r, "finished", "settled")
  /\ outcome' = [outcome EXCEPT ![tok[r]] =
                   IF @ = "none" THEN @ ELSE result[tok[r]]]
  /\ UNCHANGED <<links, aged, tok, runs, result, resumeVars>>

Return(r) ==
  /\ Move(r, "settled", "idle")
  /\ ep' = Removed(ep, tok[r])
  /\ UNCHANGED <<minted, lapsed, unlinked, outcomes, tok, runs, result, resumeVars>>

Serve(r) ==
  \/ Refuse(r) \/ Claim(r) \/ ClaimLost(r) \/ Record(r) \/ StartRestore(r)
  \/ Finish(r) \/ Settle(r) \/ Return(r)

-----------------------------------------------------------------------------
(* Mutant: the poll looks at the token without closing an expired one. *)
PeekToken(p) ==
  LET reason == Reason(ep, lapsed, ask[p])
  IN  /\ \/ reason = "live"    /\ Answer(p, "dispatched", "idle", "pending")
         \/ reason = "expired" /\ Answer(p, "dispatched", "delete", "expired")
         \/ reason \in {"used", "absent"} /\ ReadOn(p, "dispatched", "closed")
      /\ UNCHANGED <<links, outcomes, posts>>

(* tokenDone, first half: the endpoint.  A live link is pending; an expired *)
(* one is decided here, and so is a hand-off without a token.               *)
NoToken(p) ==
  /\ ask[p] \in unlinked /\ Answer(p, "dispatched", "delete", "gone")
  /\ UNCHANGED <<links, outcomes, posts>>

ReadToken(p) ==
  LET reason == Reason(ep, lapsed, ask[p])
  IN  /\ ask[p] \in minted
      /\ \/ reason = "live"    /\ Answer(p, "dispatched", "idle", "pending")
         \/ reason = "expired" /\ Answer(p, "dispatched", "delete", "expired")
         \/ reason \in {"used", "absent"} /\ ReadOn(p, "dispatched", "closed")
      /\ ep' = Resolved(ep, lapsed, ask[p])
      /\ UNCHANGED <<minted, lapsed, unlinked, outcomes, posts>>

(* Mutant: the generic check, "a spent link is done". *)
SpentIsDone(p) ==
  /\ Answer(p, "closed", "forget", "done")
  /\ UNCHANGED <<links, outcomes, posts>>

(* tokenDone, second half: the outcome of a link that is no longer pending. *)
ReadOutcome(p) ==
  LET o == outcome[ask[p]]
  IN  /\ \/ o = "succeeded" /\ Answer(p, "closed", "forget", "done")
         \/ o = "failed"    /\ Answer(p, "closed", "forget", "failed")
         \/ o = "running"   /\ Answer(p, "closed", "idle", "pending")
         \/ o = "none"      /\ Answer(p, "closed", "prune", "gone")
      /\ UNCHANGED <<links, outcomes, posts>>

PruneOutcomes(p) ==
  /\ ReadOn(p, "prune", "delete")
  /\ outcome' = Surviving(outcome)
  /\ UNCHANGED <<links, aged, posts>>

ForgetOutcome(p) ==
  /\ ReadOn(p, "forget", "delete")
  /\ outcome' = [outcome EXCEPT ![ask[p]] = "none"]
  /\ UNCHANGED <<links, aged, posts>>

Continue(p) ==
  \/ NoToken(p) \/ ReadToken(p) \/ ReadOutcome(p) \/ PruneOutcomes(p) \/ ForgetOutcome(p)
  \/ Bookkeeping(p) /\ UNCHANGED <<links, outcomes, posts>>

CallResume(p, t) ==
  t \in Started /\ Poll(p, t) /\ UNCHANGED <<links, outcomes, posts>>

-----------------------------------------------------------------------------
Next ==
  \/ \E t \in Tokens : Start(t) \/ Lapse(t) \/ Age(t) \/ Forsake(t) \/ View(t)
  \/ \E r \in Requests, t \in Tokens : Post(r, t)
  \/ \E r \in Requests : Serve(r)
  \/ \E p \in Pollers, t \in Tokens : CallResume(p, t)
  \/ \E p \in Pollers : Continue(p)

Spec == Init /\ [][Next]_vars

(* The clock runs, a handler that has been called runs to its end (RunRestore *)
(* returns: its context ends with the browser's request), and the agent keeps *)
(* polling every handle it holds, as each pending answer tells it to.         *)
Fairness ==
  /\ \A t \in Tokens : WF_vars(Lapse(t))
  /\ \A r \in Requests : WF_vars(Serve(r))
  /\ \A p \in Pollers : WF_vars(Continue(p))
  /\ \A t \in Tokens : SF_vars(\E p \in Pollers : CallResume(p, t))

FairSpec == Spec /\ Fairness

-----------------------------------------------------------------------------
TypeOK ==
  /\ ep \in EndpointState /\ minted \subseteq Tokens /\ lapsed \subseteq minted
  /\ unlinked \subseteq Tokens \ minted
  /\ outcome \in [Tokens -> Results \cup {"none", "running"}]
  /\ aged \subseteq minted
  /\ pc \in [Requests -> PostStages] /\ tok \in [Requests -> Tokens]
  /\ runs \in [Tokens -> Nat]
  /\ result \in [Tokens -> Results \cup {"none"}]
  /\ ResumeTypeOK /\ handles \cup reg \subseteq Started

(* The agent is told the truth (vault_handoff.go tokenDone: "This prevents  *)
(* the resume continuation from reporting 'the vault has been restored'     *)
(* when RunRestore actually failed"): "done" only of a restore that         *)
(* succeeded, "failed" only of one that failed, and "expired" only of a     *)
(* link whose restore never ran and never will.                             *)
Truthful ==
  \A t \in Tokens :
    /\ "done"    \in told[t] => result[t] = "succeeded"
    /\ "failed"  \in told[t] => result[t] = "failed"
    /\ "expired" \in told[t] =>
         /\ runs[t] = 0 /\ t \notin ep.items
         /\ \A r \in Requests :
              tok[r] = t => pc[r] \in {"idle", "resolved"}

(* While a recorded restore runs, its record stays: pruning and forgetting  *)
(* only ever drop a settled one, however long the restore takes.            *)
InFlightRecorded ==
  \A r \in Requests :
    pc[r] \in {"recorded", "running", "finished"} => outcome[tok[r]] = "running"

(* A settled outcome is not lost before the agent hears of it: it leaves    *)
(* the map only past its TTL or when a poll that read it is cleaning up.    *)
OutcomeNotLost ==
  [][\A t \in Tokens :
       outcome[t] \in Results /\ outcome'[t] = "none" =>
         \/ t \in aged
         \/ \E p \in Pollers :
              ask[p] = t /\ verdict[p] \in {"done", "failed"}]_vars

(* No hand-off is pending forever (vault_handoff.go: "do not leave the agent *)
(* pending forever"): an agent that keeps polling gets a final answer,       *)
(* whatever the human, the clocks and the capacity limits do.                *)
EveryHandoffAnswered == \A t \in Tokens : t \in Started ~> told[t] # {}

(* "Claimed but the restore is still running ... Keep reporting pending     *)
(* ... rather than treating a mid-approval restore as a dead hand-off and   *)
(* steering the agent to restart" (vault_handoff.go:123-126).  Violated: a  *)
(* poll between Claim and Record sees a spent token without an outcome.     *)
InFlight(t) ==
  \E r \in Requests :
    tok[r] = t /\ pc[r] \in {"claimed", "recorded", "running", "finished"}

InFlightIsPending ==
  [][\A p \in Pollers : ReadOutcome(p) /\ InFlight(ask[p]) =>
       verdict'[p] = "pending"]_vars

-----------------------------------------------------------------------------
(***************************************************************************)
(* The flow uses its endpoint as Handoff says a claiming handler does: the *)
(* outcomes, the handles and the registry add nothing to it, and the work  *)
(* behind a link is its restore.  By Handoff's refinement theorem, every   *)
(* restore link is a OneTimeLink.                                          *)
(***************************************************************************)
GenericStage(s) ==
  CASE s \in {"idle", "resolved", "claimed", "running"} -> s
    [] s = "recorded"                -> "claimed"
    [] s \in {"finished", "settled"} -> "running"

Generic == INSTANCE Handoff WITH pc <- [r \in Requests |-> GenericStage(pc[r])]

ImplementsHandoff == Generic!Spec
=============================================================================
