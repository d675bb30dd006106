---------------------------- MODULE AccountChange ---------------------------
(***************************************************************************)
(* The account change page (internal/mcp/auth/account_oob.go): a one-time  *)
(* link under which a human changes the account's password or email.  The  *)
(* page's POST updates the account first and claims the link afterwards;   *)
(* the outcome is recorded for a status helper (tokenDone, forgetOutcome)  *)
(* that nothing in the program calls yet.                                  *)
(***************************************************************************)
EXTENDS Endpoint

CONSTANT Requests        \* POSTs in flight at once

VARIABLES
  ep, minted, lapsed,    \* the endpoint
  pc, tok,               \* the POSTs
  reply,                 \* what the account service answered each POST
  outcome, aged,         \* c.outcomes, and those that started a TTL ago
  changes, refusals      \* history: updates that succeeded and that failed

links    == <<ep, minted, lapsed>>
outcomes == <<outcome, aged>>
history  == <<changes, refusals>>
vars     == <<links, pc, tok, reply, outcomes, history>>

Stages  == {"idle", "resolved", "updated", "claimed", "recorded", "settled"}
Results == {"succeeded", "failed"}

Init ==
  /\ ep = EmptyEndpoint /\ minted = {} /\ lapsed = {}
  /\ pc = [r \in Requests |-> "idle"] /\ tok \in [Requests -> Tokens]
  /\ reply = [r \in Requests |-> "none"]
  /\ outcome = [t \in Tokens |-> "none"] /\ aged = {}
  /\ changes = [t \in Tokens |-> 0] /\ refusals = [t \in Tokens |-> 0]

Goto(r, from, to) == pc[r] = from /\ pc' = [pc EXCEPT ![r] = to]

-----------------------------------------------------------------------------
Register(t) ==
  /\ t \notin minted
  /\ ep' = Minted(ep, t) /\ minted' = minted \cup {t}
  /\ UNCHANGED <<lapsed, pc, tok, reply, outcomes, history>>

Lapse(t) ==
  /\ t \in minted \ lapsed /\ lapsed' = lapsed \cup {t}
  /\ UNCHANGED <<ep, minted, pc, tok, reply, outcomes, history>>

Age(t) ==
  /\ outcome[t] # "none" /\ t \notin aged /\ aged' = aged \cup {t}
  /\ UNCHANGED <<links, pc, tok, reply, outcome, history>>

View(t) ==
  /\ t \in minted /\ ep' = Resolved(ep, lapsed, t)
  /\ UNCHANGED <<minted, lapsed, pc, tok, reply, outcomes, history>>

-----------------------------------------------------------------------------
Post(r, t) ==
  /\ t \in minted /\ Reason(ep, lapsed, t) = "live"
  /\ Goto(r, "idle", "resolved") /\ tok' = [tok EXCEPT ![r] = t]
  /\ ep' = Resolved(ep, lapsed, t)
  /\ UNCHANGED <<minted, lapsed, reply, outcomes, history>>

(* Mutant: an invalid form consumes the link. *)
RefuseConsumes(r) ==
  /\ Goto(r, "resolved", "idle")
  /\ ep' = Removed(ep, tok[r])
  /\ UNCHANGED <<minted, lapsed, tok, reply, outcomes, history>>

(* Wrong origin or csrf value, no service, or an invalid form.              *)
Refuse(r) ==
  /\ Goto(r, "resolved", "idle")
  /\ UNCHANGED <<links, tok, reply, outcomes, history>>

(* Mutant: the handler does not wait for the account service. *)
UpdateUnawaited(r) ==
  /\ Goto(r, "resolved", "updated")
  /\ UNCHANGED <<links, tok, reply, outcomes, history>>

(* UpdatePassword or UpdateEmail: the account changes, or it does not.      *)
Update(r) ==
  /\ Goto(r, "resolved", "updated")
  /\ \/ reply' = [reply EXCEPT ![r] = "succeeded"]
        /\ changes' = [changes EXCEPT ![tok[r]] = @ + 1] /\ refusals' = refusals
     \/ reply' = [reply EXCEPT ![r] = "failed"]
        /\ refusals' = [refusals EXCEPT ![tok[r]] = @ + 1] /\ changes' = changes
  /\ UNCHANGED <<links, tok, outcomes>>

Claim(r) ==
  /\ tok[r] \in ep.items
  /\ Goto(r, "updated", "claimed")
  /\ ep' = Removed(ep, tok[r])
  /\ UNCHANGED <<minted, lapsed, tok, reply, outcomes, history>>

(* The page says that the link was already used, whatever the reply was.    *)
ClaimLost(r) ==
  /\ tok[r] \notin ep.items
  /\ Goto(r, "updated", "idle")
  /\ UNCHANGED <<links, tok, reply, outcomes, history>>

Record(r) ==
  /\ Goto(r, "claimed", "recorded")
  /\ outcome' = [t \in Tokens |->
       IF t = tok[r] THEN "unsettled"
       ELSE IF t \in aged /\ outcome[t] \in Results THEN "none" ELSE outcome[t]]
  /\ UNCHANGED <<links, tok, reply, aged, history>>

(* Mutant: a failed update is settled as a success. *)
SettleSuccess(r) ==
  /\ Goto(r, "recorded", "settled")
  /\ outcome' = [outcome EXCEPT ![tok[r]] = "succeeded"]
  /\ UNCHANGED <<links, tok, reply, aged, history>>

Settle(r) ==
  /\ Goto(r, "recorded", "settled")
  /\ outcome' = [outcome EXCEPT ![tok[r]] =
                   IF @ = "none" THEN @ ELSE reply[r]]
  /\ UNCHANGED <<links, tok, reply, aged, history>>

Return(r) ==
  /\ Goto(r, "settled", "idle")
  /\ ep' = Removed(ep, tok[r])
  /\ UNCHANGED <<minted, lapsed, tok, reply, outcomes, history>>

Serve(r) ==
  \/ Refuse(r) \/ Update(r) \/ Claim(r) \/ ClaimLost(r)
  \/ Record(r) \/ Settle(r) \/ Return(r)

Next ==
  \/ \E t \in Tokens : Register(t) \/ Lapse(t) \/ Age(t) \/ View(t)
  \/ \E r \in Requests, t \in Tokens : Post(r, t)
  \/ \E r \in Requests : Serve(r)

Spec == Init /\ [][Next]_vars

-----------------------------------------------------------------------------
TypeOK ==
  /\ ep \in EndpointState /\ minted \subseteq Tokens /\ lapsed \subseteq minted
  /\ pc \in [Requests -> Stages] /\ tok \in [Requests -> Tokens]
  /\ reply \in [Requests -> Results \cup {"none"}]
  /\ \A r \in Requests : pc[r] \notin {"idle", "resolved"} => reply[r] \in Results
  /\ outcome \in [Tokens -> Results \cup {"none", "unsettled"}]
  /\ aged \subseteq minted
  /\ changes \in [Tokens -> Nat] /\ refusals \in [Tokens -> Nat]

(* "Validation failures do NOT consume the token: nothing ran, so the       *)
(* one-time URL stays valid for the human to retry": unless it lapsed, a    *)
(* link is closed only after the account service was asked.                 *)
ClosedMeansAsked ==
  \A t \in minted \ lapsed :
    t \in ep.items \/ changes[t] + refusals[t] > 0

(* A recorded outcome is one the account service gave, however many POSTs   *)
(* ran and whichever of them won the claim.                                 *)
OutcomeWasGiven ==
  \A t \in Tokens :
    /\ outcome[t] = "succeeded" => changes[t] > 0
    /\ outcome[t] = "failed"    => refusals[t] > 0

(* "Claim the token atomically BEFORE the blocking update so a concurrent   *)
(* or repeated POST cannot run the change twice" (account_oob.go:211-212).  *)
(* Violated: the claim follows the update, so every POST that resolved the  *)
(* link in time runs its change, and only the answers are told apart.       *)
ChangeRunsOnce == \A t \in Tokens : changes[t] + refusals[t] <= 1
=============================================================================
