----------------------------- MODULE VaultCreate ----------------------------
(***************************************************************************)
(* The vault create hand-off (internal/mcp/oob): like the restore, but the *)
(* page generates the recovery seed, so two one-time links follow each     *)
(* other.                                                                  *)
(*                                                                         *)
(*   create_oob.go      the create page: claim, record, create, mint the   *)
(*                      seed link, settle                                  *)
(*   seed_drop.go       the seed page: the human reads the seed and        *)
(*                      confirms, which destroys the copy kept at rest     *)
(*   vault_handoff.go   the continuation, which reads both links           *)
(*                                                                         *)
(* The seed link of the vault that create link t makes is called t as      *)
(* well, in an endpoint of its own.  Every create is for a profile of its  *)
(* own; the vault and its copy at rest are external (RunCreate,            *)
(* MarkSeedRetrieved).                                                     *)
(***************************************************************************)
EXTENDS Resume

CONSTANTS Requests,      \* POSTs of the create page in flight at once
          Confirmations  \* POSTs of the seed page in flight at once

VARIABLES
  ep, minted, lapsed,             \* the create endpoint
  unlinked,                       \* the hand-offs whose link was not minted
  sd, seedMinted, seedLapsed,     \* the seed endpoint
  outcome, aged,                  \* c.outcomes
  linked,                         \* the seed links shown to the human
  pc, tok,                        \* the POSTs of the create page
  at, seed,                       \* the POSTs of the seed page
  runs, result,                   \* history: creates started, how they ended
  confirmed                       \* external: the copies at rest destroyed

links    == <<ep, minted, lapsed, unlinked>>
seeds    == <<sd, seedMinted, seedLapsed>>
outcomes == <<outcome, aged, linked>>
history  == <<runs, result, confirmed>>
seedPosts == <<at, seed>>
reqs     == <<pc, tok, seedPosts>>
vars     == <<links, seeds, outcomes, reqs, history, resumeVars>>

CreateStages == {"idle", "resolved", "claimed", "recorded", "running",
                 "created", "failed", "delivered", "settled"}
SeedStages   == {"idle", "reading", "confirmed"}
Results      == {"active", "failed"}

Init ==
  /\ ep = EmptyEndpoint /\ minted = {} /\ lapsed = {} /\ unlinked = {}
  /\ sd = EmptyEndpoint /\ seedMinted = {} /\ seedLapsed = {}
  /\ outcome = [t \in Tokens |-> "none"] /\ aged = {} /\ linked = {}
  /\ pc = [r \in Requests |-> "idle"] /\ tok \in [Requests -> Tokens]
  /\ at = [c \in Confirmations |-> "idle"] /\ seed \in [Confirmations -> Tokens]
  /\ runs = [t \in Tokens |-> 0] /\ result = [t \in Tokens |-> "none"]
  /\ confirmed = {}
  /\ ResumeInit

-----------------------------------------------------------------------------
Started == minted \cup unlinked

Start(t) ==
  /\ t \notin Started
  /\ \/ ep' = Minted(ep, t) /\ minted' = minted \cup {t} /\ unlinked' = unlinked
     \/ unlinked' = unlinked \cup {t} /\ UNCHANGED <<ep, minted>>
  /\ BeginHandoff(t)
  /\ UNCHANGED <<lapsed, seeds, outcomes, reqs, history>>

Lapse(t) ==
  /\ \/ t \in minted \ lapsed /\ lapsed' = lapsed \cup {t}
        /\ seedLapsed' = seedLapsed
     \/ t \in seedMinted \ seedLapsed /\ seedLapsed' = seedLapsed \cup {t}
        /\ lapsed' = lapsed
  /\ UNCHANGED <<ep, minted, unlinked, sd, seedMinted, outcomes, reqs, history, resumeVars>>

Age(t) ==
  /\ outcome[t] # "none" /\ t \notin aged
  /\ aged' = aged \cup {t}
  /\ UNCHANGED <<links, seeds, outcome, linked, reqs, history, resumeVars>>

Forsake(t) ==
  Drop(t) /\ UNCHANGED <<links, seeds, outcomes, reqs, history>>

(* GETs of the create page, and of the seed page once its link is shown.    *)
View(t) ==
  /\ \/ t \in minted /\ ep' = Resolved(ep, lapsed, t) /\ sd' = sd
     \/ t \in linked /\ sd' = Resolved(sd, seedLapsed, t) /\ ep' = ep
  /\ UNCHANGED <<minted, lapsed, unlinked, seedMinted, seedLapsed, outcomes, reqs,
                 history, resumeVars>>

-----------------------------------------------------------------------------
Surviving(o) ==
  [t \in Tokens |-> IF t \in aged /\ o[t] \in Results THEN "none" ELSE o[t]]

Move(r, from, to) == pc[r] = from /\ pc' = [pc EXCEPT ![r] = to]

(* The POST of the create page. *)
Post(r, t) ==
  /\ t \in minted /\ Reason(ep, lapsed, t) = "live"
  /\ Move(r, "idle", "resolved") /\ tok' = [tok EXCEPT ![r] = t]
  /\ ep' = Resolved(ep, lapsed, t)
  /\ UNCHANGED <<minted, lapsed, unlinked, seeds, outcomes, seedPosts, history, resumeVars>>

(* Wrong origin or no runner: not consumed.                                 *)
Refuse(r) ==
  /\ Move(r, "resolved", "idle")
  /\ UNCHANGED <<links, seeds, outcomes, tok, seedPosts, history, resumeVars>>

(* Mutant: the claim does not look whether the token is still there. *)
ClaimUnchecked(r) ==
  /\ Move(r, "resolved", "claimed")
  /\ ep' = Removed(ep, tok[r])
  /\ UNCHANGED <<minted, lapsed, unlinked, seeds, outcomes, tok, seedPosts, history, resumeVars>>

Claim(r) ==
  /\ tok[r] \in ep.items
  /\ Move(r, "resolved", "claimed")
  /\ ep' = Removed(ep, tok[r])
  /\ UNCHANGED <<minted, lapsed, unlinked, seeds, outcomes, tok, seedPosts, history, resumeVars>>

ClaimLost(r) ==
  /\ tok[r] \notin ep.items
  /\ Move(r, "resolved", "idle")
  /\ UNCHANGED <<links, seeds, outcomes, tok, seedPosts, history, resumeVars>>

Record(r) ==
  /\ Move(r, "claimed", "recorded")
  /\ outcome' = [Surviving(outcome) EXCEPT ![tok[r]] = "creating"]
  /\ UNCHANGED <<links, seeds, aged, linked, tok, seedPosts, history, resumeVars>>

StartCreate(r) ==
  /\ Move(r, "recorded", "running")
  /\ runs' = [runs EXCEPT ![tok[r]] = @ + 1]
  /\ UNCHANGED <<links, seeds, outcomes, tok, seedPosts, result, confirmed, resumeVars>>

(* RunCreate returns: the vault is active and its seed is at rest, or not. *)
Finish(r) ==
  /\ \/ Move(r, "running", "created") /\ result' = [result EXCEPT ![tok[r]] = "active"]
     \/ Move(r, "running", "failed")  /\ result' = [result EXCEPT ![tok[r]] = "failed"]
  /\ UNCHANGED <<links, seeds, outcomes, tok, seedPosts, runs, confirmed, resumeVars>>

(* seedDrop.Register; it returns no link when its listener cannot start.    *)
Deliver(r) ==
  /\ Move(r, "created", "delivered")
  /\ \/ sd' = Minted(sd, tok[r]) /\ seedMinted' = seedMinted \cup {tok[r]}
     \/ UNCHANGED <<sd, seedMinted>>
  /\ UNCHANGED <<links, seedLapsed, outcomes, tok, seedPosts, history, resumeVars>>

(* Mutants: a link is shown even if none was minted; a failure is not       *)
(* settled.                                                                 *)
SettleAlwaysLinked(r) ==
  /\ \/ Move(r, "delivered", "settled") /\ linked' = linked \cup {tok[r]}
     \/ Move(r, "failed", "settled")    /\ linked' = linked
  /\ outcome' = [outcome EXCEPT ![tok[r]] = result[tok[r]]]
  /\ UNCHANGED <<links, seeds, aged, tok, seedPosts, history, resumeVars>>

SettleActive(r) ==
  /\ \/ Move(r, "delivered", "settled") /\ linked' = linked \cup (seedMinted \cap {tok[r]})
        /\ outcome' = [outcome EXCEPT ![tok[r]] = "active"]
     \/ Move(r, "failed", "settled") /\ UNCHANGED <<linked, outcome>>
  /\ UNCHANGED <<links, seeds, aged, tok, seedPosts, history, resumeVars>>

(* settle, and the seed link is streamed to the page.                       *)
Settle(r) ==
  /\ \/ Move(r, "delivered", "settled") /\ linked' = linked \cup (seedMinted \cap {tok[r]})
     \/ Move(r, "failed", "settled")    /\ linked' = linked
  /\ outcome' = [outcome EXCEPT ![tok[r]] =
                   IF @ = "none" THEN @ ELSE result[tok[r]]]
  /\ UNCHANGED <<links, seeds, aged, tok, seedPosts, history, resumeVars>>

Return(r) ==
  /\ Move(r, "settled", "idle")
  /\ ep' = Removed(ep, tok[r])
  /\ UNCHANGED <<minted, lapsed, unlinked, seeds, outcomes, tok, seedPosts, history, resumeVars>>

Serve(r) ==
  \/ Refuse(r) \/ Claim(r) \/ ClaimLost(r) \/ Record(r) \/ StartCreate(r)
  \/ Finish(r) \/ Deliver(r) \/ Settle(r) \/ Return(r)

-----------------------------------------------------------------------------
(* The POST of the seed page.  It is not claimed: concurrent confirmations  *)
(* all reach MarkSeedRetrieved.                                             *)
Go(c, from, to) == at[c] = from /\ at' = [at EXCEPT ![c] = to]

PostSeed(c, t) ==
  /\ t \in linked /\ Reason(sd, seedLapsed, t) = "live"
  /\ Go(c, "idle", "reading") /\ seed' = [seed EXCEPT ![c] = t]
  /\ sd' = Resolved(sd, seedLapsed, t)
  /\ UNCHANGED <<links, seedMinted, seedLapsed, outcomes, pc, tok, history, resumeVars>>

(* MarkSeedRetrieved: the copy at rest is gone ... *)
Confirm(c) ==
  /\ Go(c, "reading", "confirmed")
  /\ confirmed' = confirmed \cup {seed[c]}
  /\ UNCHANGED <<links, seeds, outcomes, pc, tok, seed, runs, result, resumeVars>>

(* Mutant: the link is consumed although the copy could not be removed. *)
RemovalFailedConsumes(c) ==
  /\ Go(c, "reading", "confirmed")
  /\ UNCHANGED <<links, seeds, outcomes, pc, tok, seed, history, resumeVars>>

(* ... or it could not be removed (or the origin was wrong), and the link   *)
(* stays live for a retry.                                                  *)
RemovalFailed(c) ==
  /\ Go(c, "reading", "idle")
  /\ UNCHANGED <<links, seeds, outcomes, pc, tok, seed, history, resumeVars>>

ReturnSeed(c) ==
  /\ Go(c, "confirmed", "idle")
  /\ sd' = Removed(sd, seed[c])
  /\ UNCHANGED <<links, seedMinted, seedLapsed, outcomes, pc, tok, seed, history, resumeVars>>

ServeSeed(c) == Confirm(c) \/ RemovalFailed(c) \/ ReturnSeed(c)

-----------------------------------------------------------------------------
(* tokenDone: the create link, then the outcome, then the seed link.        *)
NoToken(p) ==
  /\ ask[p] \in unlinked /\ Answer(p, "dispatched", "delete", "gone")
  /\ UNCHANGED <<links, seeds, outcomes, reqs, history>>

ReadToken(p) ==
  LET reason == Reason(ep, lapsed, ask[p])
  IN  /\ ask[p] \in minted
      /\ \/ reason = "live"    /\ Answer(p, "dispatched", "idle", "pending")
         \/ reason = "expired" /\ Answer(p, "dispatched", "delete", "expired")
         \/ reason \in {"used", "absent"} /\ ReadOn(p, "dispatched", "closed")
      /\ ep' = Resolved(ep, lapsed, ask[p])
      /\ UNCHANGED <<minted, lapsed, unlinked, seeds, outcomes, reqs, history>>

ReadOutcome(p) ==
  LET o == outcome[ask[p]]
  IN  /\ \/ o = "active"   /\ ReadOn(p, "closed", "seed")
         \/ o = "failed"   /\ Answer(p, "closed", "forget", "failed")
         \/ o = "creating" /\ Answer(p, "closed", "idle", "pending")
         \/ o = "none"     /\ Answer(p, "closed", "prune", "gone")
      /\ UNCHANGED <<links, seeds, outcomes, reqs, history>>

(* Mutant: an active vault is done, wherever its seed is. *)
ActiveIsDone(p) ==
  /\ Answer(p, "seed", "forget", "done")
  /\ UNCHANGED <<links, seeds, outcomes, reqs, history>>

(* SeedDrop.tokenDone answers for an empty seed token without a look at the *)
(* endpoint; a token the endpoint no longer knows counts as pending.        *)
ReadSeed(p) ==
  LET t      == ask[p]
      reason == IF t \in linked THEN Reason(sd, seedLapsed, t) ELSE "absent"
  IN  /\ \/ reason = "used"    /\ Answer(p, "seed", "forget", "done")
         \/ reason = "expired" /\ Answer(p, "seed", "delete", "expired")
         \/ reason \in {"live", "absent"} /\ Answer(p, "seed", "idle", "pending")
      /\ sd' = IF t \in linked THEN Resolved(sd, seedLapsed, t) ELSE sd
      /\ UNCHANGED <<links, seedMinted, seedLapsed, outcomes, reqs, history>>

PruneOutcomes(p) ==
  /\ ReadOn(p, "prune", "delete")
  /\ outcome' = Surviving(outcome)
  /\ UNCHANGED <<links, seeds, aged, linked, reqs, history>>

ForgetOutcome(p) ==
  /\ ReadOn(p, "forget", "delete")
  /\ outcome' = [outcome EXCEPT ![ask[p]] = "none"]
  /\ UNCHANGED <<links, seeds, aged, linked, reqs, history>>

Continue(p) ==
  \/ NoToken(p) \/ ReadToken(p) \/ ReadOutcome(p) \/ ReadSeed(p)
  \/ PruneOutcomes(p) \/ ForgetOutcome(p)
  \/ Bookkeeping(p) /\ UNCHANGED <<links, seeds, outcomes, reqs, history>>

CallResume(p, t) ==
  /\ t \in Started /\ Poll(p, t)
  /\ UNCHANGED <<links, seeds, outcomes, reqs, history>>

-----------------------------------------------------------------------------
Next ==
  \/ \E t \in Tokens : Start(t) \/ Lapse(t) \/ Age(t) \/ Forsake(t) \/ View(t)
  \/ \E r \in Requests, t \in Tokens : Post(r, t)
  \/ \E r \in Requests : Serve(r)
  \/ \E c \in Confirmations, t \in Tokens : PostSeed(c, t)
  \/ \E c \in Confirmations : ServeSeed(c)
  \/ \E p \in Pollers, t \in Tokens : CallResume(p, t)
  \/ \E p \in Pollers : Continue(p)

Spec == Init /\ [][Next]_vars

(* As in VaultRestore: clocks run, called handlers run to their end, the    *)
(* agent keeps polling.                                                     *)
Fairness ==
  /\ \A t \in Tokens : WF_vars(Lapse(t))
  /\ \A r \in Requests : WF_vars(Serve(r))
  /\ \A c \in Confirmations : WF_vars(ServeSeed(c))
  /\ \A p \in Pollers : WF_vars(Continue(p))
  /\ \A t \in Tokens : SF_vars(\E p \in Pollers : CallResume(p, t))

FairSpec == Spec /\ Fairness

-----------------------------------------------------------------------------
TypeOK ==
  /\ ep \in EndpointState /\ minted \subseteq Tokens /\ lapsed \subseteq minted
  /\ unlinked \subseteq Tokens \ minted
  /\ sd \in EndpointState /\ seedMinted \subseteq minted
  /\ seedLapsed \subseteq seedMinted /\ linked \subseteq seedMinted
  /\ outcome \in [Tokens -> Results \cup {"none", "creating"}]
  /\ aged \subseteq minted
  /\ pc \in [Requests -> CreateStages] /\ tok \in [Requests -> Tokens]
  /\ at \in [Confirmations -> SeedStages] /\ seed \in [Confirmations -> Tokens]
  /\ runs \in [Tokens -> Nat] /\ result \in [Tokens -> Results \cup {"none"}]
  /\ confirmed \subseteq linked
  /\ ResumeTypeOK

(* What the agent is told of a create (create_oob.go tokenDone: "an         *)
(* unfinished create is never reported as done"): "done" only once the      *)
(* vault is active and its seed link is closed, "failed" only of a failed   *)
(* create, and "expired" only if nothing was ever created or the seed link  *)
(* itself lapsed.                                                           *)
Truthful ==
  \A t \in Tokens :
    /\ "done" \in told[t] =>
         result[t] = "active" /\ t \in linked /\ t \notin sd.items
    /\ "failed" \in told[t] => result[t] = "failed"
    /\ "expired" \in told[t] =>
         \/ runs[t] = 0 /\ t \notin ep.items
         \/ t \in seedLapsed /\ t \notin sd.items

(* The human is never stranded (seed_drop.go: "Keep the token live so they  *)
(* can retry ... rather than consuming it and stranding them with no way    *)
(* back"): until it lapses, the seed link closes only once the copy at rest *)
(* is destroyed on the human's word, however confirmations race.            *)
NotStranded ==
  \A t \in linked : t \in sd.items \/ t \in confirmed \/ t \in seedLapsed

(* The agent that keeps polling gets a final answer, with one exception:    *)
(* the vault is active and its seed link cannot be resolved, because it was *)
(* never minted or its tombstone was evicted.  Such a hand-off is pending   *)
(* for good, although the seed's tokenDone leaves it to its caller not to   *)
(* report a token that no longer resolves as "pending forever"              *)
(* (vault_handoff.go:73-74).                                                *)
SeedLost(t) ==
  outcome[t] = "active" /\ (t \notin linked \/ Reason(sd, seedLapsed, t) = "absent")

AnsweredOrSeedLost ==
  \A t \in Tokens : t \in Started ~> told[t] # {} \/ SeedLost(t)

(* "It reports pending until the human has ... retrieved the freshly        *)
(* generated recovery seed, then a terminal done result" and "a             *)
(* stale/failed hand-off is never reported as done" (vault_handoff.go:      *)
(* 167-173).  Violated: a seed link that lapsed is closed by the human's    *)
(* late visit, and from then on resolves as used.                           *)
DoneMeansRetrieved == \A t \in Tokens : "done" \in told[t] => t \in confirmed

-----------------------------------------------------------------------------
(* The create link is used as Handoff says; the seed link is not (it has no *)
(* claim), so nothing of the kind is said of it.                            *)
GenericStage(s) ==
  CASE s \in {"idle", "resolved", "claimed", "running"}        -> s
    [] s = "recorded"                                          -> "claimed"
    [] s \in {"created", "failed", "delivered", "settled"}     -> "running"

Generic == INSTANCE Handoff WITH pc <- [r \in Requests |-> GenericStage(pc[r])]

ImplementsHandoff == Generic!Spec
=============================================================================
