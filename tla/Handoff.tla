------------------------------- MODULE Handoff ------------------------------
(***************************************************************************)
(* One hand-off endpoint in use: browsers that open and submit one-time    *)
(* URLs, pollers that resolve tokens, and the clock.  It is the generic    *)
(* part of every collect-direction flow (internal/mcp/core/handoff/        *)
(* handoff.go: Mint, handle, Resolve, Claim, Remove, Count) together with  *)
(* the order in which a claiming handler uses it: resolve, validate,       *)
(* claim, work, remove.  Each of those is its own critical section, and    *)
(* other requests run between them.                                        *)
(*                                                                         *)
(* A request is a goroutine serving one POST.  GETs and polls resolve a    *)
(* token in one critical section and change nothing else.                  *)
(***************************************************************************)
EXTENDS Endpoint

CONSTANT Requests        \* the POSTs that may be in flight at once

VARIABLES
  ep,       \* the endpoint
  minted,   \* history: the tokens ever handed out
  lapsed,   \* the tokens whose time to live is over
  pc, tok,  \* where each request is, and the token it was sent for
  runs      \* history: how often the work behind a token was started

endpointVars == <<ep, minted, lapsed>>
vars == <<ep, minted, lapsed, pc, tok, runs>>

Stages == {"idle", "resolved", "claimed", "running"}

Init ==
  /\ ep = EmptyEndpoint
  /\ minted = {} /\ lapsed = {}
  /\ pc = [r \in Requests |-> "idle"]
  /\ tok \in [Requests -> Tokens]
  /\ runs = [t \in Tokens |-> 0]

Goto(r, from, to) == pc[r] = from /\ pc' = [pc EXCEPT ![r] = to]

-----------------------------------------------------------------------------
(* Mutant: an identifier is handed out again. *)
MintAgain(t) ==
  /\ ep' = Minted(ep, t)
  /\ minted' = minted \cup {t}
  /\ UNCHANGED <<lapsed, pc, tok, runs>>

(* Mint returns a token that StrongRandomID never returned before. *)
Mint(t) ==
  /\ t \notin minted
  /\ ep' = Minted(ep, t)
  /\ minted' = minted \cup {t}
  /\ UNCHANGED <<lapsed, pc, tok, runs>>

(* The clock passes a token's expiresAt. *)
Lapse(t) ==
  /\ t \in minted \ lapsed
  /\ lapsed' = lapsed \cup {t}
  /\ UNCHANGED <<ep, minted, pc, tok, runs>>

(* Resolve outside a POST: a browser's GET, or tokenDone of a poll. *)
Visit(t) ==
  /\ t \in minted
  /\ ep' = Resolved(ep, lapsed, t)
  /\ UNCHANGED <<minted, lapsed, pc, tok, runs>>

(* Count: the sweep meets the lapsed items in any order. *)
Count ==
  /\ \E seq \in SweepOrders(ep, lapsed) : ep' = Swept(ep, seq)
  /\ UNCHANGED <<minted, lapsed, pc, tok, runs>>

-----------------------------------------------------------------------------
(* handle, POST: only a live token reaches the handler; the item it holds   *)
(* stays in the request's hands after the lock is released.                 *)
Post(r, t) ==
  /\ t \in minted
  /\ Reason(ep, lapsed, t) = "live"
  /\ Goto(r, "idle", "resolved")
  /\ tok' = [tok EXCEPT ![r] = t]
  /\ ep' = Resolved(ep, lapsed, t)
  /\ UNCHANGED <<minted, lapsed, runs>>

(* The origin check fails, or the handler finds the form invalid: nothing   *)
(* is consumed.                                                             *)
Reject(r) ==
  /\ Goto(r, "resolved", "idle")
  /\ UNCHANGED <<endpointVars, tok, runs>>

(* Mutants: the claim does not look whether the token is still there, or    *)
(* leaves it for handle to remove.                                          *)
ClaimUnchecked(r) ==
  /\ Goto(r, "resolved", "claimed")
  /\ ep' = Removed(ep, tok[r])
  /\ UNCHANGED <<minted, lapsed, tok, runs>>

ClaimLeavesItem(r) ==
  /\ tok[r] \in ep.items
  /\ Goto(r, "resolved", "claimed")
  /\ UNCHANGED <<endpointVars, tok, runs>>

(* Claim succeeds: the token is taken whether or not it lapsed meanwhile. *)
Claim(r) ==
  /\ tok[r] \in ep.items
  /\ Goto(r, "resolved", "claimed")
  /\ ep' = Removed(ep, tok[r])
  /\ UNCHANGED <<minted, lapsed, tok, runs>>

(* Claim fails: somebody else closed the token after this request saw it. *)
ClaimLost(r) ==
  /\ tok[r] \notin ep.items
  /\ Goto(r, "resolved", "idle")
  /\ UNCHANGED <<endpointVars, tok, runs>>

(* The handler starts the work the token stands for. *)
Run(r) ==
  /\ Goto(r, "claimed", "running")
  /\ runs' = [runs EXCEPT ![tok[r]] = @ + 1]
  /\ UNCHANGED <<endpointVars, tok>>

(* The handler returns consumed = true and handle calls Remove. *)
Return(r) ==
  /\ Goto(r, "running", "idle")
  /\ ep' = Removed(ep, tok[r])
  /\ UNCHANGED <<minted, lapsed, tok, runs>>

Submit(r) == Reject(r) \/ Claim(r) \/ ClaimLost(r) \/ Run(r) \/ Return(r)

Next ==
  \/ \E t \in Tokens : Mint(t) \/ Lapse(t) \/ Visit(t)
  \/ Count
  \/ \E r \in Requests, t \in Tokens : Post(r, t)
  \/ \E r \in Requests : Submit(r)

Spec == Init /\ [][Next]_vars

-----------------------------------------------------------------------------
TypeOK ==
  /\ ep \in EndpointState
  /\ minted \subseteq Tokens
  /\ lapsed \subseteq minted
  /\ pc \in [Requests -> Stages]
  /\ tok \in [Requests -> Tokens]
  /\ runs \in [Tokens -> Nat]

(* The endpoint is consistent after every method (handoff.go: "The order    *)
(* slice is kept in sync with eviction", "bounds the spent-tombstone map"). *)
EndpointConsistent == ConsistentEndpoint(ep)

(* Claim's comment: "a concurrent or repeated call cannot re-resolve the    *)
(* same token": however many browsers submit one link, and whenever it is   *)
(* evicted from the tombstones, the work behind it runs at most once.       *)
RunsAtMostOnce == \A t \in Tokens : runs[t] <= 1

(* A request that got past Claim holds its link alone, and the link is      *)
(* closed before the work starts: what makes the work single-use, although  *)
(* any number of requests may have resolved the link as live.               *)
Holds(r, t) == pc[r] \in {"claimed", "running"} /\ tok[r] = t

ExclusiveClaim ==
  \A r, s \in Requests, t \in Tokens :
    Holds(r, t) => t \notin ep.items /\ (Holds(s, t) => r = s)

(* Tombstones are forgotten oldest first, and only while the map is at its  *)
(* cap (PruneSpentLocked: "a spent link's explanation persists as long as   *)
(* it is within retention").                                                *)
Position(t) == CHOOSE i \in DOMAIN ep.order : ep.order[i] = t

ForgetsOldest ==
  LET gone == ep.spent \ ep'.spent
  IN  /\ gone # {} => Cardinality(ep'.spent) >= MaxSpentTombstones
      /\ \A t \in gone, u \in ep.spent \cap ep'.spent : Position(t) < Position(u)

OldestFirst == [][ForgetsOldest]_vars

(* The inductive invariant behind RunsAtMostOnce: the claim is exclusive,   *)
(* and the work of a link that is unminted, open or freshly claimed has not *)
(* run yet.                                                                 *)
LinkInv ==
  /\ ep.items \subseteq minted /\ ep.spent \subseteq minted
  /\ IsFiniteSet(ep.items)
  /\ \A r \in Requests : pc[r] # "idle" => tok[r] \in minted
  /\ ExclusiveClaim
  /\ \A t \in Tokens : t \in ep.items \/ t \notin minted => runs[t] = 0
  /\ \A r \in Requests : /\ pc[r] = "claimed" => runs[tok[r]] = 0
                         /\ pc[r] = "running" => runs[tok[r]] = 1
  /\ RunsAtMostOnce

HandoffInv == TypeOK /\ EndpointConsistent /\ LinkInv

-----------------------------------------------------------------------------
(***************************************************************************)
(* The endpoint implements the one-time link.  A token that is no longer   *)
(* pending and that nobody claimed is an expired one.                      *)
(***************************************************************************)
LinkOf(t) ==
  CASE t \notin minted                -> "unminted"
    [] t \in ep.items                 -> "open"
    [] t \in minted \ ep.items        ->
         IF runs[t] > 0 THEN "ran"
         ELSE IF \E r \in Requests : Holds(r, t) THEN "taken"
         ELSE "expired"

Link == INSTANCE OneTimeLink WITH link <- [t \in Tokens |-> LinkOf(t)]

ImplementsOneTimeLink == Link!Spec
=============================================================================
