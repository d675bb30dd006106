------------------------------ MODULE Endpoint ------------------------------
(***************************************************************************)
(* The state of one hand-off endpoint (internal/mcp/core/handoff/          *)
(* handoff.go) and what each of its critical sections does to it.          *)
(*                                                                         *)
(* Every method below runs under the endpoint's mutex h.mu, so a method is *)
(* one operator from an endpoint state to the next.  The concrete hand-off *)
(* flows (restore, create, seed drop, account change) embed one endpoint   *)
(* each; their modules compose these operators with their own state.       *)
(*                                                                         *)
(*   items  the pending tokens (h.items; payloads are left to the flows)   *)
(*   spent  the tombstones (keys of h.spent)                               *)
(*   order  the tombstones oldest first (h.spentOrder)                     *)
(*                                                                         *)
(* The clock is the parameter `lapsed': the tokens whose expiresAt is in   *)
(* the past.                                                               *)
(***************************************************************************)
EXTENDS Integers, Sequences, FiniteSets, Functions

CONSTANTS Tokens,              \* the identifiers StrongRandomID may return
          MaxSpentTombstones   \* cap on the tombstones kept (10000 in the code)

ASSUME TombstoneCap == MaxSpentTombstones \in Nat

EndpointState ==
  [items : SUBSET Tokens, spent : SUBSET Tokens, order : Seq(Tokens)]

EmptyEndpoint == [items |-> {}, spent |-> {}, order |-> << >>]

-----------------------------------------------------------------------------
(* Mint: a fresh token becomes pending. *)
Minted(e, t) == [e EXCEPT !.items = @ \cup {t}]

(* Mutant: without the test for an existing tombstone. *)
MarkSpentTwice(e, t) == [e EXCEPT !.spent = @ \cup {t}, !.order = Append(@, t)]

(* MarkSpentLocked: the tombstone goes to the tail of the FIFO, once. *)
MarkSpent(e, t) ==
  IF t \in e.spent
    THEN e
    ELSE [e EXCEPT !.spent = @ \cup {t}, !.order = Append(@, t)]

(* delete(h.items, t) followed by MarkSpentLocked(t). *)
Taken(e, t) == MarkSpent([e EXCEPT !.items = @ \ {t}], t)

(* How many times the loop of PruneSpentLocked runs: every iteration drops *)
(* the head of the FIFO from the map, until the map is within the cap.     *)
Overflow(e) ==
  IF Cardinality(e.spent) > MaxSpentTombstones
    THEN Cardinality(e.spent) - MaxSpentTombstones
    ELSE 0

(* Mutant: the youngest tombstones are forgotten. *)
PrunedNewest(e) ==
  LET kept == Len(e.order) - Overflow(e)
  IN  [items |-> e.items,
       spent |-> {e.order[i] : i \in 1 .. kept},
       order |-> SubSeq(e.order, 1, kept)]

(* PruneSpentLocked: the Overflow(e) oldest tombstones are forgotten. *)
Pruned(e) ==
  LET n == Overflow(e)
  IN  [items |-> e.items,
       spent |-> e.spent \ {e.order[i] : i \in 1 .. n},
       order |-> SubSeq(e.order, n + 1, Len(e.order))]

-----------------------------------------------------------------------------
(* Resolve(t): what the caller is told about t. The pruning comes first, so *)
(* a tombstone over the cap already answers "absent"; a tombstone answers   *)
(* "used" whatever made the token spent.                                    *)
Reason(e, lapsed, t) ==
  IF t \in Pruned(e).spent THEN "used"
  ELSE IF t \notin e.items THEN "absent"
  ELSE IF t \in lapsed     THEN "expired" ELSE "live"

(* Resolve(t): the endpoint afterwards. Only a lapsed item is closed, and   *)
(* its tombstone is added after the pruning.                                *)
Resolved(e, lapsed, t) ==
  IF Reason(e, lapsed, t) = "expired" THEN Taken(Pruned(e), t) ELSE Pruned(e)

(* Remove(t), and the state change of a successful Claim(t). *)
Removed(e, t) == Pruned(Taken(e, t))

(* pruneExpired (run by Count): every lapsed item is closed, in the order   *)
(* in which the map iteration happens to meet them.                         *)
Lapsed(e, lapsed) == e.items \cap lapsed

SweepOrders(e, lapsed) ==
  {seq \in [1 .. Cardinality(Lapsed(e, lapsed)) -> Lapsed(e, lapsed)] :
     Range(seq) = Lapsed(e, lapsed)}

Swept(e, seq) ==
  Pruned([items |-> e.items \ Range(seq),
          spent |-> e.spent \cup Range(seq),
          order |-> e.order \o seq])

-----------------------------------------------------------------------------
(***************************************************************************)
(* Consistency of an endpoint: the tombstone map and its FIFO hold the     *)
(* same tokens, none twice; no token is both pending and spent; and the    *)
(* tombstones stay within the cap, plus the one that Resolve adds after    *)
(* pruning.  The eviction loop is right only because of the first part: a  *)
(* FIFO entry without its map entry would evict nothing, and a map entry   *)
(* without its FIFO entry would never be evicted.                          *)
(***************************************************************************)
InSync(e)   == IsInjective(e.order) /\ Range(e.order) = e.spent
Apart(e)    == e.items \cap e.spent = {}
Bounded(e)  == Len(e.order) <= MaxSpentTombstones + 1

ConsistentEndpoint(e) == InSync(e) /\ Apart(e) /\ Bounded(e)
=============================================================================
