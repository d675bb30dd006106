--------------------------- MODULE HandoffRegistry --------------------------
(***************************************************************************)
(* The registry of resume continuations (internal/mcp/core/handoff/        *)
(* handoff_registry.go) beside the store of async handles it mirrors       *)
(* (external, AsyncHandleStore): start tools create a handle and begin its *)
(* continuation, resume calls end it, and the registry evicts what is past *)
(* its time to live, or its oldest entry when it is full, and then retires *)
(* the evicted handles outside its lock.                                   *)
(*                                                                         *)
(* createdAt is the position in `order': Begin stamps an entry with the    *)
(* current time, so a new or overwritten entry is the youngest; and as all *)
(* entries have the same time to live, those past it are the oldest ones.  *)
(***************************************************************************)
EXTENDS Naturals, SequencesExt

CONSTANTS Handles,     \* the handles the store may hand out
          Starters,    \* start tools running at once
          Resumers,    \* resume calls that found their handle dead
          MaxEntries   \* DefaultMaxSessions

ASSUME RegistryAssumption == MaxEntries \in Nat \ {0}

VARIABLES
  store,       \* the async handles
  order,       \* the registered handles, oldest first (r.cont)
  stale,       \* how many of them are past their time to live
  at, mine,    \* start tools: where each is, and its handle
  victims,     \* the evicted handles each Begin still has to retire
  doing, dead, \* resume calls: about to end the continuation of `dead'
  (* history *)
  used,        \* the handles handed out so far
  again,       \* those handed out more than once
  cut          \* handles whose continuation a resume call ended while they
               \* were live, since their last Begin

vars == <<store, order, stale, at, mine, victims, doing, dead, used, again, cut>>
tools == <<at, mine, victims, used, again>>

Registered == ToSet(order)
Stale      == {order[i] : i \in 1 .. stale}

Init ==
  /\ store = {} /\ order = << >> /\ stale = 0
  /\ used = {} /\ again = {} /\ cut = {}
  /\ at = [s \in Starters |-> "idle"] /\ mine \in [Starters -> Handles]
  /\ victims = [s \in Starters |-> {}]
  /\ doing = [q \in Resumers |-> "idle"] /\ dead \in [Resumers -> Handles]

-----------------------------------------------------------------------------
(* handles.Create returns a fresh handle, CreateWithID the one it is given: *)
(* auth_sso begins a sign-in it joins again, under the handle it has.       *)
Create(s, h) ==
  /\ at[s] = "idle"
  /\ at' = [at EXCEPT ![s] = "created"] /\ mine' = [mine EXCEPT ![s] = h]
  /\ store' = store \cup {h}
  /\ used' = used \cup {h} /\ again' = again \cup (used \cap {h})
  /\ UNCHANGED <<order, stale, victims, doing, dead, cut>>

(* pruneLocked. *)
Fresh == SubSeq(order, stale + 1, Len(order))

Enter(s, kept, gone) ==
  /\ at[s] = "created" /\ at' = [at EXCEPT ![s] = "begun"]
  /\ order' = Append(RemoveFirst(kept, mine[s]), mine[s]) /\ stale' = 0
  /\ victims' = [victims EXCEPT ![s] = gone] /\ cut' = cut \ {mine[s]}
  /\ UNCHANGED <<store, mine, doing, dead, used, again>>

(* Mutants of Begin: the capacity is checked with > for >=; only the evicted *)
(* handle is retired.                                                        *)
BeginOverfull(s) ==
  IF Len(Fresh) > MaxEntries
    THEN Enter(s, Tail(Fresh), Stale \cup {Head(Fresh)}) ELSE Enter(s, Fresh, Stale)

BeginLeavesStale(s) ==
  IF Len(Fresh) >= MaxEntries
    THEN Enter(s, Tail(Fresh), {Head(Fresh)}) ELSE Enter(s, Fresh, {})

(* Begin, under the registry's lock.  The capacity is checked before the    *)
(* new entry is put in, whether or not the handle has an entry already.     *)
Begin(s) ==
  IF Len(Fresh) >= MaxEntries
    THEN Enter(s, Tail(Fresh), Stale \cup {Head(Fresh)}) ELSE Enter(s, Fresh, Stale)

(* Begin, after the lock: cleanup(h) for each evicted handle. *)
Cleanup(s) ==
  /\ at[s] = "begun"
  /\ \E h \in victims[s] :
       /\ victims' = [victims EXCEPT ![s] = @ \ {h}]
       /\ store' = store \ {h}
  /\ UNCHANGED <<order, stale, at, mine, doing, dead, used, again, cut>>

(* The start tool returns the handle to the agent. *)
Started(s) ==
  /\ at[s] = "begun" /\ victims[s] = {}
  /\ at' = [at EXCEPT ![s] = "idle"]
  /\ UNCHANGED <<store, order, stale, mine, victims, doing, dead, used, again, cut>>

(* The clocks of the two sides. *)
GrowStale ==
  /\ stale < Len(order) /\ stale' = stale + 1
  /\ UNCHANGED <<store, order, tools, doing, dead, cut>>

StoreDrops(h) ==
  /\ h \in store /\ store' = store \ {h}
  /\ UNCHANGED <<order, stale, tools, doing, dead, cut>>

(* A resume call whose flow is over, or whose handle is gone, and            *)
(* auth_sso_revoke delete the handle and then end its continuation.  For a   *)
(* sign-in that is done the continuation does both, and NewResumeTool ends   *)
(* it once more.  Others may begin the handle again in between.              *)
FindOver(q, h) ==
  /\ doing[q] = "idle" /\ h \in used
  /\ store' = store \ {h}
  /\ \E n \in {"ending", "twice"} : doing' = [doing EXCEPT ![q] = n]
  /\ dead' = [dead EXCEPT ![q] = h]
  /\ UNCHANGED <<order, stale, tools, cut>>

End(q) ==
  /\ doing[q] # "idle"
  /\ doing' = [doing EXCEPT ![q] = IF @ = "twice" THEN "ending" ELSE "idle"]
  /\ order' = RemoveFirst(order, dead[q])
  /\ stale' = IF dead[q] \in Stale THEN stale - 1 ELSE stale
  /\ cut' = cut \cup ({dead[q]} \cap Registered \cap store)
  /\ UNCHANGED <<store, tools, dead>>

(* Prune is Begin's sweep alone; only tests call it. *)
Next ==
  \/ \E s \in Starters, h \in Handles : Create(s, h)
  \/ \E s \in Starters : Begin(s) \/ Cleanup(s) \/ Started(s)
  \/ GrowStale \/ \E h \in Handles : StoreDrops(h)
  \/ \E q \in Resumers, h \in Handles : FindOver(q, h)
  \/ \E q \in Resumers : End(q)

Spec == Init /\ [][Next]_vars

-----------------------------------------------------------------------------
(* "the registry cannot grow past maxEntries" (Begin's comment), and no     *)
(* handle has two entries.                                                  *)
Bounded == Len(order) <= MaxEntries /\ IsInjective(order) /\ stale <= Len(order)

(* "an evicted flow cannot leave a live-but-unresumable handle" (the        *)
(* cleanup field's comment): a live handle has its continuation, unless its *)
(* start tool has not begun it yet, an eviction is about to retire it, or a *)
(* resume call of an earlier life of the handle ended the present one.  The *)
(* last happens to no handle that was begun once.                           *)
NoOrphan ==
  /\ \A h \in store :
       \/ h \in Registered
       \/ \E s \in Starters : at[s] = "created" /\ mine[s] = h
       \/ \E s \in Starters : h \in victims[s]
       \/ h \in cut
  /\ cut \subseteq again

(* Refuted, without a run: what a Begin retires is gone from the registry,  *)
(* so that no continuation loses its handle to a clean-up.  auth_sso counts *)
(* on it for a sign-in it joins: "Ensure the async handle exists under this *)
(* id and register the SSO-specific poll continuation ... Both are          *)
(* idempotent for the reused (in-use) case" (auth_sso.go:77-79).  At        *)
(* capacity, or past its time to live, the entry a Begin evicts may be that *)
(* of its own handle, which it then registers and retires.                  *)
CleanupSparesRegistered ==
  [][\A s \in Starters : Cleanup(s) => (store \ store') \cap Registered = {}]_vars
=============================================================================
