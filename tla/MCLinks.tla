------------------------------- MODULE MCLinks ------------------------------
(***************************************************************************)
(* One-time things and who may use them: the registry of continuations,    *)
(* the account pages and the vault upload links.  The three modules share  *)
(* no variable: `concern' says whose behaviour this is, and the variables  *)
(* of the others stay at Idle.                                             *)
(***************************************************************************)
EXTENDS HandoffRegistry, TLC

CONSTANTS Tokens, Requests, MaxSpentTombstones,   \* AccountChange
          Calls, NoCall, Profiles, NoProfile,     \* VaultWrites
          Entries, Cap, Changes

ASSUME LinksAssumption ==
  /\ MaxSpentTombstones \in Nat
  /\ Entries \in Nat /\ Cap \in Nat /\ Changes \in Nat
  /\ NoProfile \notin Profiles /\ NoCall \notin Calls

VARIABLES
  concern,
  ep, minted, lapsed, pc, tok, reply, outcome, aged, updates, refusals, \* AccountChange
  unlocked, active, size, changes, tokens, expired, step, how, named,
  pinned, dest, link, entry, listed, landed, seen               \* VaultWrites

Idle == "-"

registryState ==
  <<store, order, stale, at, mine, victims, doing, dead, used, again, cut>>
accountState  == <<ep, minted, lapsed, pc, tok, reply, outcome, aged, updates, refusals>>
writesState   == <<unlocked, active, size, changes, tokens, expired, step, how, named,
                   pinned, dest, link, entry, listed, landed, seen>>

(* The registry: three handles, room for two, two starts at once that begin *)
(* fresh or known handles and evict each other's, one resume call.          *)
RegistryIdle ==
  /\ store = Idle /\ order = Idle /\ stale = Idle /\ at = Idle /\ mine = Idle
  /\ victims = Idle /\ doing = Idle /\ dead = Idle
  /\ used = Idle /\ again = Idle /\ cut = Idle

(* The account pages: two links, two concurrent POSTs, one tombstone. *)
Account == INSTANCE AccountChange WITH changes <- updates

AccountIdle ==
  /\ ep = Idle /\ minted = Idle /\ lapsed = Idle /\ pc = Idle /\ tok = Idle
  /\ reply = Idle /\ outcome = Idle /\ aged = Idle /\ updates = Idle
  /\ refusals = Idle

(* VaultWrites: three calls at once (a mint and two PUTs of its link, or a  *)
(* mint, its PUT and a write of a tree) on two profiles; a tree of two files *)
(* that just fits, and one change of the registry or of the tree.           *)
Writes == INSTANCE VaultWrites WITH at <- step

WritesIdle ==
  /\ unlocked = Idle /\ active = Idle /\ size = Idle /\ changes = Idle
  /\ tokens = Idle /\ expired = Idle /\ step = Idle /\ how = Idle
  /\ named = Idle /\ pinned = Idle /\ dest = Idle /\ link = Idle
  /\ entry = Idle /\ listed = Idle /\ landed = Idle /\ seen = Idle

Symmetry == Permutations(Calls) \cup Permutations(Profiles)

-----------------------------------------------------------------------------
LinksInit ==
  /\ concern \in {"registry", "account", "writes"}
  /\ IF concern = "registry" THEN Init             ELSE RegistryIdle
  /\ IF concern = "account"  THEN Account!Init     ELSE AccountIdle
  /\ IF concern = "writes"   THEN Writes!VaultInit ELSE WritesIdle

LinksNext ==
  /\ UNCHANGED concern
  /\ \/ concern = "registry" /\ Next             /\ UNCHANGED <<accountState, writesState>>
     \/ concern = "account"  /\ Account!Next     /\ UNCHANGED <<registryState, writesState>>
     \/ concern = "writes"   /\ Writes!VaultNext /\ UNCHANGED <<registryState, accountState>>

linksVars == <<concern, registryState, accountState, writesState>>

LinksSpec == LinksInit /\ [][LinksNext]_linksVars

(* The handle of a start is read until it has begun, that of a resume call   *)
(* until it has ended the continuation.                                      *)
RegistryRead ==
  <<concern, store, order, stale, at, victims, doing, used, again, cut,
    [s \in {x \in Starters : at[x] = "created"} |-> mine[s]],
    [q \in {x \in Resumers : doing[x] # "idle"} |-> dead[q]]>>

LinksView == IF concern = "registry" THEN RegistryRead ELSE linksVars

-----------------------------------------------------------------------------
(* Every variable of the concern keeps its type. *)
LinksTypeOK ==
  /\ concern = "account" => Account!TypeOK
  /\ concern = "writes"  => Writes!VaultTypeOK

(* HandoffRegistry.Bounded and NoOrphan: the registry keeps to its size, and *)
(* a live handle keeps its continuation, also when it is begun again, unless *)
(* a resume call of its earlier life ends it.                                *)
RegistryKept == concern = "registry" => Bounded /\ NoOrphan

(* AccountChange.ClosedMeansAsked and OutcomeWasGiven: a link closes once   *)
(* the service was asked or time passed, and what is recorded is what it    *)
(* answered.                                                                *)
AccountAnswersTrue ==
  concern = "account" => Account!ClosedMeansAsked /\ Account!OutcomeWasGiven

(* VaultWrites.BytesLandWhereAsked: bytes sent for a vault end in the vault *)
(* the caller was told, once.                                               *)
BytesLandRight == concern = "writes" => Writes!BytesLandWhereAsked
=============================================================================
